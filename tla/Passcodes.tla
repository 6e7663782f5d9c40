------------------------------ MODULE Passcodes ------------------------------
(***************************************************************************)
(* Passcodes of one institution (janv-api/src/assessment/passcode.rs) and  *)
(* the gate that asks for them (start_attempt in attempt.rs).              *)
(*                                                                         *)
(* A passcode is stored twice: for the institution, with an expiry, and    *)
(* copied to each assessment with its institution_id, without one. The     *)
(* handlers that renew it write the two tables in statements of no         *)
(* transaction, and an error of the copy is passed over. A student who has *)
(* shown a passcode has a flag in Redis for a while and need not show it   *)
(* again. Time is left out: what has an expiry may expire at any moment,   *)
(* so that what holds here holds of any window, 6 hours or 900 seconds.    *)
(*                                                                         *)
(* No statement of the repository writes assessments.institution_id: it is *)
(* NULL in every assessment a handler creates. The rows that have it, Own, *)
(* were there before the program.                                          *)
(***************************************************************************)
EXTENDS Naturals, FiniteSets

CONSTANTS
    Codes,        \* passcodes, up to case, hyphens and spaces
    Assessments,  \* of the institution's faculty; the greater, the later created
    Own,          \* those with its institution_id
    Students,     \* users.email of the students
    Requests,     \* HTTP requests in flight at the same time
    None          \* no passcode, no student, no assessment

ASSUME PasscodesAssumption ==
    /\ IsFiniteSet(Codes) /\ IsFiniteSet(Requests)
    /\ Assessments \subseteq Nat
    /\ Own \subseteq Assessments
    /\ None \notin Codes \cup Nat \cup Students

VARIABLES
    live,       \* the passcodes in institution_passcodes with is_active and
                \* expires_at > NOW()
    gate,       \* per assessment: its active row of assessment_passcodes
    made,       \* the assessments that exist
    published,  \* those with is_published
    flag,       \* per student: the assessments with a key passcode_verified
    pc,         \* per request: the statement it is about to run
    job,        \* per request: what it works on
    alone,      \* per request: no other renewal has overlapped with it
    settled,    \* the passcode of the last renewal, if it was alone and its
                \* copy succeeded, and no renewal has begun since
    apart,      \* the assessments created, or whose passcode was set or removed
                \* by its creator, since the last copy
    shown       \* per student: the assessments for which a passcode the student
                \* has shown was in force when a statement looked for it

tables == <<live, gate, made, published, flag>>
ghosts == <<alone, settled, apart>>
vars   == <<tables, pc, job, ghosts, shown>>

NoJob == [student |-> None, code |-> None, target |-> None, expected |-> None]

\* Statements of get_current_passcode and regenerate_passcode that renew.
Renewing == {r \in Requests : pc[r] \in {"insert", "copy"}}

Init ==
    /\ live = {}
    /\ gate = [a \in Assessments |-> None]
    /\ made = Own
    /\ published = {}
    /\ flag = [s \in Students |-> {}]
    /\ pc = [r \in Requests |-> "idle"]
    /\ job = [r \in Requests |-> NoJob]
    /\ alone = [r \in Requests |-> FALSE]
    /\ settled = None
    /\ apart = {}
    /\ shown = [s \in Students |-> {}]

ExpirePasscode(c) ==
    /\ c \in live
    /\ live' = live \ {c}
    /\ UNCHANGED <<gate, made, published, flag, pc, job, ghosts, shown>>

\* SETEX ... 900: Redis removes the key.
ExpireFlag(s, a) ==
    /\ a \in flag[s]
    /\ flag' = [flag EXCEPT ![s] = @ \ {a}]
    /\ UNCHANGED <<live, gate, made, published, pc, job, ghosts, shown>>

\* create_assessment and its kin: an assessment without institution and passcode.
CreateAssessment(a) ==
    /\ \A b \in made : b < a
    /\ made'  = made \cup {a}
    /\ apart' = apart \cup {a}
    /\ UNCHANGED <<live, gate, published, flag, pc, job, alone, settled, shown>>

PublishAssessment(a) ==
    /\ a \in made
    /\ published' = published \cup {a}
    /\ UNCHANGED <<live, gate, made, flag, pc, job, ghosts, shown>>

\* The request ends.
Finish(r) ==
    /\ pc'    = [pc EXCEPT ![r] = "idle"]
    /\ job'   = [job EXCEPT ![r] = NoJob]
    /\ alone' = [alone EXCEPT ![r] = FALSE]

-----------------------------------------------------------------------------
(* Renewal *)

\* A renewal begins: whatever else renews is no longer alone.
Renew(r) ==
    /\ pc'      = [pc EXCEPT ![r] = "insert"]
    /\ job'     = [job EXCEPT ![r] = NoJob]
    /\ alone'   = [q \in Requests |-> q = r /\ Renewing = {}]
    /\ settled' = None

\* get_current_passcode: nothing to do while a passcode is valid.
CurrentExpired(r) ==
    /\ pc[r] = "idle"
    /\ live = {}
    /\ Renew(r)
    /\ UNCHANGED <<tables, apart, shown>>

\* Faulty: the old passcodes stay active.
RegenerateBeside(r) ==
    /\ pc[r] = "idle"
    /\ Renew(r)
    /\ UNCHANGED <<tables, apart, shown>>

\* regenerate_passcode: UPDATE ... SET is_active = false.
Regenerate(r) ==
    /\ pc[r] = "idle"
    /\ live' = {}
    /\ Renew(r)
    /\ UNCHANGED <<gate, made, published, flag, apart, shown>>

\* INSERT INTO institution_passcodes, a random passcode: maybe one that was
\* there before.
Insert(r) ==
    /\ pc[r] = "insert"
    /\ \E c \in Codes :
          /\ live' = live \cup {c}
          /\ job'  = [job EXCEPT ![r] = [NoJob EXCEPT !.code = c]]
    /\ pc' = [pc EXCEPT ![r] = "copy"]
    /\ UNCHANGED <<gate, made, published, flag, ghosts, shown>>

\* Faulty: ON CONFLICT DO NOTHING, for want of a passcode only.
CopyToNew(r) ==
    /\ pc[r] = "copy"
    /\ gate' = [a \in Assessments |-> IF a \in Own /\ gate[a] = None THEN job[r].code ELSE gate[a]]
    /\ settled' = IF alone[r] THEN job[r].code ELSE None
    /\ apart' = {}
    /\ Finish(r)
    /\ UNCHANGED <<live, made, published, flag, shown>>

\* INSERT INTO assessment_passcodes ... SELECT ... WHERE a.institution_id = $1
\* ON CONFLICT DO UPDATE: passcodes set by hand are overwritten, removed ones
\* are back.
Copy(r) ==
    /\ pc[r] = "copy"
    /\ gate' = [a \in Assessments |-> IF a \in Own THEN job[r].code ELSE gate[a]]
    /\ settled' = IF alone[r] THEN job[r].code ELSE None
    /\ apart' = {}
    /\ Finish(r)
    /\ UNCHANGED <<live, made, published, flag, shown>>

SetPasscode(a, c) ==
    /\ a \in made
    /\ gate' = [gate EXCEPT ![a] = c]
    /\ apart' = apart \cup {a}
    /\ UNCHANGED <<live, made, published, flag, pc, job, alone, settled, shown>>

RemovePasscode(a) ==
    /\ a \in made
    /\ gate' = [gate EXCEPT ![a] = None]
    /\ apart' = apart \cup {a}
    /\ UNCHANGED <<live, made, published, flag, pc, job, alone, settled, shown>>

-----------------------------------------------------------------------------
(* verify_passcode *)

\* A statement looks for passcode c, which s has shown.
Look(s, c) ==
    shown' = [shown EXCEPT ![s] = @ \cup {a \in Assessments : c \in live \/ gate[a] = c}]

\* Looks for the passcode among the institution's ...
VerifyMatch(r, s, c) ==
    /\ pc[r] = "idle"
    /\ pc'  = [pc EXCEPT ![r] = IF c \in live THEN "pick" ELSE "direct"]
    /\ job' = [job EXCEPT ![r] = [NoJob EXCEPT !.student = s, !.code = c]]
    /\ Look(s, c)
    /\ UNCHANGED <<tables, ghosts>>

Candidates == published \cap Own

\* ... which are for the published assessment created last, if there is one.
VerifyPick(r) ==
    /\ pc[r] = "pick"
    /\ \/ /\ Candidates = {}
          /\ pc' = [pc EXCEPT ![r] = "direct"]
          /\ UNCHANGED job
       \/ \E a \in Candidates :
             /\ \A b \in Candidates : b <= a
             /\ pc'  = [pc EXCEPT ![r] = "flag"]
             /\ job' = [job EXCEPT ![r].target = a]
    /\ UNCHANGED <<tables, ghosts, shown>>

\* Faulty: any assessment with a passcode is taken.
VerifyDirectAny(r) ==
    /\ pc[r] = "direct"
    /\ \E a \in Assessments :
          /\ gate[a] # None
          /\ pc'  = [pc EXCEPT ![r] = "flag"]
          /\ job' = [job EXCEPT ![r].target = a]
    /\ Look(job[r].student, job[r].code)
    /\ UNCHANGED <<tables, ghosts>>

\* The fallback: an assessment with that passcode, any one of several (in the
\* code the one whose row was inserted last).
VerifyDirect(r) ==
    /\ pc[r] = "direct"
    /\ \E a \in Assessments :
          /\ gate[a] = job[r].code
          /\ pc'  = [pc EXCEPT ![r] = "flag"]
          /\ job' = [job EXCEPT ![r].target = a]
    /\ Look(job[r].student, job[r].code)
    /\ UNCHANGED <<tables, ghosts>>

\* SETEX for the flag of the assessment found.
Remember(r) ==
    flag' = [flag EXCEPT ![job[r].student] = @ \cup {job[r].target}]

VerifyFlag(r) ==
    /\ pc[r] = "flag"
    /\ Remember(r)
    /\ Finish(r)
    /\ UNCHANGED <<live, gate, made, published, settled, apart, shown>>

-----------------------------------------------------------------------------
(* The gate of start_attempt *)

\* Reads the passcode of a published assessment, which stays with the request,
\* and has c, if any, from the student. Without a passcode there is no gate.
GateRead(r, s, a, c) ==
    /\ pc[r] = "idle"
    /\ a \in published
    /\ gate[a] # None
    /\ pc'  = [pc EXCEPT ![r] = "gate"]
    /\ job' = [job EXCEPT ![r] = [student |-> s, code |-> c, target |-> a,
                                 expected |-> gate[a]]]
    /\ IF c = None THEN UNCHANGED shown ELSE Look(s, c)
    /\ UNCHANGED <<tables, ghosts>>

\* EXISTS: through with a flag. Without one, or if Redis fails, the passcode that
\* was sent has to be the one read; if none was sent, or another, Drop follows.
GateFlag(r) ==
    /\ pc[r] = "gate"
    /\ \/ /\ job[r].target \in flag[job[r].student]
          /\ pc' = [pc EXCEPT ![r] = "through"]
       \/ pc' = [pc EXCEPT ![r] = "compare"]
    /\ UNCHANGED <<tables, job, ghosts, shown>>

\* Through with the right passcode, whether SETEX succeeds or not.
GateCompare(r) ==
    /\ pc[r] = "compare"
    /\ job[r].code = job[r].expected
    /\ pc' = [pc EXCEPT ![r] = "through"]
    /\ Remember(r) \/ UNCHANGED flag
    /\ UNCHANGED <<live, gate, made, published, job, ghosts, shown>>

\* The request ends: its answer is sent (from "flag", "direct" and "compare" too,
\* when SETEX fails or no passcode agrees), a statement fails, the error of the
\* copy is passed over, or the client is gone.
Drop(r) ==
    /\ pc[r] # "idle"
    /\ Finish(r)
    /\ UNCHANGED <<tables, settled, apart, shown>>

-----------------------------------------------------------------------------
Handler(r) ==
    \/ CurrentExpired(r) \/ Regenerate(r) \/ Insert(r) \/ Copy(r)
    \/ \E s \in Students, c \in Codes : VerifyMatch(r, s, c)
    \/ VerifyPick(r) \/ VerifyDirect(r) \/ VerifyFlag(r)
    \/ \E s \in Students, a \in Assessments, c \in Codes \cup {None} : GateRead(r, s, a, c)
    \/ GateFlag(r) \/ GateCompare(r) \/ Drop(r)

Next ==
    \/ \E c \in Codes : ExpirePasscode(c)
    \/ \E s \in Students, a \in Assessments : ExpireFlag(s, a)
    \/ \E a \in Assessments :
          \/ CreateAssessment(a) \/ PublishAssessment(a) \/ RemovePasscode(a)
          \/ \E c \in Codes : SetPasscode(a, c)
    \/ \E r \in Requests : Handler(r)

Spec == Init /\ [][Next]_vars

-----------------------------------------------------------------------------
(* Properties *)

PCs == {"idle", "insert", "copy", "pick", "direct", "flag", "gate", "compare", "through"}

\* Every variable has its type.
TypeOK ==
    /\ live \subseteq Codes
    /\ gate \in [Assessments -> Codes \cup {None}]
    /\ made \subseteq Assessments
    /\ published \subseteq Assessments
    /\ flag \in [Students -> SUBSET Assessments]
    /\ pc \in [Requests -> PCs]
    /\ job \in [Requests -> [student  : Students \cup {None},
                            code     : Codes \cup {None},
                            target   : Assessments \cup {None},
                            expected : Codes \cup {None}]]
    /\ alone \in [Requests -> BOOLEAN]
    /\ settled \in Codes \cup {None}
    /\ apart \subseteq Assessments
    /\ shown \in [Students -> SUBSET Assessments]

\* regenerate_passcode deactivates and inserts in two statements, and
\* get_current_passcode reads and inserts in two: renewals that overlap leave
\* several passcodes in force. But never more than requests can be in flight at
\* once, the passcodes still to come included.
LiveNeedsOverlap ==
    Cardinality(live) + Cardinality({r \in Requests : pc[r] = "insert"})
        <= Cardinality(Requests)

\* After a renewal that no other overlapped and whose copy succeeded, the two
\* tables agree until the next one begins: no other passcode of the institution
\* is in force, however many earlier renewals overlapped or failed half way, and
\* its assessments ask for that passcode, unless their creator has changed it.
TablesAgree ==
    settled # None =>
        /\ live \subseteq {settled}
        /\ \A a \in Own \ apart : gate[a] = settled

\* Whoever has a flag for an assessment, or is through its gate, has shown a
\* passcode that was in force for it then: of the institution or its own. Not
\* obvious of the gate, which compares with a passcode it read before, and of
\* the flag, which is for an assessment that another statement picks.
ShownBefore ==
    /\ \A s \in Students : flag[s] \subseteq shown[s]
    /\ \A r \in Requests : pc[r] = "through" => job[r].target \in shown[job[r].student]

\* ASSESSMENT_ARCHITECTURE.md:371 of a renewal: "Synchronizes code to
\* `assessment_passcodes` for all assessments under that institution". Those its
\* faculty have created are among them for the reader, not for the statement.
SyncReachesAll ==
    settled # None => \A a \in made \ apart : gate[a] = settled

=============================================================================
