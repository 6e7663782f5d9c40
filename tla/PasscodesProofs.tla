--------------------------- MODULE PasscodesProofs ---------------------------
(***************************************************************************)
(* Proofs about Passcodes, for any passcodes, assessments and requests.    *)
(***************************************************************************)
EXTENDS Passcodes, FiniteSetTheorems, TLAPS

USE PasscodesAssumption

Job == [student  : Students \cup {None},
        code     : Codes \cup {None},
        target   : Assessments \cup {None},
        expected : Codes \cup {None}]

Verifying == {"pick", "direct", "flag"}
AtGate    == {"gate", "compare", "through"}

\* A request works on what exists, and the student has shown what it takes for
\* the step to come.
GroundedAt(r) ==
    /\ pc[r] = "copy" => job[r].code \in Codes
    /\ pc[r] \in Verifying \cup AtGate => job[r].student \in Students
    /\ pc[r] \in {"flag"} \cup AtGate => job[r].target \in Assessments
    /\ pc[r] = "pick" => shown[job[r].student] = Assessments
    /\ pc[r] \in {"flag", "through"} => job[r].target \in shown[job[r].student]
    /\ pc[r] \in {"gate", "compare"} /\ job[r].code = job[r].expected
          => job[r].target \in shown[job[r].student]

Grounded == \A r \in Requests : GroundedAt(r)

\* The flags are earned: the first half of ShownBefore.
Flagged == \A s \in Students : flag[s] \subseteq shown[s]

\* A renewal that is alone has found, or left, no other passcode in force; what
\* it settles stays settled until somebody renews.
Orderly ==
    /\ \A r \in Requests : alone[r] => pc[r] \in {"insert", "copy"} /\ Renewing \subseteq {r}
    /\ \A r \in Requests : alone[r] /\ pc[r] = "insert" => live = {}
    /\ \A r \in Requests : alone[r] /\ pc[r] = "copy" => live \subseteq {job[r].code}
    /\ settled # None => Renewing = {}

-----------------------------------------------------------------------------
(* Type correctness *)

LEMMA InitType == Init => TypeOK
  BY DEF Init, TypeOK, NoJob, PCs

\* The jobs that the handlers begin with, and what they hold.
LEMMA NewJob ==
    /\ NoJob \in Job
    /\ \A c \in Codes : /\ [NoJob EXCEPT !.code = c] \in Job
                         /\ [NoJob EXCEPT !.code = c].code = c
    /\ \A s \in Students, c \in Codes :
          /\ [NoJob EXCEPT !.student = s, !.code = c] \in Job
          /\ [NoJob EXCEPT !.student = s, !.code = c].student = s
          /\ [NoJob EXCEPT !.student = s, !.code = c].code = c
  BY DEF NoJob, Job

\* Finding an assessment changes nothing else of a job.
LEMMA TargetJob ==
    ASSUME NEW j \in Job, NEW a \in Assessments
    PROVE  /\ [j EXCEPT !.target = a] \in Job
           /\ [j EXCEPT !.target = a].target = a
           /\ [j EXCEPT !.target = a].student = j.student
  BY DEF Job

LEMMA JobType == TypeOK => job \in [Requests -> Job]
  BY DEF TypeOK, Job

\* The end of a request keeps the types.
LEMMA FinishType ==
    ASSUME TypeOK, NEW r \in Requests, Finish(r)
    PROVE  /\ pc' \in [Requests -> PCs]
           /\ job' \in [Requests -> Job]
           /\ alone' \in [Requests -> BOOLEAN]
  BY NewJob, JobType DEF TypeOK, Finish, PCs

\* So does the beginning of a renewal.
LEMMA RenewType ==
    ASSUME TypeOK, NEW r \in Requests, Renew(r)
    PROVE  /\ pc' \in [Requests -> PCs]
           /\ job' \in [Requests -> Job]
           /\ alone' \in [Requests -> BOOLEAN]
           /\ settled' \in Codes \cup {None}
<1>1. job' \in [Requests -> Job]
  BY NewJob, JobType DEF Renew
<1> QED
  BY <1>1 DEF TypeOK, Renew, PCs

LEMMA LookType ==
    ASSUME TypeOK, NEW s \in Students, NEW c, Look(s, c)
    PROVE  shown' \in [Students -> SUBSET Assessments]
<1>1. {a \in Assessments : c \in live \/ gate[a] = c} \subseteq Assessments
  OBVIOUS
<1> QED
  BY <1>1 DEF TypeOK, Look

\* And a new flag, of a student and an assessment that exist.
LEMMA RememberType ==
    ASSUME TypeOK, NEW r \in Requests, Remember(r),
           job[r].student \in Students, job[r].target \in Assessments
    PROVE  flag' \in [Students -> SUBSET Assessments]
  BY DEF TypeOK, Remember

\* The types survive every step.
LEMMA NextType ==
    ASSUME TypeOK, Grounded, [Next]_vars
    PROVE  TypeOK'
<1> USE DEF tables, ghosts
<1>0. ASSUME NEW c \in Codes, ExpirePasscode(c) PROVE TypeOK'
  BY <1>0 DEF ExpirePasscode, TypeOK
<1>1. ASSUME NEW s \in Students, NEW a \in Assessments, ExpireFlag(s, a) PROVE TypeOK'
  BY <1>1 DEF ExpireFlag, TypeOK
<1>2. ASSUME NEW a \in Assessments, CreateAssessment(a) PROVE TypeOK'
  BY <1>2 DEF CreateAssessment, TypeOK
<1>3. ASSUME NEW a \in Assessments, PublishAssessment(a) PROVE TypeOK'
  BY <1>3 DEF PublishAssessment, TypeOK
<1>4. ASSUME NEW a \in Assessments, RemovePasscode(a) PROVE TypeOK'
  BY <1>4 DEF RemovePasscode, TypeOK
<1>5. ASSUME NEW a \in Assessments, NEW c \in Codes, SetPasscode(a, c) PROVE TypeOK'
  BY <1>5 DEF SetPasscode, TypeOK
<1>6. ASSUME NEW r \in Requests, CurrentExpired(r) PROVE TypeOK'
  BY <1>6, RenewType DEF CurrentExpired, TypeOK, Job
<1>7. ASSUME NEW r \in Requests, Regenerate(r) PROVE TypeOK'
  BY <1>7, RenewType DEF Regenerate, TypeOK, Job
<1>8. ASSUME NEW r \in Requests, Insert(r) PROVE TypeOK'
  <2>1. PICK c \in Codes :
           /\ live' = live \cup {c}
           /\ job' = [job EXCEPT ![r] = [NoJob EXCEPT !.code = c]]
    BY <1>8 DEF Insert
  <2>2. live' \subseteq Codes
    BY <2>1 DEF TypeOK
  <2>3. job' \in [Requests -> Job]
    BY <2>1, NewJob, JobType
  <2>4. pc' \in [Requests -> PCs]
    BY <1>8 DEF Insert, TypeOK, PCs
  <2> QED
    BY <1>8, <2>2, <2>3, <2>4 DEF Insert, TypeOK, Job
<1>9. ASSUME NEW r \in Requests, Copy(r) PROVE TypeOK'
  <2>1. job[r].code \in Codes
    BY <1>9 DEF Copy, Grounded, GroundedAt
  <2> QED
    BY <1>9, <2>1, FinishType DEF Copy, TypeOK, Job
<1>10. ASSUME NEW r \in Requests, NEW s \in Students, NEW c \in Codes, VerifyMatch(r, s, c)
       PROVE  TypeOK'
  <2>1. job' \in [Requests -> Job] /\ pc' \in [Requests -> PCs]
    <3>1. job' \in [Requests -> Job]
      BY <1>10, NewJob, JobType DEF VerifyMatch
    <3>2. pc' \in [Requests -> PCs]
      BY <1>10 DEF VerifyMatch, TypeOK, PCs
    <3> QED
      BY <3>1, <3>2
  <2> QED
    BY <1>10, <2>1, LookType DEF VerifyMatch, TypeOK, Job
<1>11. ASSUME NEW r \in Requests, VerifyPick(r) PROVE TypeOK'
  <2>1. Candidates \subseteq Assessments
    BY DEF Candidates, TypeOK
  <2>2. job' \in [Requests -> Job] /\ pc' \in [Requests -> PCs]
    <3>1. job' \in [Requests -> Job]
      <4>1. CASE UNCHANGED job
        BY <4>1, JobType
      <4>2. ASSUME NEW a \in Assessments, job' = [job EXCEPT ![r].target = a]
            PROVE  job' \in [Requests -> Job]
        <5>1. job' = [job EXCEPT ![r] = [job[r] EXCEPT !.target = a]]
          BY <4>2
        <5> HIDE DEF Job
        <5> QED
          BY <5>1, TargetJob, JobType
      <4> QED
        BY <1>11, <2>1, <4>1, <4>2 DEF VerifyPick
    <3>2. pc' \in [Requests -> PCs]
      BY <1>11 DEF VerifyPick, TypeOK, PCs
    <3> QED
      BY <3>1, <3>2
  <2> QED
    BY <1>11, <2>2 DEF VerifyPick, TypeOK, Job
<1>12. ASSUME NEW r \in Requests, VerifyDirect(r) PROVE TypeOK'
  <2>1. job' \in [Requests -> Job] /\ pc' \in [Requests -> PCs]
    <3>1. job' \in [Requests -> Job]
      <4>1. ASSUME NEW a \in Assessments, job' = [job EXCEPT ![r].target = a]
            PROVE  job' \in [Requests -> Job]
        <5>1. job' = [job EXCEPT ![r] = [job[r] EXCEPT !.target = a]]
          BY <4>1
        <5> HIDE DEF Job
        <5> QED
          BY <5>1, TargetJob, JobType
      <4> QED
        BY <1>12, <4>1 DEF VerifyDirect
    <3>2. pc' \in [Requests -> PCs]
      BY <1>12 DEF VerifyDirect, TypeOK, PCs
    <3> QED
      BY <3>1, <3>2
  <2>2. job[r].student \in Students
    BY <1>12 DEF VerifyDirect, Grounded, GroundedAt, Verifying
  <2> QED
    BY <1>12, <2>1, <2>2, LookType DEF VerifyDirect, TypeOK, Job
<1>13. ASSUME NEW r \in Requests, VerifyFlag(r) PROVE TypeOK'
  <2>1. job[r].student \in Students /\ job[r].target \in Assessments
    BY <1>13 DEF VerifyFlag, Grounded, GroundedAt, Verifying
  <2> QED
    BY <1>13, <2>1, FinishType, RememberType DEF VerifyFlag, TypeOK, Job
<1>14. ASSUME NEW r \in Requests, NEW s \in Students, NEW a \in Assessments,
              NEW c \in Codes \cup {None}, GateRead(r, s, a, c)
       PROVE  TypeOK'
  <2>1. [student |-> s, code |-> c, target |-> a, expected |-> gate[a]] \in Job
    BY DEF TypeOK, Job
  <2>2. job' \in [Requests -> Job] /\ pc' \in [Requests -> PCs]
    BY <1>14, <2>1, JobType DEF GateRead, TypeOK, PCs
  <2>3. shown' \in [Students -> SUBSET Assessments]
    BY <1>14, LookType DEF GateRead, TypeOK
  <2> QED
    BY <1>14, <2>2, <2>3 DEF GateRead, TypeOK, Job
<1>15. ASSUME NEW r \in Requests, GateFlag(r) PROVE TypeOK'
  BY <1>15 DEF GateFlag, TypeOK, PCs
<1>16. ASSUME NEW r \in Requests, GateCompare(r) PROVE TypeOK'
  <2>1. job[r].student \in Students /\ job[r].target \in Assessments
    BY <1>16 DEF GateCompare, Grounded, GroundedAt, AtGate
  <2>2. flag' \in [Students -> SUBSET Assessments]
    BY <1>16, <2>1, RememberType DEF GateCompare, TypeOK
  <2>3. pc' \in [Requests -> PCs]
    BY <1>16 DEF GateCompare, TypeOK, PCs
  <2> QED
    BY <1>16, <2>2, <2>3 DEF GateCompare, TypeOK
<1>17. ASSUME NEW r \in Requests, Drop(r) PROVE TypeOK'
  BY <1>17, FinishType DEF Drop, TypeOK, Job
<1>18. CASE UNCHANGED vars
  BY <1>18 DEF vars, TypeOK
<1> QED
  BY <1>0, <1>1, <1>2, <1>3, <1>4, <1>5, <1>6, <1>7, <1>8, <1>9, <1>10, <1>11, <1>12, <1>13,
     <1>14, <1>15, <1>16, <1>17, <1>18 DEF Next, Handler

-----------------------------------------------------------------------------
(* What the student has shown *)

\* Showing a passcode adds to what has been shown.
LEMMA LookGrows ==
    ASSUME TypeOK, NEW s \in Students, NEW c, Look(s, c)
    PROVE  /\ \A t \in Students : shown[t] \subseteq shown'[t]
           /\ \A a \in Assessments : gate[a] = c => a \in shown'[s]
           /\ c \in live => shown'[s] = Assessments
  BY DEF TypeOK, Look

\* A request for which nothing changes but what students have shown stays
\* grounded.
LEMMA GroundedOther ==
    ASSUME TypeOK, TypeOK', Grounded, NEW q \in Requests,
           pc'[q] = pc[q], job'[q] = job[q],
           \A t \in Students : shown[t] \subseteq shown'[t]
    PROVE  GroundedAt(q)'
<1>1. GroundedAt(q)
  BY DEF Grounded
<1>2. CASE pc[q] \notin Verifying \cup AtGate
  BY <1>1, <1>2 DEF GroundedAt, Verifying, AtGate
<1>3. CASE pc[q] \in Verifying \cup AtGate
  <2>1. job[q].student \in Students
    BY <1>1, <1>3 DEF GroundedAt
  <2>2. /\ shown[job[q].student] \subseteq shown'[job[q].student]
        /\ shown'[job[q].student] \subseteq Assessments
    BY <2>1 DEF TypeOK
  <2> QED
    BY <1>1, <1>3, <2>1, <2>2 DEF GroundedAt, Verifying, AtGate
<1> QED
  BY <1>2, <1>3

\* So it is enough to look at the request that has taken the step.
LEMMA GroundedBy ==
    ASSUME TypeOK, TypeOK', Grounded, NEW r \in Requests, GroundedAt(r)',
           \A q \in Requests \ {r} : pc'[q] = pc[q] /\ job'[q] = job[q],
           \A t \in Students : shown[t] \subseteq shown'[t]
    PROVE  Grounded'
<1> SUFFICES ASSUME NEW q \in Requests PROVE GroundedAt(q)'
  BY DEF Grounded
<1> QED
  BY GroundedOther

\* A request that has ended is grounded.
LEMMA GroundedFinish ==
    ASSUME TypeOK, TypeOK', Grounded, NEW r \in Requests, Finish(r),
           \A t \in Students : shown[t] \subseteq shown'[t]
    PROVE  Grounded'
<1>1. GroundedAt(r)'
  BY DEF Finish, TypeOK, GroundedAt, Verifying, AtGate
<1>2. \A q \in Requests \ {r} : pc'[q] = pc[q] /\ job'[q] = job[q]
  BY DEF Finish, TypeOK
<1> QED
  BY <1>1, <1>2, GroundedBy

\* Every step leaves every request grounded.
LEMMA NextGrounded ==
    ASSUME TypeOK, TypeOK', Grounded, Flagged, [Next]_vars
    PROVE  Grounded'
<1> USE DEF tables, ghosts
<1>1. ASSUME UNCHANGED <<pc, job, shown>> PROVE Grounded'
  BY <1>1, GroundedOther DEF Grounded
<1>2. ASSUME NEW r \in Requests, CurrentExpired(r) \/ Regenerate(r) PROVE Grounded'
  <2>1. /\ pc' = [pc EXCEPT ![r] = "insert"]
        /\ job' = [job EXCEPT ![r] = NoJob]
        /\ shown' = shown
    BY <1>2 DEF CurrentExpired, Regenerate, Renew
  <2>2. GroundedAt(r)'
    BY <2>1 DEF TypeOK, GroundedAt, Verifying, AtGate
  <2>3. \A q \in Requests \ {r} : pc'[q] = pc[q] /\ job'[q] = job[q]
    BY <2>1 DEF TypeOK
  <2> QED
    BY <2>1, <2>2, <2>3, GroundedBy
<1>3. ASSUME NEW r \in Requests, Insert(r) PROVE Grounded'
  <2>1. PICK c \in Codes : job' = [job EXCEPT ![r] = [NoJob EXCEPT !.code = c]]
    BY <1>3 DEF Insert
  <2>2. pc' = [pc EXCEPT ![r] = "copy"] /\ shown' = shown
    BY <1>3 DEF Insert
  <2>3. job'[r].code = c
    BY <2>1, NewJob DEF TypeOK
  <2>4. GroundedAt(r)'
    BY <2>2, <2>3 DEF TypeOK, GroundedAt, Verifying, AtGate
  <2>5. \A q \in Requests \ {r} : pc'[q] = pc[q] /\ job'[q] = job[q]
    BY <2>1, <2>2 DEF TypeOK
  <2> QED
    BY <2>2, <2>4, <2>5, GroundedBy
<1>4. ASSUME NEW r \in Requests, Copy(r) \/ VerifyFlag(r) \/ Drop(r) PROVE Grounded'
  BY <1>4, GroundedFinish DEF Copy, VerifyFlag, Drop
<1>5. ASSUME NEW r \in Requests, NEW s \in Students, NEW c \in Codes, VerifyMatch(r, s, c)
      PROVE  Grounded'
  <2>1. /\ job'[r].student = s
        /\ pc'[r] = IF c \in live THEN "pick" ELSE "direct"
    BY <1>5, NewJob DEF VerifyMatch, TypeOK
  <2>2. c \in live => shown'[s] = Assessments
    BY <1>5, LookGrows DEF VerifyMatch
  <2>3. GroundedAt(r)'
    BY <2>1, <2>2 DEF GroundedAt, Verifying, AtGate
  <2>4. \A q \in Requests \ {r} : pc'[q] = pc[q] /\ job'[q] = job[q]
    BY <1>5 DEF VerifyMatch, TypeOK
  <2>5. \A t \in Students : shown[t] \subseteq shown'[t]
    BY <1>5, LookGrows DEF VerifyMatch
  <2> QED
    BY <2>3, <2>4, <2>5, GroundedBy
<1>6. ASSUME NEW r \in Requests, VerifyPick(r) PROVE Grounded'
  <2>1. /\ shown' = shown
        /\ job[r].student \in Students /\ shown[job[r].student] = Assessments
        /\ job[r] \in Job
    BY <1>6, JobType DEF VerifyPick, Grounded, GroundedAt, Verifying
  <2>2. CASE pc' = [pc EXCEPT ![r] = "direct"] /\ UNCHANGED job
    <3>1. GroundedAt(r)'
      BY <2>1, <2>2 DEF TypeOK, GroundedAt, Verifying, AtGate
    <3>2. \A q \in Requests \ {r} : pc'[q] = pc[q] /\ job'[q] = job[q]
      BY <2>2 DEF TypeOK
    <3> QED
      BY <2>1, <3>1, <3>2, GroundedBy
  <2>3. ASSUME NEW a \in Candidates,
               pc' = [pc EXCEPT ![r] = "flag"],
               job' = [job EXCEPT ![r].target = a]
        PROVE  Grounded'
    <3>1. a \in Assessments
      BY DEF Candidates, TypeOK
    <3>2. job'[r] = [job[r] EXCEPT !.target = a]
      BY <2>3 DEF TypeOK
    <3>3. job'[r].target = a /\ job'[r].student = job[r].student
      BY <2>1, <3>1, <3>2, TargetJob
    <3>4. GroundedAt(r)'
      BY <2>1, <2>3, <3>1, <3>3 DEF TypeOK, GroundedAt, Verifying, AtGate
    <3>5. \A q \in Requests \ {r} : pc'[q] = pc[q] /\ job'[q] = job[q]
      BY <2>3 DEF TypeOK
    <3> QED
      BY <2>1, <3>4, <3>5, GroundedBy
  <2> QED
    BY <1>6, <2>2, <2>3 DEF VerifyPick
<1>7. ASSUME NEW r \in Requests, VerifyDirect(r) PROVE Grounded'
  <2>1. PICK a \in Assessments : /\ gate[a] = job[r].code
                                 /\ pc' = [pc EXCEPT ![r] = "flag"]
                                 /\ job' = [job EXCEPT ![r].target = a]
    BY <1>7 DEF VerifyDirect
  <2>2. job[r].student \in Students /\ job[r] \in Job
    BY <1>7, JobType DEF VerifyDirect, Grounded, GroundedAt, Verifying
  <2>3. a \in shown'[job[r].student]
    BY <1>7, <2>1, <2>2, LookGrows DEF VerifyDirect
  <2>4. job'[r] = [job[r] EXCEPT !.target = a]
    BY <2>1 DEF TypeOK
  <2>5. job'[r].target = a /\ job'[r].student = job[r].student
    BY <2>2, <2>4, TargetJob
  <2>6. GroundedAt(r)'
    BY <2>1, <2>2, <2>3, <2>5 DEF TypeOK, GroundedAt, Verifying, AtGate
  <2>7. \A q \in Requests \ {r} : pc'[q] = pc[q] /\ job'[q] = job[q]
    BY <2>1 DEF TypeOK
  <2>8. \A t \in Students : shown[t] \subseteq shown'[t]
    BY <1>7, <2>2, LookGrows DEF VerifyDirect
  <2> QED
    BY <2>6, <2>7, <2>8, GroundedBy
<1>8. ASSUME NEW r \in Requests, NEW s \in Students, NEW a \in Assessments,
             NEW c \in Codes \cup {None}, GateRead(r, s, a, c)
      PROVE  Grounded'
  <2>1. /\ pc' = [pc EXCEPT ![r] = "gate"]
        /\ job'[r] = [student |-> s, code |-> c, target |-> a, expected |-> gate[a]]
    BY <1>8 DEF GateRead, TypeOK
  <2>2. \A t \in Students : shown[t] \subseteq shown'[t]
    BY <1>8, LookGrows DEF GateRead
  <2>3. c = gate[a] => a \in shown'[s]
    BY <1>8, LookGrows DEF GateRead
  <2>4. GroundedAt(r)'
    BY <2>1, <2>3 DEF TypeOK, GroundedAt, Verifying, AtGate
  <2>5. \A q \in Requests \ {r} : pc'[q] = pc[q] /\ job'[q] = job[q]
    BY <1>8 DEF GateRead, TypeOK
  <2> QED
    BY <2>2, <2>4, <2>5, GroundedBy
<1>9. ASSUME NEW r \in Requests, GateFlag(r) \/ GateCompare(r) PROVE Grounded'
  <2>1. /\ shown' = shown /\ job' = job
        /\ pc[r] \in {"gate", "compare"} /\ GroundedAt(r)
    BY <1>9 DEF GateFlag, GateCompare, Grounded
  <2>2. \/ pc' = [pc EXCEPT ![r] = "compare"] /\ pc[r] = "gate"
        \/ /\ pc' = [pc EXCEPT ![r] = "through"]
           /\ job[r].target \in flag[job[r].student] \/ job[r].code = job[r].expected
    BY <1>9 DEF GateFlag, GateCompare
  <2>3. job[r].target \in flag[job[r].student] => job[r].target \in shown[job[r].student]
    BY <2>1 DEF Flagged, GroundedAt, AtGate
  <2>4. GroundedAt(r)'
    BY <2>1, <2>2, <2>3 DEF TypeOK, GroundedAt, Verifying, AtGate
  <2>5. \A q \in Requests \ {r} : pc'[q] = pc[q] /\ job'[q] = job[q]
    BY <2>1, <2>2 DEF TypeOK
  <2> QED
    BY <2>1, <2>4, <2>5, GroundedBy
<1>10. CASE \/ \E c \in Codes : ExpirePasscode(c)
            \/ \E s \in Students, a \in Assessments : ExpireFlag(s, a)
            \/ \E a \in Assessments :
                  \/ CreateAssessment(a) \/ PublishAssessment(a) \/ RemovePasscode(a)
                  \/ \E c \in Codes : SetPasscode(a, c)
            \/ UNCHANGED vars
  BY <1>1, <1>10 DEF ExpirePasscode, ExpireFlag, CreateAssessment, PublishAssessment,
                     RemovePasscode, SetPasscode, vars
<1> QED
  BY <1>2, <1>3, <1>4, <1>5, <1>6, <1>7, <1>8, <1>9, <1>10 DEF Next, Handler

\* Every flag stays earned.
LEMMA NextFlagged ==
    ASSUME TypeOK, Grounded, Flagged, [Next]_vars
    PROVE  Flagged'
<1> USE DEF tables, ghosts
<1>1. ASSUME UNCHANGED flag, \A t \in Students : shown[t] \subseteq shown'[t]
      PROVE  Flagged'
  BY <1>1 DEF Flagged
<1>2. ASSUME NEW s \in Students, NEW a \in Assessments, ExpireFlag(s, a) PROVE Flagged'
  BY <1>2 DEF ExpireFlag, Flagged, TypeOK
<1>3. ASSUME NEW r \in Requests, Remember(r), UNCHANGED shown,
             job[r].student \in Students, job[r].target \in shown[job[r].student]
      PROVE  Flagged'
  BY <1>3 DEF Remember, Flagged, TypeOK
<1>4. ASSUME NEW r \in Requests, VerifyFlag(r) PROVE Flagged'
  <2>1. job[r].student \in Students /\ job[r].target \in shown[job[r].student]
    BY <1>4 DEF VerifyFlag, Grounded, GroundedAt, Verifying
  <2> QED
    BY <1>3, <1>4, <2>1 DEF VerifyFlag
<1>5. ASSUME NEW r \in Requests, GateCompare(r) PROVE Flagged'
  <2>1. job[r].student \in Students /\ job[r].target \in shown[job[r].student]
    BY <1>5 DEF GateCompare, Grounded, GroundedAt, AtGate
  <2> QED
    BY <1>1, <1>3, <1>5, <2>1 DEF GateCompare
<1>6. ASSUME NEW r \in Requests, NEW s \in Students, NEW c \in Codes, VerifyMatch(r, s, c)
      PROVE  Flagged'
  BY <1>1, <1>6, LookGrows DEF VerifyMatch
<1>7. ASSUME NEW r \in Requests, VerifyDirect(r) PROVE Flagged'
  <2>1. job[r].student \in Students
    BY <1>7 DEF VerifyDirect, Grounded, GroundedAt, Verifying
  <2> QED
    BY <1>1, <1>7, <2>1, LookGrows DEF VerifyDirect
<1>8. ASSUME NEW r \in Requests, NEW s \in Students, NEW a \in Assessments,
             NEW c \in Codes \cup {None}, GateRead(r, s, a, c)
      PROVE  Flagged'
  BY <1>1, <1>8, LookGrows DEF GateRead
<1>9. CASE UNCHANGED <<flag, shown>>
  BY <1>1, <1>9
<1>10. ASSUME NEW r \in Requests,
              \/ CurrentExpired(r) \/ Regenerate(r) \/ Insert(r) \/ Copy(r)
              \/ VerifyPick(r) \/ GateFlag(r) \/ Drop(r)
       PROVE  Flagged'
  BY <1>9, <1>10 DEF CurrentExpired, Regenerate, Insert, Copy, VerifyPick, GateFlag, Drop
<1>11. CASE \/ \E c \in Codes : ExpirePasscode(c)
            \/ \E a \in Assessments :
                  \/ CreateAssessment(a) \/ PublishAssessment(a) \/ RemovePasscode(a)
                  \/ \E c \in Codes : SetPasscode(a, c)
            \/ UNCHANGED vars
  BY <1>9, <1>11 DEF ExpirePasscode, CreateAssessment, PublishAssessment, RemovePasscode,
                     SetPasscode, vars
<1> QED
  BY <1>2, <1>4, <1>5, <1>6, <1>7, <1>8, <1>10, <1>11 DEF Next, Handler

-----------------------------------------------------------------------------
(* The two tables *)

\* A step of another kind leaves the renewals and the passcodes in force alone,
\* and may only take passcodes out of force.
LEMMA OrderlyOther ==
    ASSUME TypeOK, Orderly, UNCHANGED <<alone, settled, Renewing>>, live' \subseteq live,
           \A r \in Renewing : pc'[r] = pc[r] /\ job'[r] = job[r]
    PROVE  Orderly'
  BY DEF Orderly, Renewing

\* A request that ends, with a copy or without, is not alone any more.
LEMMA OrderlyFinish ==
    ASSUME TypeOK, Orderly, NEW r \in Requests, Finish(r), UNCHANGED live,
           settled' # None => settled' = settled \/ alone[r]
    PROVE  Orderly'
<1>1. Renewing' = Renewing \ {r}
  BY DEF Finish, Renewing, TypeOK
<1>2. \A q \in Requests : alone'[q] =>
          q # r /\ alone[q] /\ pc'[q] = pc[q] /\ job'[q] = job[q]
  BY DEF Finish, TypeOK
<1>3. settled' # None => Renewing' = {}
  BY <1>1 DEF Orderly
<1> QED
  BY <1>1, <1>2, <1>3 DEF Orderly

\* A renewal that begins is alone if no other is under way, and no passcode is in
\* force: none was, or it has just deactivated them.
LEMMA OrderlyRenew ==
    ASSUME TypeOK, NEW r \in Requests, Renew(r), live' = {}
    PROVE  Orderly'
<1>1. Renewing' = Renewing \cup {r}
  BY DEF Renew, Renewing, TypeOK
<1>2. \A q \in Requests : alone'[q] => q = r /\ Renewing' = {r} /\ pc'[q] = "insert"
  BY <1>1 DEF Renew, TypeOK
<1> QED
  BY <1>2 DEF Orderly, Renew

\* Every step keeps the renewals in order.
LEMMA NextOrderly ==
    ASSUME TypeOK, Orderly, [Next]_vars
    PROVE  Orderly'
<1> USE DEF tables, ghosts
<1>1. ASSUME NEW r \in Requests, pc[r] \notin {"insert", "copy"},
             pc'[r] \notin {"insert", "copy"},
             \A q \in Requests \ {r} : pc'[q] = pc[q] /\ job'[q] = job[q],
             UNCHANGED <<alone, settled, live>>
      PROVE  Orderly'
  BY <1>1, OrderlyOther DEF Renewing
<1>2. ASSUME UNCHANGED <<pc, job, alone, settled>>, live' \subseteq live PROVE Orderly'
  BY <1>2, OrderlyOther DEF Renewing
<1>3. ASSUME NEW r \in Requests, CurrentExpired(r) \/ Regenerate(r) PROVE Orderly'
  BY <1>3, OrderlyRenew DEF CurrentExpired, Regenerate
<1>4. ASSUME NEW r \in Requests, Insert(r) PROVE Orderly'
  <2>1. PICK c \in Codes : /\ live' = live \cup {c}
                           /\ job' = [job EXCEPT ![r] = [NoJob EXCEPT !.code = c]]
    BY <1>4 DEF Insert
  <2>2. /\ pc' = [pc EXCEPT ![r] = "copy"] /\ pc[r] = "insert"
        /\ alone' = alone /\ settled' = settled
    BY <1>4 DEF Insert
  <2>3. Renewing' = Renewing /\ r \in Renewing
    BY <2>2 DEF Renewing, TypeOK
  <2>4. \A q \in Requests : alone[q] => q = r
    BY <2>3 DEF Orderly
  <2>5. alone[r] => live' = {c}
    BY <2>1, <2>2 DEF Orderly
  <2>6. job'[r].code = c
    BY <2>1, NewJob DEF TypeOK
  <2> QED
    BY <2>2, <2>3, <2>4, <2>5, <2>6 DEF Orderly, TypeOK
<1>5. ASSUME NEW r \in Requests, Copy(r) \/ VerifyFlag(r) \/ Drop(r) PROVE Orderly'
  BY <1>5, OrderlyFinish DEF Copy, VerifyFlag, Drop
<1>6. ASSUME NEW r \in Requests,
             \/ \E s \in Students, c \in Codes : VerifyMatch(r, s, c)
             \/ \E s \in Students, a \in Assessments, c \in Codes \cup {None} : GateRead(r, s, a, c)
      PROVE  Orderly'
  BY <1>1, <1>6 DEF VerifyMatch, GateRead, TypeOK
<1>7. ASSUME NEW r \in Requests, VerifyPick(r) \/ VerifyDirect(r) PROVE Orderly'
  BY <1>1, <1>7 DEF VerifyPick, VerifyDirect, TypeOK
<1>8. ASSUME NEW r \in Requests, GateFlag(r) \/ GateCompare(r) PROVE Orderly'
  BY <1>1, <1>8 DEF GateFlag, GateCompare, TypeOK
<1>9. CASE \/ \E c \in Codes : ExpirePasscode(c)
           \/ \E s \in Students, a \in Assessments : ExpireFlag(s, a)
           \/ \E a \in Assessments :
                 \/ CreateAssessment(a) \/ PublishAssessment(a) \/ RemovePasscode(a)
                 \/ \E c \in Codes : SetPasscode(a, c)
           \/ UNCHANGED vars
  BY <1>2, <1>9 DEF ExpirePasscode, ExpireFlag, CreateAssessment, PublishAssessment,
                    RemovePasscode, SetPasscode, vars
<1> QED
  BY <1>3, <1>4, <1>5, <1>6, <1>7, <1>8, <1>9 DEF Next, Handler

\* The tables, once they agree, agree until the next renewal.
LEMMA NextTables ==
    ASSUME TypeOK, Orderly, TablesAgree, [Next]_vars
    PROVE  TablesAgree'
<1> USE DEF tables, ghosts
<1>1. ASSUME settled' = None PROVE TablesAgree'
  BY <1>1 DEF TablesAgree
<1>2. ASSUME live' \subseteq live, settled' = settled,
             \A a \in Own \ apart' : a \notin apart /\ gate'[a] = gate[a]
      PROVE  TablesAgree'
  BY <1>2 DEF TablesAgree
<1>3. ASSUME NEW r \in Requests, Copy(r) PROVE TablesAgree'
  <2>1. CASE alone[r]
    <3>1. live' \subseteq {job[r].code} /\ settled' = job[r].code
      BY <1>3, <2>1 DEF Copy, Orderly
    <3>2. \A a \in Own : gate'[a] = job[r].code
      BY <1>3 DEF Copy
    <3> QED
      BY <3>1, <3>2 DEF TablesAgree
  <2>2. CASE ~alone[r]
    BY <1>1, <1>3, <2>2 DEF Copy
  <2> QED
    BY <2>1, <2>2
<1>4. ASSUME NEW r \in Requests, CurrentExpired(r) \/ Regenerate(r) PROVE TablesAgree'
  BY <1>1, <1>4 DEF CurrentExpired, Regenerate, Renew
<1>5. ASSUME NEW r \in Requests, Insert(r) PROVE TablesAgree'
  <2>1. r \in Renewing /\ settled' = settled
    BY <1>5 DEF Insert, Renewing
  <2> QED
    BY <1>1, <2>1 DEF Orderly
<1>6. ASSUME NEW a \in Assessments,
             \/ CreateAssessment(a) \/ PublishAssessment(a) \/ RemovePasscode(a)
             \/ \E c \in Codes : SetPasscode(a, c)
      PROVE  TablesAgree'
  BY <1>2, <1>6 DEF CreateAssessment, PublishAssessment, RemovePasscode, SetPasscode, TypeOK
<1>7. CASE \/ \E c \in Codes : ExpirePasscode(c)
           \/ \E s \in Students, a \in Assessments : ExpireFlag(s, a)
           \/ UNCHANGED vars
  BY <1>2, <1>7 DEF ExpirePasscode, ExpireFlag, vars
<1>8. ASSUME NEW r \in Requests,
             \/ \E s \in Students, c \in Codes : VerifyMatch(r, s, c)
             \/ VerifyPick(r) \/ VerifyDirect(r) \/ VerifyFlag(r)
             \/ \E s \in Students, a \in Assessments, c \in Codes \cup {None} : GateRead(r, s, a, c)
             \/ GateFlag(r) \/ GateCompare(r) \/ Drop(r)
      PROVE  TablesAgree'
  BY <1>2, <1>8 DEF VerifyMatch, VerifyPick, VerifyDirect, VerifyFlag, GateRead, GateFlag,
                    GateCompare, Drop
<1> QED
  BY <1>3, <1>4, <1>5, <1>6, <1>7, <1>8 DEF Next, Handler

-----------------------------------------------------------------------------
(* How many passcodes are in force *)

Inserting == {r \in Requests : pc[r] = "insert"}

LEMMA FiniteParts ==
    ASSUME TypeOK
    PROVE  /\ IsFiniteSet(live) /\ Cardinality(live) \in Nat
           /\ IsFiniteSet(Inserting) /\ Cardinality(Inserting) \in Nat
           /\ Cardinality(Inserting) <= Cardinality(Requests)
           /\ Cardinality(Requests) \in Nat
<1>1. live \subseteq Codes /\ Inserting \subseteq Requests
  BY DEF TypeOK, Inserting
<1>2. IsFiniteSet(live) /\ IsFiniteSet(Inserting) /\ Cardinality(Inserting) <= Cardinality(Requests)
  BY <1>1, FS_Subset
<1> QED
  BY <1>2, FS_CardinalityType

\* An insert moves a request from the one count to the other.
LEMMA NextOverlap ==
    ASSUME TypeOK, TypeOK', LiveNeedsOverlap, [Next]_vars
    PROVE  LiveNeedsOverlap'
<1> USE DEF tables, ghosts
<1>0. LiveNeedsOverlap <=> Cardinality(live) + Cardinality(Inserting) <= Cardinality(Requests)
  BY DEF LiveNeedsOverlap, Inserting
<1>1. ASSUME live' \subseteq live, Inserting' \subseteq Inserting PROVE LiveNeedsOverlap'
  <2>1. Cardinality(live') <= Cardinality(live)
    BY <1>1, FiniteParts, FS_Subset
  <2>2. Cardinality(Inserting') <= Cardinality(Inserting)
    BY <1>1, FiniteParts, FS_Subset
  <2>3. Cardinality(live') \in Nat /\ Cardinality(Inserting') \in Nat
    BY <1>1, FiniteParts, FS_Subset, FS_CardinalityType
  <2>4. Cardinality(live') + Cardinality(Inserting') <= Cardinality(Requests)
    BY <1>0, <2>1, <2>2, <2>3, FiniteParts
  <2> QED
    BY <2>4 DEF LiveNeedsOverlap, Inserting
<1>2. ASSUME live' = {} PROVE LiveNeedsOverlap'
  <2>1. Inserting' \subseteq Requests
    BY DEF Inserting
  <2>2. Cardinality(Inserting') \in Nat /\ Cardinality(Inserting') <= Cardinality(Requests)
    BY <2>1, FS_Subset, FS_CardinalityType
  <2>3. Cardinality(live') = 0
    BY <1>2, FS_EmptySet
  <2>4. Cardinality(live') + Cardinality(Inserting') <= Cardinality(Requests)
    BY <2>2, <2>3
  <2> QED
    BY <2>4 DEF LiveNeedsOverlap, Inserting
<1>3. ASSUME NEW r \in Requests, Insert(r) PROVE LiveNeedsOverlap'
  <2>1. PICK c \in Codes : live' = live \cup {c}
    BY <1>3 DEF Insert
  <2>2. r \in Inserting /\ Inserting' = Inserting \ {r}
    BY <1>3 DEF Insert, Inserting, TypeOK
  <2>3. Cardinality(live') \in Nat /\ Cardinality(live') <= Cardinality(live) + 1
    <3>1. IsFiniteSet(live) /\ Cardinality(live) \in Nat
      BY FiniteParts
    <3>2. Cardinality(live \cup {c}) =
            IF c \in live THEN Cardinality(live) ELSE Cardinality(live) + 1
      BY <3>1, FS_AddElement
    <3>3. Cardinality(live') = Cardinality(live) \/ Cardinality(live') = Cardinality(live) + 1
      BY <2>1, <3>2
    <3> QED
      BY <3>1, <3>3
  <2>4. Cardinality(Inserting') = Cardinality(Inserting) - 1
    BY <2>2, FiniteParts, FS_RemoveElement
  <2>5. Cardinality(live') + Cardinality(Inserting') <= Cardinality(Requests)
    BY <1>0, <2>3, <2>4, FiniteParts
  <2> QED
    BY <2>5 DEF LiveNeedsOverlap, Inserting
<1>4. ASSUME NEW r \in Requests, CurrentExpired(r) \/ Regenerate(r) PROVE LiveNeedsOverlap'
  BY <1>2, <1>4 DEF CurrentExpired, Regenerate
<1>5. ASSUME NEW r \in Requests, Copy(r) \/ VerifyFlag(r) \/ Drop(r) PROVE LiveNeedsOverlap'
  BY <1>1, <1>5 DEF Copy, VerifyFlag, Drop, Finish, Inserting, TypeOK
<1>6. ASSUME NEW r \in Requests,
             \/ \E s \in Students, c \in Codes : VerifyMatch(r, s, c)
             \/ VerifyPick(r) \/ VerifyDirect(r)
      PROVE  LiveNeedsOverlap'
  BY <1>1, <1>6 DEF VerifyMatch, VerifyPick, VerifyDirect, Inserting, TypeOK
<1>7. ASSUME NEW r \in Requests,
             \/ \E s \in Students, a \in Assessments, c \in Codes \cup {None} : GateRead(r, s, a, c)
             \/ GateFlag(r) \/ GateCompare(r)
      PROVE  LiveNeedsOverlap'
  BY <1>1, <1>7 DEF GateRead, GateFlag, GateCompare, Inserting, TypeOK
<1>8. CASE \/ \E c \in Codes : ExpirePasscode(c)
           \/ \E s \in Students, a \in Assessments : ExpireFlag(s, a)
           \/ \E a \in Assessments :
                 \/ CreateAssessment(a) \/ PublishAssessment(a) \/ RemovePasscode(a)
                 \/ \E c \in Codes : SetPasscode(a, c)
           \/ UNCHANGED vars
  BY <1>1, <1>8 DEF ExpirePasscode, ExpireFlag, CreateAssessment, PublishAssessment,
                    RemovePasscode, SetPasscode, Inserting, vars
<1> QED
  BY <1>3, <1>4, <1>5, <1>6, <1>7, <1>8 DEF Next, Handler

-----------------------------------------------------------------------------
(* The theorems *)

Inv == TypeOK /\ Grounded /\ Flagged /\ Orderly /\ TablesAgree /\ LiveNeedsOverlap

LEMMA InitInv == Init => Inv
<1> SUFFICES ASSUME Init PROVE Inv
  OBVIOUS
<1>1. TypeOK
  BY InitType
<1>2. Grounded /\ Flagged
  BY DEF Init, Grounded, GroundedAt, Flagged, Verifying, AtGate
<1>3. Orderly /\ TablesAgree
  BY DEF Init, Orderly, Renewing, TablesAgree
<1>4. LiveNeedsOverlap
  <2>1. live = {} /\ Inserting = {}
    BY DEF Init, Inserting
  <2>2. Cardinality({}) = 0 /\ Cardinality(Requests) \in Nat
    BY <1>1, FiniteParts, FS_EmptySet
  <2>3. Cardinality(live) + Cardinality(Inserting) <= Cardinality(Requests)
    BY <2>1, <2>2
  <2> QED
    BY <2>3 DEF LiveNeedsOverlap, Inserting
<1> QED
  BY <1>1, <1>2, <1>3, <1>4 DEF Inv

\* The inductive invariant of this component.
THEOREM Invariance == Spec => []Inv
<1>1. Inv /\ [Next]_vars => Inv'
  BY NextType, NextGrounded, NextFlagged, NextOrderly, NextTables, NextOverlap DEF Inv
<1> QED
  BY <1>1, InitInv, PTL DEF Spec

\* Every variable has its type.
THEOREM TypeCorrect == Spec => []TypeOK
<1>1. Inv => TypeOK
  BY DEF Inv
<1> QED
  BY <1>1, Invariance, PTL

\* However many renewals overlap or fail half way: there are never more passcodes
\* in force than requests can be in flight (get_current_passcode and
\* regenerate_passcode insert in a statement of its own).
THEOREM FewPasscodes == Spec => []LiveNeedsOverlap
<1>1. Inv => LiveNeedsOverlap
  BY DEF Inv
<1> QED
  BY <1>1, Invariance, PTL

\* After a renewal that was alone and has copied its passcode, the passcodes of
\* the institution and of its assessments agree, until the next one begins.
THEOREM TablesStayEqual == Spec => []TablesAgree
<1>1. Inv => TablesAgree
  BY DEF Inv
<1> QED
  BY <1>1, Invariance, PTL

\* A renewal that was alone does reach all assessments (ASSESSMENT_ARCHITECTURE.md:371)
\* where all have an institution: those that create_assessment makes are what
\* passcodes_sync fails of, and nothing else.
THEOREM SyncReachesOwn == Spec => [](made \subseteq Own => SyncReachesAll)
<1>1. TablesAgree => (made \subseteq Own => SyncReachesAll)
  BY DEF TablesAgree, SyncReachesAll
<1> QED
  BY <1>1, TablesStayEqual, PTL

\* Whoever has a flag or is through the gate of start_attempt has shown a passcode
\* that was in force when a statement looked for it.
THEOREM GateIsEarned == Spec => []ShownBefore
<1>1. Inv => ShownBefore
  BY DEF Inv, Flagged, Grounded, GroundedAt, ShownBefore
<1> QED
  BY <1>1, Invariance, PTL

=============================================================================
