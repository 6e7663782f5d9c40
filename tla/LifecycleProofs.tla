-------------------------- MODULE LifecycleProofs ---------------------------
(***************************************************************************)
(* Proofs about Lifecycle, for any set of assessments and servers.         *)
(***************************************************************************)
EXTENDS Lifecycle, TLAPS

USE LifecycleAssumption

-----------------------------------------------------------------------------
(* Lemmas *)

\* A committed tick changes a row that it found, and no other.
LEMMA AdvancedRow ==
    ASSUME TypeOK, NEW i \in Servers, NEW a \in Assessments
    PROVE  /\ Advanced(i, a) \in Rows
           /\ a \in over[i] => /\ Advanced(i, a).status = "completed"
                               /\ Advanced(i, a).published = row[a].published
           /\ a \in opened[i] \ over[i] => /\ Advanced(i, a).status = "ongoing"
                                           /\ Advanced(i, a).published
           /\ a \notin over[i] \cup opened[i] => Advanced(i, a) = row[a]
<1>1. row[a] \in Rows
  BY DEF TypeOK
<1>2. CASE a \in over[i]
  BY <1>1, <1>2 DEF Advanced, Rows, Statuses
<1>3. CASE a \in opened[i] \ over[i]
  BY <1>1, <1>3 DEF Advanced, Rows, Statuses
<1>4. CASE a \notin over[i] \cup opened[i]
  BY <1>1, <1>4 DEF Advanced
<1> QED
  BY <1>2, <1>3, <1>4

\* A new row has the type of one.
LEMMA DraftRow ==
    ASSUME clock \in 0 .. MaxTime, NEW start \in Starts, NEW end \in Ends
    PROVE  Draft(start, end) \in Rows /\ NoRow \in Rows
  BY DEF Draft, NoRow, Blank, Rows, Statuses

\* A deleted row is told from the others by its status.
LEMMA DeletedRow == Deleted \in Rows /\ Deleted.status = "deleted"
  BY DEF Deleted, Blank, Rows, Statuses

\* A step of a handler, or of whoever sets a status.
HandlerStep == Handlers \/ Outside

\* Such a step moves no lock, and leaves what a tick has written alone.
LEMMA HandlerWrites ==
    ASSUME TypeOK, HandlerStep
    PROVE  /\ UNCHANGED <<clock, ticks>>
           /\ row' \in [Assessments -> Rows]
           /\ edits' \in 0 .. MaxEdits
           /\ \A a \in Assessments : Locked(a) => row'[a] = row[a] \/ row[a].status = "absent"
<1>1. ASSUME NEW a \in Assessments, NEW start \in Starts, NEW end \in Ends,
             CreateAssessment(a, start, end)
      PROVE  /\ UNCHANGED <<clock, edits, ticks>>
             /\ row' \in [Assessments -> Rows]
             /\ \A b \in Assessments :
                   Locked(b) => row'[b] = row[b] \/ row[b].status = "absent"
  BY <1>1, DraftRow DEF CreateAssessment, TypeOK
<1>2. ASSUME NEW a \in Assessments, NEW start \in Starts, NEW end \in Ends,
             UpdateAssessment(a, start, end)
      PROVE  /\ UNCHANGED <<clock, ticks>>
             /\ row' \in [Assessments -> Rows]
             /\ edits' \in 0 .. MaxEdits
             /\ \A b \in Assessments : Locked(b) => row'[b] = row[b]
  <2>1. start \in Starts /\ end \in Ends /\ row[a] \in Rows
    BY DEF TypeOK
  <2>2. [row[a] EXCEPT !.start = start, !.end = end] \in Rows
    BY <2>1 DEF Rows
  <2>3. row' = [row EXCEPT ![a] = [row[a] EXCEPT !.start = start, !.end = end]]
    BY <1>2 DEF UpdateAssessment, TypeOK
  <2>4. edits' \in 0 .. MaxEdits
    BY <1>2 DEF UpdateAssessment, TypeOK
  <2>5. row' \in [Assessments -> Rows]
    BY <2>2, <2>3 DEF TypeOK
  <2>6. \A b \in Assessments : Locked(b) => row'[b] = row[b]
    BY <1>2, <2>3 DEF UpdateAssessment, TypeOK
  <2> QED
    BY <1>2, <2>4, <2>5, <2>6 DEF UpdateAssessment
<1>3. ASSUME NEW a \in Assessments, NEW b \in Assessments, DuplicateAssessment(a, b)
      PROVE  /\ UNCHANGED <<clock, edits, ticks>>
             /\ row' \in [Assessments -> Rows]
             /\ \A c \in Assessments :
                   Locked(c) => row'[c] = row[c] \/ row[c].status = "absent"
  BY <1>3, DraftRow DEF DuplicateAssessment, TypeOK
<1>4. ASSUME NEW a \in Assessments,
             \/ PublishAssessment(a) \/ DeleteAssessment(a)
             \/ Schedule(a) \/ Cancel(a)
      PROVE  /\ UNCHANGED <<clock, edits, ticks>>
             /\ row' \in [Assessments -> Rows]
             /\ \A b \in Assessments : Locked(b) => row'[b] = row[b]
  <2>1. row[a] \in Rows
    BY DEF TypeOK
  <2>2. /\ UNCHANGED <<clock, edits, ticks>>
        /\ ~Locked(a)
        /\ \E r \in Rows : row' = [row EXCEPT ![a] = r]
    <3>1. CASE PublishAssessment(a)
      BY <2>1, <3>1 DEF PublishAssessment, TypeOK, Rows
    <3>2. CASE DeleteAssessment(a)
      BY <3>2, DeletedRow DEF DeleteAssessment
    <3>3. CASE Schedule(a)
      BY <2>1, <3>3 DEF Schedule, TypeOK, Rows, Statuses
    <3>4. CASE Cancel(a)
      BY <2>1, <3>4 DEF Cancel, TypeOK, Rows, Statuses
    <3> QED
      BY <1>4, <3>1, <3>2, <3>3, <3>4
  <2> QED
    BY <2>2 DEF TypeOK
<1> QED
  BY <1>1, <1>2, <1>3, <1>4 DEF HandlerStep, Handlers, Outside, TypeOK

-----------------------------------------------------------------------------
(* The inductive invariant *)

\* At first nothing is locked, and no tick is under way.
LEMMA InitInv == Init => IInv
<1> SUFFICES ASSUME Init PROVE IInv
  OBVIOUS
<1>1. TypeOK
  BY DraftRow DEF Init, TypeOK
<1>2. OneTickAtATime /\ FoundStillTrue
  BY DEF Init, OneTickAtATime, FoundStillTrue, Ticking
<1> QED
  BY <1>1, <1>2 DEF IInv

\* The end of a transaction gives up its lock and its rows, and nobody else's.
LEMMA EndInv ==
    ASSUME IInv, NEW i \in Servers, NEW next \in {"down", "waiting"}, End(i, next)
    PROVE  /\ holder' \in Servers \cup {None}
           /\ pc' \in [Servers -> {"down", "waiting", "lock", "complete", "open", "commit"}]
           /\ now' \in [Servers -> 0 .. MaxTime]
           /\ over' \in [Servers -> SUBSET Assessments]
           /\ opened' \in [Servers -> SUBSET Assessments]
           /\ OneTickAtATime'
           /\ over'[i] = {} /\ opened'[i] = {}
           /\ \A j \in Servers : j # i => /\ pc'[j] = pc[j] /\ now'[j] = now[j]
                                          /\ over'[j] = over[j] /\ opened'[j] = opened[j]
<1> USE DEF IInv, End
<1>1. OneTickAtATime'
  BY DEF OneTickAtATime, TypeOK, Ticking
<1> QED
  BY <1>1 DEF TypeOK

\* Only the server that holds the advisory lock has found rows.
LEMMA HolderFound ==
    ASSUME IInv, NEW i \in Servers, NEW j \in Servers, i # j, pc[i] \in Ticking
    PROVE  over[j] = {} /\ opened[j] = {}
  BY DEF IInv, OneTickAtATime, FoundStillTrue, TypeOK, Ticking

\* A handler waits for the rows a tick has found, and no two ticks find any.
LEMMA NextInv ==
    ASSUME IInv, [Next]_vars
    PROVE  IInv'
<1> USE DEF IInv, table, ticks
<1>1. CASE Tick
  BY <1>1 DEF Tick, TypeOK, OneTickAtATime, FoundStillTrue, IsOver
<1>2. CASE HandlerStep
  <2>1. /\ UNCHANGED <<clock, ticks>>
        /\ row' \in [Assessments -> Rows]
        /\ edits' \in 0 .. MaxEdits
        /\ \A a \in Assessments : Locked(a) => row'[a] = row[a] \/ row[a].status = "absent"
    BY <1>2, HandlerWrites
  <2>2. TypeOK' /\ OneTickAtATime'
    BY <2>1 DEF TypeOK, OneTickAtATime
  <2>3. ASSUME NEW i \in Servers, NEW a \in over[i] \cup opened[i]
        PROVE  row'[a] = row[a]
    <3>1. a \in Assessments /\ Locked(a) /\ row[a].status # "absent"
      BY DEF Locked, TypeOK, FoundStillTrue, IsOver
    <3> QED
      BY <2>1, <3>1
  <2>4. FoundStillTrue'
    BY <2>1, <2>3 DEF FoundStillTrue, IsOver
  <2> QED
    BY <2>2, <2>4
<1>3. ASSUME NEW i \in Servers, Boot(i) \/ Begin(i)
      PROVE  IInv'
  <2>1. TypeOK'
    BY <1>3 DEF Boot, Begin, TypeOK
  <2>2. OneTickAtATime'
    BY <1>3 DEF Boot, Begin, TypeOK, OneTickAtATime, Ticking
  <2>3. over[i] = {} /\ opened[i] = {}
    BY <1>3 DEF Boot, Begin, FoundStillTrue, TypeOK
  <2>4. FoundStillTrue'
    <3>1. /\ \A j \in Servers : j # i => pc'[j] = pc[j] /\ now'[j] = now[j]
          /\ UNCHANGED <<row, over, opened>>
      BY <1>3 DEF Boot, Begin, TypeOK
    <3> QED
      BY <2>3, <3>1 DEF FoundStillTrue, IsOver
  <2> QED
    BY <2>1, <2>2, <2>4
<1>4. ASSUME NEW i \in Servers, NEW next \in {"down", "waiting"}, End(i, next),
             UNCHANGED table
      PROVE  IInv'
  <2>0. /\ holder' \in Servers \cup {None}
        /\ pc' \in [Servers -> {"down", "waiting", "lock", "complete", "open", "commit"}]
        /\ now' \in [Servers -> 0 .. MaxTime]
        /\ over' \in [Servers -> SUBSET Assessments]
        /\ opened' \in [Servers -> SUBSET Assessments]
        /\ OneTickAtATime'
    BY <1>4, EndInv
  <2>1. TypeOK'
    BY <1>4, <2>0 DEF TypeOK
  <2>2. FoundStillTrue'
    BY <1>4, EndInv DEF FoundStillTrue, IsOver
  <2> QED
    BY <2>0, <2>1, <2>2
<1>5. ASSUME NEW i \in Servers, TryLock(i)
      PROVE  IInv'
  <2>1. CASE End(i, "waiting")
    BY <1>4, <1>5, <2>1 DEF TryLock
  <2>2. CASE /\ holder = None
             /\ holder' = i
             /\ pc' = [pc EXCEPT ![i] = "complete"]
             /\ UNCHANGED <<now, over, opened>>
    <3>1. TypeOK'
      BY <1>5, <2>2 DEF TryLock, TypeOK
    <3>2. OneTickAtATime'
      BY <1>5, <2>2 DEF TryLock, TypeOK, OneTickAtATime, Ticking
    <3>3. over[i] = {} /\ opened[i] = {}
      BY <1>5 DEF TryLock, FoundStillTrue, TypeOK
    <3>4. FoundStillTrue'
      BY <1>5, <2>2, <3>3 DEF TryLock, TypeOK, FoundStillTrue, IsOver
    <3> QED
      BY <3>1, <3>2, <3>4
  <2> QED
    BY <1>5, <2>1, <2>2 DEF TryLock
<1>6. ASSUME NEW i \in Servers, CompleteOver(i)
      PROVE  IInv'
  <2>1. TypeOK'
    BY <1>6 DEF CompleteOver, TypeOK
  <2>2. OneTickAtATime'
    BY <1>6 DEF CompleteOver, TypeOK, OneTickAtATime, Ticking
  <2>3. opened[i] = {}
    BY <1>6 DEF CompleteOver, FoundStillTrue, TypeOK
  <2>4. \A a \in over'[i] : IsOver(row[a], now[i])
    BY <1>6 DEF CompleteOver, TypeOK
  <2>5. FoundStillTrue'
    BY <1>6, <2>3, <2>4 DEF CompleteOver, TypeOK, FoundStillTrue, IsOver
  <2> QED
    BY <2>1, <2>2, <2>5
<1>7. ASSUME NEW i \in Servers, OpenDue(i)
      PROVE  IInv'
  <2>1. TypeOK'
    BY <1>7 DEF OpenDue, TypeOK
  <2>2. OneTickAtATime'
    BY <1>7 DEF OpenDue, TypeOK, OneTickAtATime, Ticking
  <2>3. \A a \in opened'[i] : IsDue(row[a], now[i])
    BY <1>7 DEF OpenDue, TypeOK
  <2>4. FoundStillTrue'
    BY <1>7, <2>3 DEF OpenDue, TypeOK, FoundStillTrue, IsOver, IsDue
  <2> QED
    BY <2>1, <2>2, <2>4
<1>8. ASSUME NEW i \in Servers, Commit(i)
      PROVE  IInv'
  <2>1. row' \in [Assessments -> Rows]
    BY <1>8, AdvancedRow DEF Commit
  <2>2. End(i, "waiting") /\ UNCHANGED <<clock, edits>> /\ pc[i] = "commit"
    BY <1>8 DEF Commit
  <2>3. TypeOK' /\ OneTickAtATime'
    BY <2>1, <2>2, EndInv DEF TypeOK
  <2>4. \A j \in Servers : over'[j] = {} /\ opened'[j] = {}
    BY <2>2, EndInv, HolderFound DEF Ticking
  <2>5. FoundStillTrue'
    BY <2>4 DEF FoundStillTrue
  <2> QED
    BY <2>3, <2>5
<1>9. ASSUME NEW i \in Servers, Fail(i) \/ Stop(i)
      PROVE  IInv'
  BY <1>4, <1>9 DEF Fail, Stop
<1>10. CASE UNCHANGED vars
  BY <1>10 DEF vars, TypeOK, OneTickAtATime, FoundStillTrue, IsOver
<1> QED
  BY <1>1, <1>2, <1>3, <1>5, <1>6, <1>7, <1>8, <1>9, <1>10
     DEF Next, HandlerStep, Scheduler

-----------------------------------------------------------------------------
(* Theorems *)

\* The invariant the other theorems rest on: rows that a tick has found stay as
\* it found them because they are locked, and only the holder of the advisory
\* lock has found any.
THEOREM Invariance == Spec => []IInv
<1>1. IInv /\ [Next]_vars => IInv'
  BY NextInv
<1> QED
  BY <1>1, InitInv, PTL DEF Spec

\* Every variable keeps its type.
THEOREM TypeCorrect == Spec => []TypeOK
<1>1. IInv => TypeOK
  BY DEF IInv
<1> QED
  BY <1>1, Invariance, PTL

\* At most one of any number of servers advances the schedule, and the lock is
\* never left behind (MICROSERVICE_STRUCTURE.md:13).
THEOREM SingleTick == Spec => []OneTickAtATime
<1>1. IInv => OneTickAtATime
  BY DEF IInv
<1> QED
  BY <1>1, Invariance, PTL

\* What a tick commits is true of the rows it commits it to.
THEOREM FoundIsTrue == Spec => []FoundStillTrue
<1>1. IInv => FoundStillTrue
  BY DEF IInv
<1> QED
  BY <1>1, Invariance, PTL

\* A tick never waits for a row that another has written, and never deadlocks with one:
\* the rows its UPDATEs match are free, since the advisory lock lets no other tick get
\* that far (scheduler.rs:29).
TicksNeverWait ==
    \A i \in Servers, a \in Assessments :
        /\ pc[i] = "complete" => ~Locked(a)
        /\ pc[i] = "open" /\ a \notin over[i] => ~Locked(a)

\* Behind the advisory lock a tick goes on to its commit: with the fairness of its
\* statements, what DueIsServed needs.
THEOREM NeverWait == Spec => []TicksNeverWait
<1>1. ASSUME IInv, NEW i \in Servers, NEW a \in Assessments,
             pc[i] = "complete" \/ (pc[i] = "open" /\ a \notin over[i])
      PROVE  \A j \in Servers : a \notin over[j] \cup opened[j]
  <2>1. a \notin over[i] \cup opened[i]
    BY <1>1 DEF IInv, FoundStillTrue
  <2>2. \A j \in Servers : j # i => over[j] = {} /\ opened[j] = {}
    BY <1>1, HolderFound DEF Ticking
  <2> QED
    BY <2>1, <2>2
<1>2. IInv => TicksNeverWait
  BY <1>1 DEF TicksNeverWait, Locked
<1> QED
  BY <1>2, Invariance, PTL

\* No test is opened before its start or after its end, by the row in the table
\* and the time of the tick (scheduler.rs:42).
THEOREM InTime == Spec => OpensInTime
<1> DEFINE A == \A a \in Assessments :
          row[a].status = "scheduled" /\ row'[a].status = "ongoing" =>
              /\ row'[a].published
              /\ \E i \in Servers :
                    /\ pc[i] = "commit"
                    /\ row[a].start # None /\ row[a].start <= now[i]
                    /\ row[a].end # None => row[a].end >= now[i]
<1>1. IInv /\ [Next]_vars => [A]_vars
  <2> SUFFICES ASSUME IInv, [Next]_vars, NEW a \in Assessments,
                      row[a].status = "scheduled", row'[a].status = "ongoing"
               PROVE  /\ row'[a].published
                      /\ \E i \in Servers :
                            /\ pc[i] = "commit"
                            /\ row[a].start # None /\ row[a].start <= now[i]
                            /\ row[a].end # None => row[a].end >= now[i]
    OBVIOUS
  <2>1. PICK i \in Servers : Commit(i)
    <3>1. row' # row
      OBVIOUS
    <3>2. ~HandlerStep
      <4>1. ASSUME NEW b \in Assessments, NEW start \in Starts, NEW end \in Ends,
                   CreateAssessment(b, start, end)
            PROVE  FALSE
        BY <4>1 DEF CreateAssessment, Draft, IInv, TypeOK
      <4>2. ASSUME NEW b \in Assessments, NEW c \in Assessments, DuplicateAssessment(b, c)
            PROVE  FALSE
        BY <4>2 DEF DuplicateAssessment, Draft, IInv, TypeOK
      <4>3. ASSUME NEW b \in Assessments, NEW start \in Starts, NEW end \in Ends,
                   UpdateAssessment(b, start, end)
            PROVE  FALSE
        <5>1. row'[a].status = row[a].status
          BY <4>3 DEF UpdateAssessment, IInv, TypeOK, Rows
        <5> QED
          BY <5>1
      <4>4. ASSUME NEW b \in Assessments,
                   \/ PublishAssessment(b) \/ DeleteAssessment(b)
                   \/ Schedule(b) \/ Cancel(b)
            PROVE  FALSE
        BY <4>4, DeletedRow
           DEF PublishAssessment, DeleteAssessment, Schedule, Cancel, IInv, TypeOK, Rows
      <4> QED
        BY <4>1, <4>2, <4>3, <4>4 DEF HandlerStep, Handlers, Outside
    <3> QED
      BY <3>1, <3>2 DEF Next, HandlerStep, Scheduler, Tick, Boot, Begin, TryLock,
         CompleteOver, OpenDue, Fail, Stop, vars, table
  <2>2. pc[i] = "commit" /\ row'[a] = Advanced(i, a)
    BY <2>1 DEF Commit
  <2>3. a \in opened[i] \ over[i]
    BY <2>2, AdvancedRow DEF IInv
  <2> QED
    BY <2>2, <2>3, AdvancedRow DEF IInv, FoundStillTrue
<1>2. OpensInTime <=> [][A]_vars
  BY DEF OpensInTime
<1> HIDE DEF A
<1> QED
  BY <1>1, <1>2, Invariance, PTL DEF Spec

\* A status only moves forward, whoever moves it, and nothing is unpublished.
THEOREM MovesForward == Spec => StatusMovesForward
<1> DEFINE Moved(a) == /\ \/ row'[a].status = row[a].status
                          \/ <<row[a].status, row'[a].status>> \in Moves
                       /\ {row[a].status, row'[a].status} \cap Gone = {} =>
                             (row[a].published => row'[a].published)
           A == \A a \in Assessments :
                  /\ row'[a].status = row[a].status \/ <<row[a].status, row'[a].status>> \in Moves
                  /\ {row[a].status, row'[a].status} \cap Gone = {} =>
                        (row[a].published => row'[a].published)
<1>1. ASSUME IInv, [Next]_vars, NEW a \in Assessments
      PROVE  Moved(a)
  <2> USE DEF IInv
  <2>0. row[a] \in Rows
    BY <1>1 DEF TypeOK
  <2>1. CASE row' = row
    BY <2>1
  <2>2. ASSUME NEW b \in Assessments, NEW start \in Starts, NEW end \in Ends,
               row[b].status = "absent", row' = [row EXCEPT ![b] = Draft(start, end)]
        PROVE  Moved(a)
    <3>1. CASE a # b
      BY <1>1, <2>2, <3>1 DEF TypeOK
    <3>2. CASE a = b
      BY <1>1, <2>2, <3>2 DEF TypeOK, Draft, Moves, Gone
    <3> QED
      BY <3>1, <3>2
  <2>3. ASSUME NEW b \in Assessments, NEW start \in Starts, NEW end \in Ends,
               UpdateAssessment(b, start, end)
        PROVE  Moved(a)
    <3>1. row'[a].status = row[a].status /\ row'[a].published = row[a].published
      BY <1>1, <2>0, <2>3 DEF UpdateAssessment, TypeOK, Rows
    <3> QED
      BY <3>1
  <2>4. ASSUME NEW b \in Assessments, PublishAssessment(b)
        PROVE  Moved(a)
    <3>1. row'[a].status = row[a].status /\ (row[a].published => row'[a].published)
      BY <1>1, <2>0, <2>4 DEF PublishAssessment, TypeOK, Rows
    <3> QED
      BY <3>1
  <2>5. ASSUME NEW b \in Assessments,
               DeleteAssessment(b) \/ Schedule(b) \/ Cancel(b)
        PROVE  Moved(a)
    <3>1. row'[a].status = "deleted" \/ row'[a].published = row[a].published
      <4>1. CASE DeleteAssessment(b)
        BY <1>1, <4>1, DeletedRow DEF DeleteAssessment, TypeOK
      <4>2. CASE Schedule(b) \/ Cancel(b)
        BY <1>1, <2>0, <4>2 DEF Schedule, Cancel, TypeOK, Rows
      <4> QED
        BY <2>5, <4>1, <4>2
    <3>2. \/ row'[a].status = row[a].status
          \/ row'[a].status = "deleted" /\ row[a].status \notin Gone
          \/ row'[a].status = "scheduled" /\ row[a].status = "draft"
          \/ row'[a].status = "cancelled" /\ row[a].status \in {"draft", "scheduled", "ongoing"}
      <4>1. CASE DeleteAssessment(b)
        BY <1>1, <4>1, DeletedRow DEF DeleteAssessment, TypeOK
      <4>2. CASE Schedule(b) \/ Cancel(b)
        BY <1>1, <2>0, <4>2 DEF Schedule, Cancel, TypeOK, Rows
      <4> QED
        BY <2>5, <4>1, <4>2
    <3> QED
      BY <2>0, <3>1, <3>2 DEF Moves, Rows, Gone
  <2>6. ASSUME NEW i \in Servers, Commit(i)
        PROVE  Moved(a)
    <3>1. row'[a] = Advanced(i, a)
      BY <2>6 DEF Commit
    <3>2. CASE a \in over[i]
      <4>1. row'[a].status = "completed" /\ row'[a].published = row[a].published
        BY <1>1, <3>1, <3>2, AdvancedRow
      <4>2. row[a].status \in {"scheduled", "ongoing"}
        BY <1>1, <3>2 DEF FoundStillTrue, IsOver
      <4> QED
        BY <4>1, <4>2 DEF Moves
    <3>3. CASE a \in opened[i] \ over[i]
      <4>1. row'[a].status = "ongoing" /\ row'[a].published
        BY <1>1, <3>1, <3>3, AdvancedRow
      <4>2. row[a].status = "scheduled"
        BY <1>1, <3>3 DEF FoundStillTrue
      <4> QED
        BY <4>1, <4>2 DEF Moves
    <3>4. CASE a \notin over[i] \cup opened[i]
      BY <1>1, <3>1, <3>4, AdvancedRow
    <3> QED
      BY <3>2, <3>3, <3>4
  <2>7. \/ row' = row
        \/ \E b \in Assessments, start \in Starts, end \in Ends :
              row[b].status = "absent" /\ row' = [row EXCEPT ![b] = Draft(start, end)]
        \/ \E b \in Assessments, start \in Starts, end \in Ends : UpdateAssessment(b, start, end)
        \/ \E b \in Assessments : PublishAssessment(b)
        \/ \E b \in Assessments : DeleteAssessment(b) \/ Schedule(b) \/ Cancel(b)
        \/ \E i \in Servers : Commit(i)
    BY <1>1 DEF Next, Handlers, Outside, CreateAssessment, DuplicateAssessment, Scheduler, Tick,
       Boot, Begin, TryLock, CompleteOver, OpenDue, Fail, Stop, vars, table
  <2> QED
    BY <2>1, <2>2, <2>3, <2>4, <2>5, <2>6, <2>7
<1>2. IInv /\ [Next]_vars => [A]_vars
  BY <1>1
<1>3. StatusMovesForward <=> [][A]_vars
  BY DEF StatusMovesForward
<1> HIDE DEF A, Moved
<1> QED
  BY <1>2, <1>3, Invariance, PTL DEF Spec

-----------------------------------------------------------------------------
(* The handlers and the scheduler implement SchedulePromise *)

\* The time of a tick is that of its transaction's beginning.
THEOREM Past == Spec => []TimesPast
<1>1. Init => TimesPast
  BY DEF Init, TimesPast
<1>2. TypeOK /\ TimesPast /\ [Next]_vars => TimesPast'
  <2> SUFFICES ASSUME TypeOK, TimesPast, [Next]_vars, NEW j \in Servers
               PROVE  now'[j] <= clock'
    BY DEF TimesPast
  <2> USE DEF table, ticks
  <2>1. clock \in Nat /\ now[j] \in Nat /\ now[j] <= clock
    BY DEF TypeOK, TimesPast
  <2>2. CASE UNCHANGED <<clock, now>>
    BY <2>1, <2>2
  <2>3. CASE Tick \/ HandlerStep \/ UNCHANGED vars
    <3>1. CASE Tick
      BY <2>1, <3>1 DEF Tick
    <3>2. CASE HandlerStep
      BY <2>2, <3>2, HandlerWrites
    <3> QED
      BY <2>2, <2>3, <3>1, <3>2 DEF vars
  <2>4. ASSUME NEW i \in Servers, NEW next, End(i, next), clock' = clock
        PROVE  now'[j] <= clock'
    BY <2>1, <2>4 DEF End, TypeOK
  <2>5. ASSUME NEW i \in Servers, Begin(i)
        PROVE  now'[j] <= clock'
    BY <2>1, <2>5 DEF Begin, TypeOK
  <2>6. ASSUME NEW i \in Servers, Boot(i) \/ CompleteOver(i) \/ OpenDue(i)
        PROVE  now'[j] <= clock'
    BY <2>2, <2>6 DEF Boot, CompleteOver, OpenDue
  <2>7. ASSUME NEW i \in Servers, TryLock(i) \/ Commit(i) \/ Fail(i) \/ Stop(i)
        PROVE  now'[j] <= clock'
    BY <2>2, <2>4, <2>7 DEF TryLock, Commit, Fail, Stop
  <2> QED
    BY <2>3, <2>5, <2>6, <2>7 DEF Next, HandlerStep, Scheduler
<1> QED
  BY <1>1, <1>2, TypeCorrect, PTL DEF Spec

\* The table starts empty.
LEMMA InitPromise == Init => Promise!Init
  BY DEF Init, NoRow, Blank, Promise!Init, Promise!Row

\* A handler's statement is the write of one row.
LEMMA HandlerPromise ==
    ASSUME TypeOK, HandlerStep
    PROVE  [Promise!Next]_<<clock, row>>
<1> USE DEF table, ticks, Promise!Write, Promise!There, Gone
<1>1. ASSUME NEW a \in Assessments, NEW start \in Starts, NEW end \in Ends,
             CreateAssessment(a, start, end)
      PROVE  Promise!Create(a, start, end)
  BY <1>1 DEF CreateAssessment, Promise!Create, Draft, Promise!Row
<1>2. ASSUME NEW a \in Assessments, NEW start \in Starts, NEW end \in Ends,
             UpdateAssessment(a, start, end)
      PROVE  Promise!Retime(a, start, end)
  <2>1. row' = [row EXCEPT ![a] = [row[a] EXCEPT !.start = start, !.end = end]]
    BY <1>2 DEF UpdateAssessment, TypeOK
  <2> QED
    BY <1>2, <2>1 DEF UpdateAssessment, Promise!Retime
<1>3. ASSUME NEW a \in Assessments, NEW b \in Assessments, DuplicateAssessment(a, b)
      PROVE  None \in Starts /\ None \in Ends /\ Promise!Create(b, None, None)
  BY <1>3 DEF DuplicateAssessment, Promise!Create, Draft, Promise!Row
<1>4. ASSUME NEW a \in Assessments, PublishAssessment(a)
      PROVE  Promise!Publish(a)
  BY <1>4 DEF PublishAssessment, Promise!Publish
<1>5. ASSUME NEW a \in Assessments, DeleteAssessment(a)
      PROVE  Promise!Delete(a)
  BY <1>5 DEF DeleteAssessment, Promise!Delete, Deleted, Blank, Promise!Row
<1>6. ASSUME NEW a \in Assessments, Schedule(a)
      PROVE  Promise!Restate(a, "scheduled")
  BY <1>6 DEF Schedule, Promise!Restate
<1>7. ASSUME NEW a \in Assessments, Cancel(a)
      PROVE  Promise!Restate(a, "cancelled")
  BY <1>7 DEF Cancel, Promise!Restate
<1> QED
  BY <1>1, <1>2, <1>3, <1>4, <1>5, <1>6, <1>7
     DEF HandlerStep, Handlers, Outside, Promise!Next

\* A commit is the schedule's acting at the time of the tick, on the rows found.
LEMMA CommitPromise ==
    ASSUME IInv, TimesPast, NEW i \in Servers, Commit(i)
    PROVE  Promise!Next
<1>1. /\ now[i] \in 0 .. clock
      /\ over[i] \in SUBSET Assessments /\ opened[i] \in SUBSET Assessments
  BY DEF IInv, TypeOK, TimesPast
<1>2. \A a \in over[i] : Promise!HasEnded(a, now[i])
  BY DEF IInv, FoundStillTrue, IsOver, Promise!HasEnded
<1>3. \A a \in opened[i] : Promise!HasStarted(a, now[i])
  BY DEF IInv, FoundStillTrue, Promise!HasStarted
<1>4. Promise!Advance(now[i], over[i], opened[i])
  BY <1>2, <1>3 DEF Commit, Advanced, Promise!Advance
<1> QED
  BY <1>1, <1>4 DEF Promise!Next

\* Servers, transactions and locks are not seen by whoever reads the table: ticks of
\* any number of servers, under way, failed and cut short, amount to a schedule that
\* acts in an instant on rows of which what it acts on is true.
THEOREM Refinement == Spec => ScheduleKept
<1>1. IInv /\ TimesPast /\ [Next]_vars => [Promise!Next]_<<clock, row>>
  <2> SUFFICES ASSUME IInv, TimesPast, [Next]_vars
               PROVE  [Promise!Next]_<<clock, row>>
    OBVIOUS
  <2> USE DEF table, ticks
  <2>1. CASE Tick
    BY <2>1 DEF Tick, Promise!Tick, Promise!Next
  <2>2. CASE HandlerStep
    BY <2>2, HandlerPromise DEF IInv
  <2>3. ASSUME NEW i \in Servers, Commit(i)
        PROVE  Promise!Next
    BY <2>3, CommitPromise
  <2>4. ASSUME NEW i \in Servers,
               \/ Boot(i) \/ Begin(i) \/ TryLock(i) \/ CompleteOver(i) \/ OpenDue(i)
               \/ Fail(i) \/ Stop(i)
        PROVE  UNCHANGED <<clock, row>>
    BY <2>4 DEF Boot, Begin, TryLock, CompleteOver, OpenDue, Fail, Stop
  <2>5. CASE UNCHANGED vars
    BY <2>5 DEF vars
  <2> QED
    BY <2>1, <2>2, <2>3, <2>4, <2>5 DEF Next, HandlerStep, Scheduler
<1> QED
  BY <1>1, InitPromise, Invariance, Past, PTL
     DEF Spec, ScheduleKept, Promise!Spec, Promise!vars

=============================================================================
