-------------------------- MODULE RequestAloneProofs --------------------------
(***************************************************************************)
(* What RequestRuntime guarantees to one handler at a time: a client that  *)
(* waits for each answer, or gets none because the handler died, and calls *)
(* again.  The runs FindDoubleExecution and FindReexecute show that these  *)
(* promises fall as soon as two handlers overlap or an approval follows an *)
(* execution, so the hypotheses of the theorems cannot be dropped.         *)
(***************************************************************************)
EXTENDS RequestRuntimeProofs

-----------------------------------------------------------------------------
(* The invariant.  The copy of the row that the handler holds may have old *)
(* conditions (they can be edited past the API), but its status and its    *)
(* metadata are those of the row; and the job that it is about still is in *)
(* the state the handler has asked for.                                    *)

Fresh(row) == row.status = request.status /\ row.meta = request.meta

CopyFresh(t) ==
  /\ pc[t] \in {"complete", "append"}             => Fresh(seen[t])
  /\ pc[t] = "decide" /\ call[t] \notin JobKinds  => Fresh(seen[t])
  /\ pc[t] = "record"                             => seen[t] = NoRow \/ Fresh(seen[t])

JobAwaited(t) ==
  /\ pc[t] = "decide" /\ call[t] \in JobKinds => on[t] \in Job /\ JobAccepts(call[t], job[on[t]])
  /\ pc[t] = "complete"                       => on[t] \in Job /\ job[on[t]] = "RUNNING"

RowKept == AnchorCurrent /\ ResultKept

AloneInv == RowKept /\ \A t \in Thread : CopyFresh(t) /\ JobAwaited(t)

-----------------------------------------------------------------------------
(* Steps of the only handler, by what they leave in its session.           *)

\* The handler has returned, or it has to read the row again.
SessionExpired(t) ==
  \/ Return(t)
  \/ \E kinds : RecordExpired(t, kinds) \/ RecordReloaded(t, kinds)

LEMMA ExpiredIsFresh ==
  ASSUME TypeOK, NEW t \in Thread, SessionExpired(t)
  PROVE  CopyFresh(t)' /\ JobAwaited(t)'
<1>1. CASE Return(t)
  BY <1>1 DEF TypeOK, Return, CopyFresh, JobAwaited
<1>2. ASSUME NEW kinds, RecordExpired(t, kinds)
      PROVE  CopyFresh(t)' /\ JobAwaited(t)'
  BY <1>2 DEF TypeOK, RecordExpired, CopyFresh, JobAwaited
<1>3. ASSUME NEW kinds, RecordReloaded(t, kinds)
      PROVE  CopyFresh(t)' /\ JobAwaited(t)'
  BY <1>3 DEF TypeOK, RecordReloaded, CopyFresh, JobAwaited
<1> QED
  BY <1>1, <1>2, <1>3 DEF SessionExpired

\* The handler records with the copy it decided on, and has changed nothing.
LEMMA CachedIsFresh ==
  ASSUME TypeOK, NEW t \in Thread, NEW kind \in AllKinds \ JobKinds, AtDecide(t, kind),
         CopyFresh(t), UNCHANGED request, NEW kinds, RecordCached(t, kinds)
  PROVE  CopyFresh(t)' /\ JobAwaited(t)'
BY DEF TypeOK, AtDecide, RecordCached, CopyFresh, JobAwaited, Fresh

\* A step that leaves the metadata, the ledger and every completed job, and
\* makes nothing executed, keeps what holds of the row.
LEMMA QuietKeepsRow ==
  ASSUME RowKept, UNCHANGED ledger, request'.meta = request.meta,
         request'.status = "executed" => request.status = "executed",
         \A j \in Job : job[j] = "COMPLETED" => job'[j] = "COMPLETED"
  PROVE  RowKept'
BY DEF RowKept, AnchorCurrent, ResultKept

JobsEnd == \A j \in Job : job[j] \in {"BLOCKED", "COMPLETED", "FAILED"} => job'[j] = job[j]

\* A worker's call finds the job as it asked for it, so it ends no job twice.
LEMMA StepEndsJobs ==
  ASSUME TypeOK, NEW t \in Thread, JobAwaited(t), Step(t)
  PROVE  JobsEnd
<1>0. job \in [Job -> JobStatuses]
  BY DEF TypeOK
<1>1. ASSUME NEW j \in Job, QueueBlocked(t, j) \/ QueueCommit(t, j) PROVE JobsEnd
  BY <1>0, <1>1 DEF QueueBlocked, QueueCommit, JobsEnd
<1>2. CASE ClaimCommit(t)
  <2>1. on[t] \in Job /\ job[on[t]] = "QUEUED" /\ job' = [job EXCEPT ![on[t]] = "RUNNING"]
    BY <1>2 DEF ClaimCommit, AtDecide, JobAwaited, JobKinds, JobAccepts
  <2> QED
    BY <1>0, <2>1 DEF JobsEnd
<1>3. CASE CompleteCommit(t)
  <2>1. on[t] \in Job /\ job[on[t]] = "RUNNING" /\ job' = [job EXCEPT ![on[t]] = "COMPLETED"]
    BY <1>3 DEF CompleteCommit, JobAwaited
  <2> QED
    BY <1>0, <2>1 DEF JobsEnd
<1>4. CASE FailCommit(t)
  <2>1. on[t] \in Job /\ job[on[t]] \in {"QUEUED", "RUNNING"} /\ job' = [job EXCEPT ![on[t]] = "FAILED"]
    BY <1>4 DEF FailCommit, AtDecide, JobAwaited, JobKinds, JobAccepts
  <2> QED
    BY <1>0, <2>1 DEF JobsEnd
<1>5. CASE UNCHANGED job
  BY <1>5 DEF JobsEnd
<1> QED
  BY <1>1, <1>2, <1>3, <1>4, <1>5
     DEF Step, EvaluateCommit, EvaluateDuplicate, ReviewCommit, ReviewBlocked, ExecuteReplay,
         ExecuteBlocked, ExecuteCommit, View, VerifyReport, CompleteLoad, Reload, TakeLock,
         AppendEvent

-----------------------------------------------------------------------------
\* One step of the only handler.
LEMMA AloneStep ==
  ASSUME NEW t \in Thread, Thread = {t}, TypeInv, FiledInv, AloneInv, [Next]_vars
  PROVE  AloneInv'
<1>0. /\ TypeOK /\ request \in Rows /\ seen[t] \in Rows /\ seen \in [Thread -> Rows]
      /\ pc \in [Thread -> Places] /\ call \in [Thread -> AllKinds \cup {"none"}]
      /\ on \in [Thread -> Job \cup {NoJob}] /\ job \in [Job -> JobStatuses]
      /\ CopyFresh(t) /\ JobAwaited(t) /\ RowKept
  BY DEF TypeInv, TypeOK, AloneInv
<1>1. SUFFICES RowKept' /\ CopyFresh(t)' /\ JobAwaited(t)'
  BY DEF AloneInv
<1>2. Step(t) => \A j \in Job : job[j] = "COMPLETED" => job'[j] = "COMPLETED"
  BY <1>0, StepEndsJobs DEF JobsEnd
<1>3. ASSUME NEW kind \in Kinds, NEW j \in Job \cup {NoJob}, Receive(t, kind, j)
      PROVE  RowKept' /\ CopyFresh(t)' /\ JobAwaited(t)'
  <2>1. RowKept'
    BY <1>0, <1>3, QuietKeepsRow DEF Receive
  <2>2. pc'[t] = "decide" /\ call'[t] = kind /\ on'[t] = j /\ UNCHANGED <<request, job>>
    BY <1>0, <1>3 DEF Receive
  <2>3. kind \notin JobKinds => seen'[t] = request
    BY <1>0, <1>3 DEF Receive
  <2>4. kind \in JobKinds => j \in Job /\ JobAccepts(kind, job[j])
    BY <1>3 DEF Receive
  <2> QED
    BY <2>1, <2>2, <2>3, <2>4 DEF CopyFresh, JobAwaited, Fresh
<1>4. CASE EvaluateCommit(t)
  <2>1. SessionExpired(t)
    BY <1>4 DEF EvaluateCommit, SessionExpired
  <2>2. /\ request.status = "none" /\ UNCHANGED ledger
        /\ request'.meta.head = 0 /\ request'.meta.count = 0
    BY <1>4 DEF EvaluateCommit, PrimaryKeyFree, NoRow
  <2>3. \E outcome : request'.status = LifecycleStatus(outcome)
    BY <1>4 DEF EvaluateCommit
  <2>4. request'.status # "executed"
    BY <2>3 DEF LifecycleStatus
  <2>5. RowKept'
    BY <2>2, <2>4 DEF RowKept, AnchorCurrent, ResultKept, FiledInv, UnfiledIsEmpty
  <2> QED
    BY <1>0, <2>1, <2>5, ExpiredIsFresh
<1>5. CASE EvaluateDuplicate(t) \/ VerifyReport(t)
  <2>1. SessionExpired(t) /\ UNCHANGED <<request, job, ledger>>
    BY <1>5 DEF EvaluateDuplicate, VerifyReport, SessionExpired
  <2> QED
    BY <1>0, <2>1, ExpiredIsFresh, QuietKeepsRow
<1>6. ASSUME NEW kind \in ReviewKinds, ReviewCommit(t, kind)
      PROVE  RowKept' /\ CopyFresh(t)' /\ JobAwaited(t)'
  <2>1. SessionExpired(t) /\ UNCHANGED <<job, ledger>>
    BY <1>6 DEF ReviewCommit, SessionExpired
  <2>2. request'.meta = request.meta /\ request'.status \in {request.status, ReviewStatus(kind)}
    BY <1>0, <1>6 DEF ReviewCommit, Rows
  <2>3. ReviewStatus(kind) # "executed"
    BY DEF ReviewStatus
  <2> QED
    BY <1>0, <2>1, <2>2, <2>3, ExpiredIsFresh, QuietKeepsRow
<1>7. ASSUME NEW kind \in ReviewKinds, ReviewBlocked(t, kind)
      PROVE  RowKept' /\ CopyFresh(t)' /\ JobAwaited(t)'
  <2>1. kind \in AllKinds \ JobKinds
    BY DEF ReviewKinds, JobKinds, AllKinds
  <2>2. UNCHANGED <<request, job, ledger>> /\ RowKept'
    BY <1>0, <1>7, QuietKeepsRow DEF ReviewBlocked
  <2> QED
    BY <1>0, <1>7, <2>1, <2>2, CachedIsFresh DEF ReviewBlocked
<1>8. CASE ExecuteReplay(t) \/ ExecuteBlocked(t) \/ View(t)
  <2>1. "execute" \in AllKinds \ JobKinds /\ "view" \in AllKinds \ JobKinds
    BY DEF JobKinds, AllKinds
  <2>2. UNCHANGED <<request, job, ledger>> /\ RowKept'
    BY <1>0, <1>8, QuietKeepsRow DEF ExecuteReplay, ExecuteBlocked, View
  <2> QED
    BY <1>0, <1>8, <2>1, <2>2, CachedIsFresh DEF ExecuteReplay, ExecuteBlocked, View
<1>9. CASE ExecuteCommit(t)
  <2>1. SessionExpired(t) /\ UNCHANGED ledger
    BY <1>9 DEF ExecuteCommit, SessionExpired
  <2>2. request'.meta = [seen[t].meta EXCEPT !.result = TRUE]
    BY <1>0, <1>9 DEF ExecuteCommit, ExecutedRow, Rows
  <2>3. seen[t].meta = request.meta
    BY <1>0, <1>9 DEF ExecuteCommit, AtDecide, CopyFresh, JobKinds, Fresh
  <2>4. /\ request'.meta.head = request.meta.head /\ request'.meta.count = request.meta.count
        /\ request'.meta.result
    BY <1>0, <2>2, <2>3 DEF Rows, Metadata
  <2>5. RowKept'
    BY <1>0, <2>1, <2>4 DEF RowKept, AnchorCurrent, ResultKept
  <2> QED
    BY <1>0, <2>1, <2>5, ExpiredIsFresh
<1>10. ASSUME NEW j \in Job, QueueBlocked(t, j) \/ QueueCommit(t, j)
       PROVE  RowKept' /\ CopyFresh(t)' /\ JobAwaited(t)'
  <2>1. SessionExpired(t) /\ UNCHANGED ledger
    BY <1>10 DEF QueueBlocked, QueueCommit, SessionExpired
  <2>2. request'.meta = request.meta /\ request'.status \in {request.status, "queued_for_execution"}
    BY <1>0, <1>10 DEF QueueBlocked, QueueCommit, Rows
  <2>3. Step(t)
    BY <1>10 DEF Step
  <2> QED
    BY <1>0, <1>2, <2>1, <2>2, <2>3, ExpiredIsFresh, QuietKeepsRow
<1>11. CASE ClaimCommit(t) \/ FailCommit(t)
  <2>1. SessionExpired(t) /\ UNCHANGED <<request, ledger>>
    BY <1>11 DEF ClaimCommit, FailCommit, SessionExpired
  <2>2. Step(t)
    BY <1>11 DEF Step
  <2> QED
    BY <1>0, <1>2, <2>1, <2>2, ExpiredIsFresh, QuietKeepsRow
<1>12. CASE CompleteLoad(t)
  <2>1. /\ pc'[t] = "complete" /\ seen'[t] = request /\ on' = on /\ call[t] = "complete"
        /\ UNCHANGED <<request, job, ledger>>
    BY <1>0, <1>12 DEF CompleteLoad, AtDecide
  <2>2. on[t] \in Job /\ job[on[t]] = "RUNNING"
    BY <1>0, <1>12, <2>1 DEF CompleteLoad, AtDecide, JobAwaited, JobKinds, JobAccepts
  <2> QED
    BY <1>0, <2>1, <2>2, QuietKeepsRow DEF CopyFresh, JobAwaited, Fresh
<1>13. CASE CompleteCommit(t)
  <2>1. /\ SessionExpired(t) /\ UNCHANGED ledger
        /\ on[t] \in Job /\ job' = [job EXCEPT ![on[t]] = "COMPLETED"]
    BY <1>0, <1>13 DEF CompleteCommit, SessionExpired, JobAwaited
  <2>2. request'.meta = request.meta
    BY <1>0, <1>13 DEF CompleteCommit, Rows
  <2>3. on[t] \in Job /\ job'[on[t]] = "COMPLETED"
    BY <1>0, <2>1
  <2>4. RowKept'
    BY <1>0, <2>1, <2>2, <2>3 DEF RowKept, AnchorCurrent, ResultKept
  <2> QED
    BY <1>0, <2>1, <2>4, ExpiredIsFresh
<1>14. CASE Reload(t)
  <2>1. /\ pc'[t] = "record" /\ seen'[t] = request
        /\ UNCHANGED <<request, job, ledger>>
    BY <1>0, <1>14 DEF Reload
  <2> QED
    BY <1>0, <2>1, QuietKeepsRow DEF CopyFresh, JobAwaited, Fresh
<1>15. CASE TakeLock(t)
  <2>1. /\ pc'[t] = "append" /\ UNCHANGED <<request, job, ledger>>
        /\ seen'[t] = IF seen[t] = NoRow THEN request ELSE seen[t]
    BY <1>0, <1>15 DEF TakeLock
  <2>2. Fresh(seen'[t])
    BY <1>0, <1>15, <2>1 DEF TakeLock, CopyFresh, Fresh
  <2> QED
    BY <1>0, <2>1, <2>2, QuietKeepsRow DEF CopyFresh, JobAwaited, Fresh
<1>16. CASE AppendEvent(t)
  <2>1. SessionExpired(t) /\ UNCHANGED job /\ request'.status = request.status
    BY <1>0, <1>16 DEF AppendEvent, SessionExpired, Rows
  <2>2. seen[t].meta = request.meta
    BY <1>0, <1>16 DEF AppendEvent, CopyFresh, Fresh
  <2>3. AnchorCurrent' /\ request'.meta.result = request.meta.result
    BY <1>16, <2>2, AppendSetsAnchor
  <2>4. RowKept'
    BY <1>0, <2>1, <2>3 DEF RowKept, ResultKept
  <2> QED
    BY <1>0, <2>1, <2>4, ExpiredIsFresh
<1>17. CASE Abort(t)
  <2>1. SessionExpired(t) /\ UNCHANGED <<request, job, ledger>>
    BY <1>17 DEF Abort, SessionExpired
  <2> QED
    BY <1>0, <2>1, ExpiredIsFresh, QuietKeepsRow
<1>18. CASE EditConditions
  <2>1. /\ request'.status = request.status /\ request'.meta = request.meta
        /\ UNCHANGED <<job, ledger, pc, call, on, seen>>
    BY <1>0, <1>18 DEF EditConditions, session, Rows
  <2> QED
    BY <1>0, <2>1, QuietKeepsRow DEF CopyFresh, JobAwaited, Fresh
<1>19. CASE UNCHANGED vars
  BY <1>0, <1>19, QuietKeepsRow DEF vars, session, CopyFresh, JobAwaited, Fresh
<1> QED
  BY <1>3, <1>4, <1>5, <1>6, <1>7, <1>8, <1>9, <1>10, <1>11, <1>12, <1>13, <1>14, <1>15,
     <1>16, <1>17, <1>18, <1>19 DEF Next, Step

LEMMA AloneInit == Init => AloneInv
<1> SUFFICES ASSUME Init PROVE AloneInv
  OBVIOUS
<1>1. RowKept
  BY DEF Init, NoRow, RowKept, AnchorCurrent, ResultKept
<1>2. \A t \in Thread : pc[t] = "idle"
  BY DEF Init
<1> QED
  BY <1>1, <1>2 DEF AloneInv, CopyFresh, JobAwaited

LEMMA AloneInvariant ==
  ASSUME NEW t \in Thread, Thread = {t}
  PROVE  Spec => [](TypeInv /\ FiledInv /\ AloneInv)
<1>1. TypeInv /\ FiledInv /\ AloneInv /\ [Next]_vars => AloneInv'
  BY AloneStep
<1> QED
  BY <1>1, AloneInit, FiledInvariant, PTL DEF Spec

\* One handler at a time keeps the head anchor at the end of the ledger, in
\* every state and wherever the handler dies: the commit of an execute puts
\* back the anchor that was there.
THEOREM AnchorStaysCurrent ==
  ASSUME NEW t \in Thread, Thread = {t}
  PROVE  Spec => []AnchorCurrent
<1>1. AloneInv => AnchorCurrent
  BY DEF AloneInv, RowKept
<1> QED
  BY <1>1, AloneInvariant, PTL

\* The result that the execute route has stored is there as long as the request
\* is executed: no event that is recorded later writes it away.
THEOREM ResultStaysKept ==
  ASSUME NEW t \in Thread, Thread = {t}
  PROVE  Spec => []ResultKept
<1>1. AloneInv => ResultKept
  BY DEF AloneInv, RowKept
<1> QED
  BY <1>1, AloneInvariant, PTL

\* One worker at a time ends a job once: a blocked, completed or failed job
\* stays so, although the routes test and write its status in two steps.
THEOREM JobsEndOnce ==
  ASSUME NEW t \in Thread, Thread = {t}
  PROVE  Spec => JobEndsOnce
<1>1. TypeInv /\ AloneInv /\ [Next]_vars => [JobsEnd]_vars
  <2> SUFFICES ASSUME TypeInv, AloneInv, [Next]_vars PROVE JobsEnd
    OBVIOUS
  <2>1. CASE Step(t)
    BY <2>1, StepEndsJobs DEF AloneInv, TypeInv
  <2>2. CASE UNCHANGED job
    BY <2>2 DEF JobsEnd
  <2> QED
    BY <2>1, <2>2 DEF Next, Receive, Abort, EditConditions, vars
<1> QED
  BY <1>1, AloneInvariant, PTL DEF Spec, JobEndsOnce, JobsEnd

-----------------------------------------------------------------------------
(* Execution is recorded once.  Once an execution is recorded, or is owed  *)
(* its event, the request has no executable status and only an approval    *)
(* could give it one.                                                      *)

CallsOffered == \A t \in Thread : call[t] \in Kinds \cup {"none"}

LEMMA CallsStayOffered == TypeInv /\ CallsOffered /\ [Next]_vars => CallsOffered'
<1> SUFFICES ASSUME TypeInv, CallsOffered, [Next]_vars PROVE CallsOffered'
  OBVIOUS
<1>0. call \in [Thread -> AllKinds \cup {"none"}]
  BY DEF TypeInv, TypeOK
<1>1. ASSUME NEW t \in Thread, NEW kind \in Kinds, NEW j \in Job \cup {NoJob}, Receive(t, kind, j)
      PROVE  CallsOffered'
  BY <1>0, <1>1 DEF Receive, CallsOffered
<1>2. ASSUME NEW t \in Thread, Return(t) PROVE CallsOffered'
  BY <1>0, <1>2 DEF Return, CallsOffered
<1>3. CASE UNCHANGED call
  BY <1>3 DEF CallsOffered
<1>4. ASSUME NEW t \in Thread, NEW kinds,
             RecordCached(t, kinds) \/ RecordExpired(t, kinds) \/ RecordReloaded(t, kinds)
      PROVE  CallsOffered'
  BY <1>3, <1>4 DEF RecordCached, RecordExpired, RecordReloaded
<1>5. ASSUME NEW t \in Thread, Step(t) PROVE CallsOffered'
  BY <1>2, <1>3, <1>4, <1>5
     DEF Step, EvaluateCommit, EvaluateDuplicate, ReviewCommit, ReviewBlocked, ExecuteReplay,
         ExecuteBlocked, ExecuteCommit, View, VerifyReport, QueueBlocked, QueueCommit,
         ClaimCommit, CompleteLoad, CompleteCommit, FailCommit, Reload, TakeLock, AppendEvent
<1> QED
  BY <1>1, <1>2, <1>3, <1>5 DEF Next, Abort, EditConditions, session, vars

IsCompletion(i) == ledger[i].kind = "execution_completed"
Recorded == \E i \in 1..Len(ledger) : IsCompletion(i)
Unique   == \A i, k \in 1..Len(ledger) : IsCompletion(i) /\ IsCompletion(k) => i = k

\* A handler that owes the event of an execution owes nothing else, and no
\* execution is recorded yet.
OwesAlone(t) == Owes(events[t]) => events[t] = <<"execution_completed">> /\ ~Recorded

\* The request is not filed yet, or an execute could commit.
Startable == request.status \in Executable \cup {"none"}

Spent == \A t \in Thread : Recorded \/ Owes(events[t]) => ~Startable

OnceInv == Unique /\ Spent /\ \A t \in Thread : OwesAlone(t)

\* Without an approval no status becomes executable but that of a new request.
LEMMA SpentRemains ==
  ASSUME NEW t \in Thread, TypeInv, FiledInv, CopyFresh(t), JobAwaited(t), Step(t),
         call[t] # "approve", ~Startable
  PROVE  ~Startable' /\ ~ExecuteCommit(t)
<1>0. request \in Rows /\ request.status \notin Executable \cup {"none"}
  BY DEF TypeInv, TypeOK, Startable
<1>1. request'.status # "none" /\ ~EvaluateCommit(t)
  BY <1>0, FiledRemains DEF FiledInv, EvaluateCommit, PrimaryKeyFree
<1>2. ~ExecuteCommit(t)
  BY <1>0 DEF ExecuteCommit, FinalExecutionError, AtDecide, CopyFresh, JobKinds, Fresh
<1>3. ASSUME NEW kind \in ReviewKinds, ReviewCommit(t, kind)
      PROVE  request'.status \notin Executable
  <2>1. kind # "approve"
    BY <1>3 DEF ReviewCommit, AtDecide
  <2>2. request'.status \in {request.status, ReviewStatus(kind)}
    BY <1>0, <1>3 DEF ReviewCommit, Rows
  <2>3. ReviewStatus(kind) \notin Executable
    BY <2>1 DEF ReviewStatus, Executable
  <2> QED
    BY <1>0, <2>2, <2>3
<1>4. ASSUME CompleteCommit(t) \/ (\E j \in Job : QueueCommit(t, j))
      PROVE  request'.status \notin Executable
  BY <1>0, <1>4 DEF CompleteCommit, QueueCommit, Rows, Executable
<1>5. ASSUME AppendEvent(t) PROVE request'.status \notin Executable
  BY <1>0, <1>5 DEF AppendEvent, Rows
<1>6. ASSUME UNCHANGED request PROVE request'.status \notin Executable
  BY <1>0, <1>6
<1> QED
  BY <1>1, <1>2, <1>3, <1>4, <1>5, <1>6
     DEF Step, EvaluateDuplicate, ReviewBlocked, ExecuteReplay, ExecuteBlocked, View,
         VerifyReport, QueueBlocked, ClaimCommit, CompleteLoad, FailCommit, Reload, TakeLock, Startable

LEMMA OnceStep ==
  ASSUME NEW t \in Thread, Thread = {t}, TypeInv, FiledInv, AloneInv, call[t] # "approve",
         OnceInv, [Next]_vars
  PROVE  OnceInv'
<1>0. /\ request \in Rows /\ ledger \in Seq(Events) /\ Len(ledger) \in Nat
      /\ events \in [Thread -> Seq(EventKinds)] /\ events[t] \in Seq(EventKinds)
      /\ Unique /\ Spent /\ OwesAlone(t) /\ CopyFresh(t) /\ JobAwaited(t)
      /\ Recorded \/ Owes(events[t]) => ~Startable
  BY DEF TypeInv, TypeOK, OnceInv, AloneInv, Spent
<1>1. ~Owes(<<>>)
  BY DEF Owes
<1>2. CASE ExecuteCommit(t)
  <2>1. /\ UNCHANGED ledger /\ events'[t] = <<"execution_completed">>
        /\ request'.status = "executed"
    BY <1>0, <1>2 DEF ExecuteCommit, ExecutedRow, RecordReloaded, Rows
  <2>2. Startable
    BY <1>0, <1>2 DEF ExecuteCommit, FinalExecutionError, AtDecide, CopyFresh, JobKinds, Fresh, Startable
  <2>3. ~Recorded /\ UNCHANGED ledger
    BY <1>0, <2>1, <2>2
  <2>4. Unique' /\ ~Recorded'
    BY <1>0, <2>3 DEF Unique, Recorded, IsCompletion
  <2>5. Spent'
    BY <2>1 DEF Spent, Startable, Executable
  <2>6. OwesAlone(t)'
    BY <2>1, <2>4 DEF OwesAlone
  <2> QED
    BY <2>4, <2>5, <2>6 DEF OnceInv
<1>3. CASE AppendEvent(t)
  <2>1. /\ events[t] # <<>>
        /\ ledger' = Append(ledger, [kind |-> Head(events[t]), prev |-> tail[t]])
        /\ request'.status = request.status
    BY <1>0, <1>3 DEF AppendEvent, TypeInv, EventsOwed, Rows
  <2>2. /\ Len(ledger') = Len(ledger) + 1
        /\ \A i \in 1..Len(ledger) : ledger'[i] = ledger[i]
        /\ ledger'[Len(ledger) + 1].kind = Head(events[t])
    BY <1>0, <2>1
  <2>3. CASE Owes(events[t])
    <3>1. events[t] = <<"execution_completed">> /\ ~Recorded
      BY <1>0, <2>3 DEF OwesAlone
    <3>2. events'[t] = <<>>
      BY <1>0, <1>3, <3>1 DEF AppendEvent, Return
    <3>3. \A i \in 1..Len(ledger') : IsCompletion(i)' => i = Len(ledger) + 1
      BY <1>0, <2>2, <3>1 DEF Recorded, IsCompletion
    <3>4. Unique'
      BY <3>3 DEF Unique
    <3>5. Spent'
      BY <1>0, <2>1, <2>3 DEF Spent, Startable
    <3>6. OwesAlone(t)'
      BY <1>1, <3>2 DEF OwesAlone
    <3> QED
      BY <3>4, <3>5, <3>6 DEF OnceInv
  <2>4. CASE ~Owes(events[t])
    <3>1. Head(events[t]) # "execution_completed" /\ ~Owes(Tail(events[t]))
      BY <1>0, <2>1, <2>4 DEF Owes
    <3>2. events'[t] = <<>> \/ events'[t] = Tail(events[t])
      BY <1>0, <1>3 DEF AppendEvent, Return, RecordExpired
    <3>3. ~Owes(events'[t])
      BY <1>1, <3>1, <3>2
    <3>4. \A i \in 1..Len(ledger') : IsCompletion(i)' <=> i \in 1..Len(ledger) /\ IsCompletion(i)
      BY <1>0, <2>2, <3>1 DEF IsCompletion
    <3>5. Unique' /\ (Recorded' => Recorded)
      BY <1>0, <3>4 DEF Unique, Recorded
    <3>6. Spent'
      BY <1>0, <2>1, <3>3, <3>5 DEF Spent, Startable
    <3>7. OwesAlone(t)'
      BY <3>3 DEF OwesAlone
    <3> QED
      BY <3>5, <3>6, <3>7 DEF OnceInv
  <2> QED
    BY <2>3, <2>4
<1>4. ASSUME ledger' = ledger, events'[t] = events[t] \/ ~Owes(events'[t]),
             ~Startable => ~Startable'
      PROVE  OnceInv'
  <2>1. Unique' /\ (Recorded' <=> Recorded)
    BY <1>0, <1>4 DEF Unique, Recorded, IsCompletion
  <2>2. Spent'
    BY <1>0, <1>4, <2>1 DEF Spent
  <2>3. OwesAlone(t)'
    BY <1>0, <1>4, <2>1 DEF OwesAlone
  <2> QED
    BY <2>1, <2>2, <2>3 DEF OnceInv
<1>5. ASSUME Step(t), ~ExecuteCommit(t), ~AppendEvent(t)
      PROVE  OnceInv'
  <2>1. ledger' = ledger /\ (events'[t] = events[t] \/ ~Owes(events'[t]))
    BY <1>5, OtherStepsOweNothing
  <2>2. ~Startable => ~Startable'
    BY <1>0, <1>5, SpentRemains
  <2> QED
    BY <1>4, <2>1, <2>2
<1>6. CASE Abort(t)
  <2>1. UNCHANGED <<ledger, request>> /\ events'[t] = <<>>
    BY <1>0, <1>6 DEF Abort, Return
  <2> QED
    BY <1>1, <1>4, <2>1 DEF Startable
<1>7. ASSUME NEW kind \in Kinds, NEW j \in Job \cup {NoJob}, Receive(t, kind, j)
      PROVE  OnceInv'
  BY <1>4, <1>7 DEF Receive, Startable
<1>8. CASE EditConditions
  <2>1. request'.status = request.status /\ UNCHANGED <<ledger, events>>
    BY <1>0, <1>8 DEF EditConditions, session, Rows
  <2> QED
    BY <1>4, <2>1 DEF Startable
<1>9. CASE UNCHANGED vars
  BY <1>4, <1>9 DEF vars, session, Startable
<1> QED
  BY <1>2, <1>3, <1>5, <1>6, <1>7, <1>8, <1>9 DEF Next

\* However often one client asks for the execution, with retries after deaths
\* and workers in between, at most one execution is recorded, as long as
\* nobody approves the request again.
THEOREM ExecutedAtMostOnce ==
  ASSUME NEW t \in Thread, Thread = {t}, "approve" \notin Kinds
  PROVE  Spec => []ExecutedOnce
<1>1. Init => CallsOffered /\ OnceInv
  BY DEF Init, CallsOffered, OnceInv, Unique, Spent, OwesAlone, Owes, Recorded
<1>2. TypeInv /\ FiledInv /\ AloneInv /\ CallsOffered /\ OnceInv /\ [Next]_vars
        => (CallsOffered /\ OnceInv)'
  <2>1. CallsOffered => call[t] # "approve"
    BY DEF CallsOffered
  <2> QED
    BY <2>1, CallsStayOffered, OnceStep
<1>3. TypeInv /\ OnceInv => ExecutedOnce
  <2> SUFFICES ASSUME TypeInv, OnceInv PROVE ExecutedOnce
    OBVIOUS
  <2> DEFINE S == {i \in 1..Len(ledger) : ledger[i].kind = "execution_completed"}
  <2>1. S = {} \/ \E i : S = {i}
    <3>1. CASE S # {}
      <4>1. PICK i : i \in S
        BY <3>1
      <4>2. \A k \in S : k = i
        BY <4>1 DEF OnceInv, Unique, IsCompletion
      <4>3. S = {i}
        BY <4>1, <4>2, Zenon
      <4> QED
        BY <4>3
    <3> QED
      BY <3>1
  <2>2. Cardinality(S) \in {0, 1}
    BY <2>1, FS_EmptySet, FS_Singleton
  <2> QED
    BY <2>2 DEF ExecutedOnce, EventCount
<1> QED
  BY <1>1, <1>2, <1>3, AloneInvariant, PTL DEF Spec

-----------------------------------------------------------------------------
\* Without reviews, a queued request leaves the queue only together with a
\* running job that completes: a failed job leaves it queued for ever, and no
\* retry and no execute gets it out.
THEOREM QueuedAlwaysWaits ==
  ASSUME NEW t \in Thread, Thread = {t}, Kinds \cap ReviewKinds = {}
  PROVE  Spec => QueuedWaits
<1> DEFINE Waits ==
      request.status = "queued_for_execution" /\ request'.status # "queued_for_execution"
        => \E j \in Job : job[j] = "RUNNING" /\ job'[j] = "COMPLETED"
<1>1. Init => CallsOffered
  BY DEF Init, CallsOffered
<1>2. TypeInv /\ AloneInv /\ CallsOffered /\ [Next]_vars => [Waits]_vars
  <2> SUFFICES ASSUME TypeInv, AloneInv, CallsOffered, [Next]_vars,
                      request.status = "queued_for_execution",
                      request'.status # "queued_for_execution"
               PROVE  \E j \in Job : job[j] = "RUNNING" /\ job'[j] = "COMPLETED"
    OBVIOUS
  <2>0. /\ request \in Rows /\ job \in [Job -> JobStatuses] /\ ~(UNCHANGED request)
        /\ CopyFresh(t) /\ JobAwaited(t) /\ call[t] \notin ReviewKinds
    BY DEF TypeInv, TypeOK, AloneInv, CallsOffered, ReviewKinds
  <2>1. Step(t)
    <3>1. ~EditConditions
      BY <2>0 DEF EditConditions, Rows
    <3> QED
      BY <2>0, <3>1 DEF Next, Receive, Abort, vars
  <2>2. ~EvaluateCommit(t)
    BY DEF EvaluateCommit, PrimaryKeyFree
  <2>3. ~(\E kind \in ReviewKinds : ReviewCommit(t, kind))
    BY <2>0 DEF ReviewCommit, AtDecide
  <2>4. ~ExecuteCommit(t)
    BY <2>0 DEF ExecuteCommit, FinalExecutionError, AtDecide, CopyFresh, JobKinds, Fresh, Executable
  <2>5. ~AppendEvent(t) /\ ~(\E j \in Job : QueueCommit(t, j))
    BY <2>0 DEF AppendEvent, QueueCommit, Rows
  <2>6. CompleteCommit(t)
    BY <2>0, <2>1, <2>2, <2>3, <2>4, <2>5
       DEF Step, EvaluateDuplicate, ReviewBlocked, ExecuteReplay, ExecuteBlocked, View,
           VerifyReport, QueueBlocked, ClaimCommit, CompleteLoad, FailCommit, Reload, TakeLock
  <2> QED
    BY <2>0, <2>6 DEF CompleteCommit, JobAwaited
<1>3. TypeInv /\ CallsOffered /\ [Next]_vars => CallsOffered'
  BY CallsStayOffered
<1> QED
  BY <1>1, <1>2, <1>3, AloneInvariant, PTL DEF Spec, QueuedWaits
=============================================================================
