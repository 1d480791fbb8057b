------------------------ MODULE RequestRuntimeProofs ------------------------
(***************************************************************************)
(* What RequestRuntime guarantees for every set of threads, jobs and       *)
(* submissions, and every bound on calls.                                  *)
(***************************************************************************)
EXTENDS RequestRuntime, SequenceTheorems, FiniteSetTheorems, TLAPS

-----------------------------------------------------------------------------
(* Operators.                                                              *)

\* Every pack answers every conditions with a decision the table can hold.
LEMMA EvaluateType ==
  ASSUME NEW c \in Conditions
  PROVE  Evaluate(c) \in Results
<1>1. /\ Refused \in Results
      /\ Admitted \in Results
      /\ \A why \in Effects : Held(why) \in Results /\ Escalated(why) \in Results
  BY DEF Refused, Admitted, Held, Escalated, Result, Results, Outcomes, Effects
<1>2. CyberEvaluate(c) \in Results
  BY <1>1 DEF CyberEvaluate, Effects
<1>3. FinanceEvaluate(c) \in Results
  BY <1>1 DEF FinanceEvaluate, Effects
<1>4. HealthcareEvaluate(c) \in Results
  BY <1>1 DEF HealthcareEvaluate, Effects
<1> QED
  BY <1>2, <1>3, <1>4 DEF Evaluate

LEMMA LifecycleStatusType ==
  ASSUME NEW d \in Results
  PROVE  LifecycleStatus(d.outcome) \in Statuses
BY DEF LifecycleStatus, Results, Outcomes, Statuses

LEMMA ReviewStatusType ==
  ASSUME NEW kind \in ReviewKinds
  PROVE  ReviewStatus(kind) \in Statuses
BY DEF ReviewStatus, ReviewKinds, Statuses

LEMMA NoRowType == NoRow \in Rows
BY DEF NoRow, Rows, Metadata, Statuses

LEMMA EventListType ==
  ASSUME NEW a \in EventKinds, NEW b \in EventKinds
  PROVE  /\ <<>> \in Seq(EventKinds)
         /\ <<a>> \in Seq(EventKinds)    /\ <<a>> # <<>>
         /\ <<a, b>> \in Seq(EventKinds) /\ <<a, b>> # <<>>
OBVIOUS

-----------------------------------------------------------------------------
(* Type correctness.  AppendEvent records the first of the events a        *)
(* handler owes, so the type of the ledger needs that it owes one.         *)

SessionOK ==
  /\ pc     \in [Thread -> Places]
  /\ call   \in [Thread -> AllKinds \cup {"none"}]
  /\ on     \in [Thread -> Job \cup {NoJob}]
  /\ seen   \in [Thread -> Rows]
  /\ tail   \in [Thread -> Nat]
  /\ events \in [Thread -> Seq(EventKinds)]

EventsOwed ==
  \A t \in Thread : pc[t] \in {"reload", "record", "append"} => events[t] # <<>>

TypeInv == TypeOK /\ EventsOwed

LEMMA TypeOKHasSessionOK == TypeOK => SessionOK
BY DEF TypeOK, SessionOK

\* Each way a step leaves the handler keeps its session typed.
LEMMA ReturnSession ==
  ASSUME SessionOK, EventsOwed, NEW t \in Thread, Return(t)
  PROVE  SessionOK' /\ EventsOwed'
BY NoRowType, EventListType DEF SessionOK, EventsOwed, Return, Places, EventKinds

LEMMA RecordSession ==
  ASSUME SessionOK, EventsOwed, NEW t \in Thread,
         NEW kinds \in Seq(EventKinds), kinds # <<>>,
         \/ RecordCached(t, kinds)
         \/ RecordExpired(t, kinds)
         \/ RecordReloaded(t, kinds)
  PROVE  SessionOK' /\ EventsOwed'
<1>1. CASE RecordCached(t, kinds)
  BY <1>1 DEF SessionOK, EventsOwed, RecordCached, Places
<1>2. CASE RecordExpired(t, kinds)
  BY <1>2, NoRowType DEF SessionOK, EventsOwed, RecordExpired, Places
<1>3. CASE RecordReloaded(t, kinds)
  BY <1>3 DEF SessionOK, EventsOwed, RecordReloaded, Places
<1> QED
  BY <1>1, <1>2, <1>3

LEMMA TypeInit == Init => TypeInv
<1> SUFFICES ASSUME Init PROVE TypeInv
  OBVIOUS
<1>1. request \in Rows /\ decision \in Results \cup {NoDecision} /\ ledger \in Seq(Events)
  BY NoRowType DEF Init
<1>2. SessionOK
  BY NoRowType DEF Init, SessionOK, Places
<1> QED
  BY <1>1, <1>2, RuntimeAssumption DEF Init, TypeInv, TypeOK, SessionOK, EventsOwed, JobStatuses

\* The row's columns are assigned one at a time.
LEMMA RowType ==
  ASSUME NEW row \in Rows
  PROVE  row.status \in Statuses /\ row.meta \in Metadata
BY DEF Rows

LEMMA RowStatusType ==
  ASSUME NEW row \in Rows, NEW s \in Statuses
  PROVE  [row EXCEPT !.status = s] \in Rows
BY DEF Rows

LEMMA RowMetaType ==
  ASSUME NEW row \in Rows, NEW m \in Metadata
  PROVE  [row EXCEPT !.meta = m] \in Rows
BY DEF Rows

LEMMA MetadataUpdateType ==
  ASSUME NEW meta \in Metadata, NEW n \in Nat
  PROVE  /\ [meta EXCEPT !.result = TRUE] \in Metadata
         /\ [meta EXCEPT !.head = n, !.count = n] \in Metadata
BY DEF Metadata

LEMMA TypeStep == TypeInv /\ [Next]_vars => TypeInv'
<1> SUFFICES ASSUME TypeInv, [Next]_vars PROVE TypeInv'
  OBVIOUS
<1> USE DEF TypeInv
<1>0. SessionOK /\ EventsOwed
  BY TypeOKHasSessionOK
<1>1. ASSUME NEW t \in Thread, NEW kind \in Kinds, NEW j \in Job \cup {NoJob}, Receive(t, kind, j)
      PROVE  TypeInv'
  <2>1. SessionOK' /\ EventsOwed'
    BY <1>0, <1>1, NoRowType, RuntimeAssumption
       DEF Receive, SessionOK, EventsOwed, Places, TypeOK
  <2> QED
    BY <1>1, <2>1 DEF Receive, TypeOK, SessionOK
<1>2. ASSUME NEW t \in Thread, EvaluateCommit(t)
      PROVE  TypeInv'
  <2>1. SessionOK' /\ EventsOwed'
    BY <1>0, <1>2, RecordSession, EventListType DEF EvaluateCommit, EvaluationEvents, EventKinds
  <2>2. request' \in Rows /\ decision' \in Results
    <3>1. PICK c \in Submissions :
            /\ decision' = Evaluate(c)
            /\ request'  = [status |-> LifecycleStatus(Evaluate(c).outcome),
                            conditions |-> c, meta |-> NoRow.meta]
      BY <1>2 DEF EvaluateCommit
    <3>2. c \in Conditions /\ Evaluate(c) \in Results /\ NoRow.meta \in Metadata
      BY RuntimeAssumption, EvaluateType, NoRowType, RowType DEF Rows
    <3>3. LifecycleStatus(Evaluate(c).outcome) \in Statuses
      BY <3>2, LifecycleStatusType
    <3> QED
      BY <3>1, <3>2, <3>3 DEF Rows
  <2> QED
    BY <1>2, <2>1, <2>2 DEF EvaluateCommit, TypeOK, SessionOK
<1>3. ASSUME NEW t \in Thread, EvaluateDuplicate(t) \/ VerifyReport(t)
      PROVE  TypeInv'
  <2>1. SessionOK' /\ EventsOwed'
    BY <1>0, <1>3, ReturnSession DEF EvaluateDuplicate, VerifyReport
  <2> QED
    BY <1>3, <2>1 DEF EvaluateDuplicate, VerifyReport, TypeOK, SessionOK
<1>4. ASSUME NEW t \in Thread, NEW kind \in ReviewKinds, ReviewCommit(t, kind)
      PROVE  TypeInv'
  <2>1. SessionOK' /\ EventsOwed'
    BY <1>0, <1>4, RecordSession, EventListType DEF ReviewCommit, EventKinds
  <2>2. request' \in Rows
    <3> DEFINE s == IF seen[t].status = ReviewStatus(kind) THEN request.status
                                                           ELSE ReviewStatus(kind)
    <3>1. request \in Rows /\ s \in Statuses
      BY RowType, ReviewStatusType DEF TypeOK
    <3>2. request' = [request EXCEPT !.status = s]
      BY <1>4 DEF ReviewCommit
    <3> HIDE DEF s
    <3> QED
      BY <3>1, <3>2, RowStatusType
  <2> QED
    BY <1>4, <2>1, <2>2 DEF ReviewCommit, TypeOK, SessionOK
<1>5. ASSUME NEW t \in Thread, NEW kind \in ReviewKinds, ReviewBlocked(t, kind)
      PROVE  TypeInv'
  <2>1. SessionOK' /\ EventsOwed'
    BY <1>0, <1>5, RecordSession, EventListType DEF ReviewBlocked, EventKinds
  <2> QED
    BY <1>5, <2>1 DEF ReviewBlocked, TypeOK, SessionOK
<1>6. ASSUME NEW t \in Thread, ExecuteReplay(t) \/ ExecuteBlocked(t) \/ View(t)
      PROVE  TypeInv'
  <2>1. SessionOK' /\ EventsOwed'
    BY <1>0, <1>6, RecordSession, EventListType DEF ExecuteReplay, ExecuteBlocked, View, EventKinds
  <2> QED
    BY <1>6, <2>1 DEF ExecuteReplay, ExecuteBlocked, View, TypeOK, SessionOK
<1>7. ASSUME NEW t \in Thread, ExecuteCommit(t)
      PROVE  TypeInv'
  <2>1. SessionOK' /\ EventsOwed'
    BY <1>0, <1>7, RecordSession, EventListType DEF ExecuteCommit, EventKinds
  <2>2. request' \in Rows
    <3>1. seen[t] \in Rows
      BY DEF TypeOK
    <3>2. [seen[t].meta EXCEPT !.result = TRUE] \in Metadata
      BY <3>1, RowType, MetadataUpdateType DEF Rows
    <3> DEFINE m == [seen[t].meta EXCEPT !.result = TRUE]
    <3>3. request' = [request EXCEPT !.status = "executed", !.meta = m]
      BY <1>7 DEF ExecuteCommit, ExecutedRow
    <3> HIDE DEF m
    <3>4. m \in Metadata
      BY <3>2 DEF m
    <3> QED
      BY <3>3, <3>4 DEF TypeOK, Rows, Statuses
  <2> QED
    BY <1>7, <2>1, <2>2 DEF ExecuteCommit, TypeOK, SessionOK
<1>8. ASSUME NEW t \in Thread, NEW j \in Job, QueueBlocked(t, j)
      PROVE  TypeInv'
  <2>1. SessionOK' /\ EventsOwed'
    BY <1>0, <1>8, RecordSession, EventListType DEF QueueBlocked, EventKinds
  <2> QED
    BY <1>8, <2>1 DEF QueueBlocked, TypeOK, SessionOK, JobStatuses
<1>9. ASSUME NEW t \in Thread, NEW j \in Job, QueueCommit(t, j)
      PROVE  TypeInv'
  <2>1. SessionOK' /\ EventsOwed'
    BY <1>0, <1>9, RecordSession, EventListType DEF QueueCommit, EventKinds
  <2>2. request' \in Rows
    BY <1>9 DEF QueueCommit, TypeOK, Rows, Statuses
  <2> QED
    BY <1>9, <2>1, <2>2 DEF QueueCommit, TypeOK, SessionOK, JobStatuses
<1>10. ASSUME NEW t \in Thread, ClaimCommit(t) \/ FailCommit(t)
       PROVE  TypeInv'
  <2>1. SessionOK' /\ EventsOwed'
    BY <1>0, <1>10, RecordSession, EventListType DEF ClaimCommit, FailCommit, EventKinds
  <2> QED
    BY <1>10, <2>1 DEF ClaimCommit, FailCommit, TypeOK, SessionOK, JobStatuses
<1>11. ASSUME NEW t \in Thread, CompleteLoad(t) \/ Reload(t)
       PROVE  TypeInv'
  <2>1. SessionOK'
    BY <1>0, <1>11 DEF CompleteLoad, Reload, SessionOK, Places, TypeOK
  <2>2. EventsOwed'
    BY <1>0, <1>11 DEF CompleteLoad, Reload, EventsOwed, SessionOK
  <2> QED
    BY <1>11, <2>1, <2>2 DEF CompleteLoad, Reload, TypeOK, SessionOK
<1>12. ASSUME NEW t \in Thread, CompleteCommit(t)
       PROVE  TypeInv'
  <2>1. SessionOK' /\ EventsOwed'
    BY <1>0, <1>12, RecordSession, EventListType DEF CompleteCommit, EventKinds
  <2>2. request' \in Rows
    BY <1>12 DEF CompleteCommit, TypeOK, Rows, Statuses
  <2> QED
    BY <1>12, <2>1, <2>2 DEF CompleteCommit, TypeOK, SessionOK, JobStatuses
<1>13. ASSUME NEW t \in Thread, TakeLock(t)
       PROVE  TypeInv'
  <2>1. SessionOK' /\ EventsOwed'
    BY <1>0, <1>13 DEF TakeLock, SessionOK, EventsOwed, Places, TypeOK
  <2> QED
    BY <1>13, <2>1 DEF TakeLock, TypeOK, SessionOK
<1>14. ASSUME NEW t \in Thread, AppendEvent(t)
       PROVE  TypeInv'
  <2>1. events[t] \in Seq(EventKinds) /\ events[t] # <<>>
    BY <1>0, <1>14 DEF AppendEvent, SessionOK, EventsOwed
  <2>2. SessionOK' /\ EventsOwed'
    <3>1. CASE Len(events[t]) = 1
      BY <1>0, <1>14, <3>1, ReturnSession DEF AppendEvent
    <3>2. CASE Len(events[t]) # 1
      <4>1. Tail(events[t]) \in Seq(EventKinds) /\ Len(Tail(events[t])) = Len(events[t]) - 1
        BY <2>1, HeadTailProperties
      <4>2. Len(events[t]) \in Nat
        BY <2>1
      <4>3. Len(Tail(events[t])) # Len(<<>>)
        BY <3>2, <4>1, <4>2
      <4>4. Tail(events[t]) # <<>>
        BY <4>3, Zenon
      <4> QED
        BY <1>0, <1>14, <3>2, <4>1, <4>4, RecordSession DEF AppendEvent
    <3> QED
      BY <3>1, <3>2
  <2>3. ledger' \in Seq(Events)
    <3>1. [kind |-> Head(events[t]), prev |-> tail[t]] \in Events
      BY <2>1 DEF Events, TypeOK
    <3> QED
      BY <1>14, <3>1 DEF AppendEvent, TypeOK
  <2>4. request' \in Rows
    <3>1. seen[t] \in Rows /\ Len(ledger) + 1 \in Nat
      BY DEF TypeOK
    <3>2. HeadAnchor(seen[t].meta) \in Metadata
      BY <3>1, RowType, MetadataUpdateType DEF HeadAnchor, Rows
    <3> QED
      BY <1>14, <3>2, RowMetaType DEF AppendEvent, TypeOK
  <2> QED
    BY <1>14, <2>2, <2>3, <2>4 DEF AppendEvent, RequestLockReleased, TypeOK, SessionOK
<1>15. ASSUME NEW t \in Thread, Abort(t)
       PROVE  TypeInv'
  <2>1. SessionOK' /\ EventsOwed'
    BY <1>0, <1>15, ReturnSession DEF Abort
  <2> QED
    BY <1>15, <2>1 DEF Abort, TypeOK, SessionOK
<1>16. ASSUME EditConditions
       PROVE  TypeInv'
  <2>1. request' \in Rows
    BY <1>16, RuntimeAssumption DEF EditConditions, TypeOK, Rows
  <2> QED
    BY <1>0, <1>16, <2>1 DEF EditConditions, session, TypeOK, EventsOwed
<1>17. CASE UNCHANGED vars
  BY <1>17 DEF vars, session, TypeOK, EventsOwed
<1> QED
  BY <1>1, <1>2, <1>3, <1>4, <1>5, <1>6, <1>7, <1>8, <1>9, <1>10, <1>11, <1>12,
     <1>13, <1>14, <1>15, <1>16, <1>17 DEF Next, Step

\* Type correctness of every reachable state.
THEOREM TypeCorrect == Spec => []TypeOK
<1>1. Init => TypeInv
  BY TypeInit
<1>2. TypeInv /\ [Next]_vars => TypeInv'
  BY TypeStep
<1>3. TypeInv => TypeOK
  BY DEF TypeInv
<1> QED
  BY <1>1, <1>2, <1>3, PTL DEF Spec

-----------------------------------------------------------------------------
(* The ledger.  Only record_event appends, and only the owner of the       *)
(* request lock is between reading the tail and appending to it; so the    *)
(* tail it has read is still the tail.  The anchors that handlers carry in *)
(* their copies are anchors the row once had, hence never ahead.           *)

LockOwner   == \A t \in Thread : pc[t] = "append" <=> lock = t
TailCurrent == \A t \in Thread : pc[t] = "append" => tail[t] = Len(ledger)

AnchorBehind(meta) == meta.head = meta.count /\ meta.count <= Len(ledger)
AnchorsBehind == AnchorBehind(request.meta) /\ \A t \in Thread : AnchorBehind(seen[t].meta)

LedgerInv == LockOwner /\ TailCurrent /\ ChainLinked /\ AnchorsBehind

\* A step of t outside the lock: no one's ledger, lock or tail is touched ...
OutsideLock(t) ==
  /\ UNCHANGED <<ledger, lock>>
  /\ pc[t] # "append"
  /\ \E place \in Places \ {"append"} : pc' = [pc EXCEPT ![t] = place]
  /\ \A u \in Thread \ {t} : tail'[u] = tail[u]

\* ... and the anchors it leaves in the row and in the session were in one of
\* them before.
AnchorCopied(t) ==
  /\ \E row \in {request, NoRow, seen[t]} :
       request'.meta.head = row.meta.head /\ request'.meta.count = row.meta.count
  /\ \E row \in {request, NoRow, seen[t]} : seen' = [seen EXCEPT ![t] = row]

LEMMA CommitOutsideLock ==
  ASSUME TypeOK, NEW t \in Thread, NEW kinds, pc[t] # "append", UNCHANGED <<ledger, lock>>,
         \/ Return(t)
         \/ RecordCached(t, kinds)
         \/ RecordExpired(t, kinds)
         \/ RecordReloaded(t, kinds)
  PROVE  /\ OutsideLock(t)
         /\ \E row \in {request, NoRow, seen[t]} : seen' = [seen EXCEPT ![t] = row]
<1>1. CASE Return(t)
  BY <1>1 DEF TypeOK, Return, OutsideLock, Places
<1>2. CASE RecordCached(t, kinds)
  BY <1>2 DEF TypeOK, RecordCached, OutsideLock, Places
<1>3. CASE RecordExpired(t, kinds)
  BY <1>3 DEF TypeOK, RecordExpired, OutsideLock, Places
<1>4. CASE RecordReloaded(t, kinds)
  BY <1>4 DEF TypeOK, RecordReloaded, OutsideLock, Places
<1> QED
  BY <1>1, <1>2, <1>3, <1>4

LEMMA StepOutsideLock ==
  ASSUME TypeInv, NEW t \in Thread, Step(t), ~TakeLock(t), ~AppendEvent(t)
  PROVE  OutsideLock(t) /\ AnchorCopied(t)
<1> USE DEF TypeInv
<1>1. CASE EvaluateCommit(t)
  <2>1. request'.meta = NoRow.meta
    BY <1>1 DEF EvaluateCommit
  <2> QED
    BY <1>1, <2>1, CommitOutsideLock DEF EvaluateCommit, AtDecide, AnchorCopied
<1>2. CASE EvaluateDuplicate(t) \/ VerifyReport(t)
  BY <1>2, CommitOutsideLock DEF EvaluateDuplicate, VerifyReport, AtDecide, AnchorCopied
<1>3. ASSUME NEW kind \in ReviewKinds, ReviewCommit(t, kind)
      PROVE  OutsideLock(t) /\ AnchorCopied(t)
  <2>1. request'.meta = request.meta
    BY <1>3 DEF ReviewCommit, TypeOK, Rows
  <2> QED
    BY <1>3, <2>1, CommitOutsideLock DEF ReviewCommit, AtDecide, AnchorCopied
<1>4. ASSUME NEW kind \in ReviewKinds, ReviewBlocked(t, kind)
      PROVE  OutsideLock(t) /\ AnchorCopied(t)
  BY <1>4, CommitOutsideLock DEF ReviewBlocked, AtDecide, AnchorCopied
<1>5. CASE ExecuteReplay(t) \/ ExecuteBlocked(t) \/ View(t)
  BY <1>5, CommitOutsideLock DEF ExecuteReplay, ExecuteBlocked, View, AtDecide, AnchorCopied
<1>6. CASE ExecuteCommit(t)
  <2>1. request'.meta = [seen[t].meta EXCEPT !.result = TRUE]
    BY <1>6 DEF ExecuteCommit, ExecutedRow, TypeOK, Rows
  <2>2. request'.meta.head = seen[t].meta.head /\ request'.meta.count = seen[t].meta.count
    BY <2>1 DEF TypeOK, Rows, Metadata
  <2> QED
    BY <1>6, <2>2, CommitOutsideLock DEF ExecuteCommit, AtDecide, AnchorCopied
<1>7. ASSUME NEW j \in Job, QueueBlocked(t, j)
      PROVE  OutsideLock(t) /\ AnchorCopied(t)
  BY <1>7, CommitOutsideLock DEF QueueBlocked, AtDecide, AnchorCopied
<1>8. ASSUME NEW j \in Job, QueueCommit(t, j)
      PROVE  OutsideLock(t) /\ AnchorCopied(t)
  <2>1. request'.meta = request.meta
    BY <1>8 DEF QueueCommit, TypeOK, Rows
  <2> QED
    BY <1>8, <2>1, CommitOutsideLock DEF QueueCommit, AtDecide, AnchorCopied
<1>9. CASE ClaimCommit(t) \/ FailCommit(t)
  BY <1>9, CommitOutsideLock DEF ClaimCommit, FailCommit, AtDecide, AnchorCopied
<1>10. CASE CompleteLoad(t) \/ Reload(t)
  <2>1. AnchorCopied(t)
    BY <1>10 DEF CompleteLoad, Reload, AnchorCopied
  <2> QED
    BY <1>10, <2>1 DEF CompleteLoad, Reload, AtDecide, OutsideLock, Places
<1>11. CASE CompleteCommit(t)
  <2>1. request'.meta = request.meta
    BY <1>11 DEF CompleteCommit, TypeOK, Rows
  <2> QED
    BY <1>11, <2>1, CommitOutsideLock DEF CompleteCommit, AnchorCopied
<1> QED
  BY <1>1, <1>2, <1>3, <1>4, <1>5, <1>6, <1>7, <1>8, <1>9, <1>10, <1>11 DEF Step

LEMMA OutsideLockKeepsLedger ==
  ASSUME TypeInv, LedgerInv, NEW t \in Thread, OutsideLock(t), AnchorCopied(t)
  PROVE  LedgerInv'
<1> USE DEF TypeInv
<1>1. LockOwner' /\ TailCurrent'
  BY DEF LedgerInv, OutsideLock, LockOwner, TailCurrent, TypeOK
<1>2. ChainLinked'
  BY DEF LedgerInv, OutsideLock, ChainLinked
<1>3. AnchorBehind(NoRow.meta) /\ AnchorBehind(request.meta) /\ AnchorBehind(seen[t].meta)
  BY DEF LedgerInv, AnchorsBehind, AnchorBehind, NoRow, TypeOK
<1>4. AnchorsBehind'
  BY <1>3 DEF LedgerInv, OutsideLock, AnchorCopied, AnchorsBehind, AnchorBehind, TypeOK
<1> QED
  BY <1>1, <1>2, <1>4 DEF LedgerInv

LEMMA LedgerStep == TypeInv /\ LedgerInv /\ [Next]_vars => LedgerInv'
<1> SUFFICES ASSUME TypeInv, LedgerInv, [Next]_vars PROVE LedgerInv'
  OBVIOUS
<1> USE DEF TypeInv
<1>1. ASSUME NEW t \in Thread, NEW kind \in Kinds, NEW j \in Job \cup {NoJob}, Receive(t, kind, j)
      PROVE  LedgerInv'
  <2>1. OutsideLock(t) /\ AnchorCopied(t)
    BY <1>1 DEF Receive, OutsideLock, AnchorCopied, Places
  <2> QED
    BY <2>1, OutsideLockKeepsLedger
<1>2. ASSUME NEW t \in Thread, Step(t), ~TakeLock(t), ~AppendEvent(t)
      PROVE  LedgerInv'
  BY <1>2, StepOutsideLock, OutsideLockKeepsLedger
<1>3. ASSUME NEW t \in Thread, TakeLock(t)
      PROVE  LedgerInv'
  <2>1. LockOwner' /\ TailCurrent'
    BY <1>3, RuntimeAssumption
       DEF TakeLock, RequestLockFree, LedgerInv, LockOwner, TailCurrent, TypeOK
  <2>2. ChainLinked'
    BY <1>3 DEF TakeLock, LedgerInv, ChainLinked
  <2>3. AnchorsBehind'
    BY <1>3 DEF TakeLock, LedgerInv, AnchorsBehind, AnchorBehind, TypeOK
  <2> QED
    BY <2>1, <2>2, <2>3 DEF LedgerInv
<1>4. ASSUME NEW t \in Thread, AppendEvent(t)
      PROVE  LedgerInv'
  <2> DEFINE e == [kind |-> Head(events[t]), prev |-> tail[t]]
  <2>1. ledger' = Append(ledger, e) /\ ledger \in Seq(Events) /\ Len(ledger) \in Nat
    BY <1>4 DEF AppendEvent, TypeOK
  <2>2. e \in Events /\ e.prev = Len(ledger)
    BY <1>4, HeadTailProperties DEF AppendEvent, LedgerInv, TailCurrent, TypeOK, Events, EventsOwed
  <2> HIDE DEF e
  <2>3. /\ Len(ledger') = Len(ledger) + 1
        /\ \A i \in 1..Len(ledger) : ledger'[i] = ledger[i]
        /\ ledger'[Len(ledger) + 1] = e
    BY <2>1, <2>2, AppendProperties
  <2>4. ChainLinked'
    BY <2>1, <2>2, <2>3 DEF LedgerInv, ChainLinked
  <2>5. lock' = NoThread /\ \E place \in {"idle", "record"} : pc' = [pc EXCEPT ![t] = place]
    BY <1>4 DEF AppendEvent, RequestLockReleased, Return, RecordExpired
  <2>6. lock = t
    BY <1>4 DEF AppendEvent, LedgerInv, LockOwner
  <2>7. LockOwner' /\ TailCurrent'
    <3>1. \A u \in Thread : pc'[u] # "append"
      BY <2>5, <2>6 DEF LedgerInv, LockOwner, TypeOK
    <3> QED
      BY <2>5, <3>1, RuntimeAssumption DEF LockOwner, TailCurrent
  <2>8. AnchorBehind(request.meta)' /\ AnchorBehind(NoRow.meta)'
    <3>1. request'.meta = HeadAnchor(seen[t].meta)
      BY <1>4 DEF AppendEvent, TypeOK, Rows
    <3>2. request'.meta.head = Len(ledger) + 1 /\ request'.meta.count = Len(ledger) + 1
      BY <3>1 DEF HeadAnchor, TypeOK, Rows, Metadata
    <3> QED
      BY <2>1, <2>3, <3>2 DEF AnchorBehind, NoRow
  <2>9. seen' = [seen EXCEPT ![t] = NoRow]
    BY <1>4 DEF AppendEvent, Return, RecordExpired
  <2>10. AnchorsBehind'
    <3>1. ASSUME NEW u \in Thread
          PROVE  AnchorBehind(seen[u].meta)'
      <4>1. CASE u = t
        BY <2>8, <2>9, <4>1 DEF TypeOK, AnchorBehind
      <4>2. CASE u # t
        <5>1. seen'[u] = seen[u] /\ seen[u].meta.count \in Nat
          BY <2>9, <4>2 DEF TypeOK, Rows, Metadata
        <5> QED
          BY <2>1, <2>3, <5>1 DEF LedgerInv, AnchorsBehind, AnchorBehind
      <4> QED
        BY <4>1, <4>2
    <3> QED
      BY <2>8, <3>1 DEF AnchorsBehind
  <2> QED
    BY <2>4, <2>7, <2>10 DEF LedgerInv
<1>5. ASSUME NEW t \in Thread, Abort(t)
      PROVE  LedgerInv'
  <2>1. LockOwner' /\ TailCurrent'
    BY <1>5, RuntimeAssumption
       DEF Abort, Return, LedgerInv, LockOwner, TailCurrent, TypeOK
  <2>2. ChainLinked'
    BY <1>5 DEF Abort, LedgerInv, ChainLinked
  <2>3. AnchorsBehind'
    BY <1>5 DEF Abort, Return, LedgerInv, AnchorsBehind, AnchorBehind, TypeOK, NoRow
  <2> QED
    BY <2>1, <2>2, <2>3 DEF LedgerInv
<1>6. ASSUME EditConditions
      PROVE  LedgerInv'
  <2>1. request'.meta = request.meta
    BY <1>6 DEF EditConditions, TypeOK, Rows
  <2> QED
    BY <1>6, <2>1 DEF EditConditions, session, LedgerInv, LockOwner, TailCurrent,
                      ChainLinked, AnchorsBehind, AnchorBehind
<1>7. CASE UNCHANGED vars
  BY <1>7 DEF vars, session, LedgerInv, LockOwner, TailCurrent, ChainLinked,
              AnchorsBehind, AnchorBehind
<1> QED
  BY <1>1, <1>2, <1>3, <1>4, <1>5, <1>6, <1>7 DEF Next

LEMMA LedgerInit == Init => LedgerInv
BY RuntimeAssumption
   DEF Init, LedgerInv, LockOwner, TailCurrent, ChainLinked, AnchorsBehind, AnchorBehind, NoRow

LEMMA LedgerInvariant == Spec => [](TypeInv /\ LedgerInv)
<1>1. Init => TypeInv /\ LedgerInv
  BY TypeInit, LedgerInit
<1>2. TypeInv /\ LedgerInv /\ [Next]_vars => (TypeInv /\ LedgerInv)'
  BY TypeStep, LedgerStep
<1> QED
  BY <1>1, <1>2, PTL DEF Spec

\* However many handlers record at once, and wherever they die, the ledger of
\* the request stays one chain.
THEOREM ChainStaysLinked == Spec => []ChainLinked
<1>1. LedgerInv => ChainLinked
  BY DEF LedgerInv
<1> QED
  BY <1>1, LedgerInvariant, PTL

\* The head anchor never names an event that is not in the ledger, nor a count
\* that is not its own position.
THEOREM AnchorStaysBehind == Spec => []AnchorNeverAhead
<1>1. LedgerInv => AnchorNeverAhead
  BY DEF LedgerInv, AnchorsBehind, AnchorBehind, AnchorNeverAhead
<1> QED
  BY <1>1, LedgerInvariant, PTL

\* Events are recorded one at a time and never change: a step leaves the ledger
\* as it is or adds one event that names the hash of the last.
LedgerExtends ==
  [][ledger' # ledger =>
       \E e \in Events : ledger' = Append(ledger, e) /\ e.prev = Len(ledger)]_vars

THEOREM LedgerOnlyGrows == Spec => LedgerExtends
<1>1. TypeInv /\ LedgerInv /\ [Next]_vars
        => [ledger' # ledger =>
              \E e \in Events : ledger' = Append(ledger, e) /\ e.prev = Len(ledger)]_vars
  <2> SUFFICES ASSUME TypeInv, LedgerInv, Next, ledger' # ledger
               PROVE  \E e \in Events : ledger' = Append(ledger, e) /\ e.prev = Len(ledger)
    BY DEF vars
  <2>1. PICK t \in Thread : AppendEvent(t)
    BY StepOutsideLock DEF Next, Receive, Abort, EditConditions, OutsideLock, TakeLock
  <2> DEFINE e == [kind |-> Head(events[t]), prev |-> tail[t]]
  <2>2. ledger' = Append(ledger, e)
    BY <2>1 DEF AppendEvent
  <2>3. e \in Events /\ e.prev = Len(ledger)
    BY <2>1, HeadTailProperties DEF AppendEvent, LedgerInv, TailCurrent, TypeInv, TypeOK, Events, EventsOwed
  <2> QED
    BY <2>2, <2>3
<1> QED
  BY <1>1, LedgerInvariant, PTL DEF Spec, LedgerExtends

-----------------------------------------------------------------------------
(* The release gate.  A copy of the row that a handler decides on may be   *)
(* out of date, but what it permits stays permitted: the decision is final *)
(* and an approval is not forgotten.  So it is enough that every status,   *)
(* copy, job and call that can lead to a release was cleared at some time. *)

Releasing == Executable \cup {"queued_for_execution", "executed"}

Cleared == \/ decision.outcome = "ADMIT"
           \/ decision.outcome \in {"HOLD", "ESCALATE"} /\ approved

DecisionPaired     == decision.outcome = "NONE" <=> request.status = "none"
PendingIsEscalated == request.status = "pending_approval" => decision.outcome = "ESCALATE"
ApprovedNotRefused == approved => decision.outcome \in {"ADMIT", "HOLD", "ESCALATE"}
RowCleared    == request.status \in Releasing => Cleared
CopiesCleared == \A t \in Thread : seen[t].status \in Releasing => Cleared
JobsCleared   == \A j \in Job : job[j] \notin {"ABSENT", "BLOCKED"} => Cleared
WorkCleared   == \A t \in Thread : (pc[t] = "complete" \/ (pc[t] = "decide" /\ call[t] \in JobKinds))
                                    => Cleared
CallsDecided  == \A t \in Thread : (pc[t] = "decide" /\ call[t] # "evaluate")
                                    => decision.outcome # "NONE"

GateInv ==
  /\ DecisionPaired /\ PendingIsEscalated /\ ApprovedNotRefused
  /\ RowCleared /\ CopiesCleared /\ JobsCleared /\ WorkCleared /\ CallsDecided
  /\ released => Cleared

\* What is stored stays: a decision is not replaced, an approval is not undone.
Lasting ==
  /\ decision.outcome # "NONE" => decision' = decision
  /\ approved => approved'

LEMMA DecisionLasts == TypeOK /\ GateInv /\ [Next]_vars => Lasting
<1> SUFFICES ASSUME TypeOK, GateInv, [Next]_vars PROVE Lasting
  OBVIOUS
<1>0. approved \in BOOLEAN
  BY DEF TypeOK
<1>1. ASSUME NEW t \in Thread, Step(t) PROVE Lasting
  <2>1. CASE EvaluateCommit(t)
    BY <1>0, <2>1 DEF EvaluateCommit, PrimaryKeyFree, GateInv, DecisionPaired, Lasting
  <2>2. CASE \E kind \in ReviewKinds : ReviewCommit(t, kind) \/ ReviewBlocked(t, kind)
    BY <1>0, <2>2 DEF ReviewCommit, ReviewBlocked, Lasting
  <2>3. CASE \E j \in Job : QueueBlocked(t, j) \/ QueueCommit(t, j)
    BY <1>0, <2>3 DEF QueueBlocked, QueueCommit, Lasting
  <2> QED
    BY <1>0, <1>1, <2>1, <2>2, <2>3
       DEF Step, EvaluateDuplicate, ExecuteReplay, ExecuteBlocked, ExecuteCommit, View,
           VerifyReport, ClaimCommit, CompleteLoad, CompleteCommit, FailCommit, Reload,
           TakeLock, AppendEvent, Lasting
<1>2. ASSUME NEW t \in Thread, NEW kind \in Kinds, NEW j \in Job \cup {NoJob}, Receive(t, kind, j)
      PROVE  Lasting
  BY <1>0, <1>2 DEF Receive, Lasting
<1>3. ASSUME NEW t \in Thread, Abort(t) PROVE Lasting
  BY <1>0, <1>3 DEF Abort, Lasting
<1>4. CASE EditConditions
  BY <1>0, <1>4 DEF EditConditions, Lasting
<1>5. CASE UNCHANGED vars
  BY <1>0, <1>5 DEF vars, Lasting
<1> QED
  BY <1>1, <1>2, <1>3, <1>4, <1>5 DEF Next

LEMMA ClearedLasts == Lasting /\ Cleared => Cleared'
BY DEF Lasting, Cleared

\* A handler leaves the point where it decides, with a copy it may have had.
SessionMoved(t) ==
  /\ \E row \in {request, NoRow, seen[t]} : seen' = [seen EXCEPT ![t] = row]
  /\ \E place \in Places \ {"decide", "complete"} : pc' = [pc EXCEPT ![t] = place]
  /\ \A u \in Thread \ {t} : call'[u] = call[u] /\ on'[u] = on[u]

LEMMA CommitMovesSession ==
  ASSUME TypeOK, NEW t \in Thread, NEW kinds,
         \/ Return(t)
         \/ RecordCached(t, kinds)
         \/ RecordExpired(t, kinds)
         \/ RecordReloaded(t, kinds)
  PROVE  SessionMoved(t)
<1>1. CASE Return(t)
  BY <1>1 DEF TypeOK, Return, SessionMoved, Places
<1>2. CASE RecordCached(t, kinds)
  BY <1>2 DEF TypeOK, RecordCached, SessionMoved, Places
<1>3. CASE RecordExpired(t, kinds)
  BY <1>3 DEF TypeOK, RecordExpired, SessionMoved, Places
<1>4. CASE RecordReloaded(t, kinds)
  BY <1>4 DEF TypeOK, RecordReloaded, SessionMoved, Places
<1> QED
  BY <1>1, <1>2, <1>3, <1>4

LEMMA StepMovesSession ==
  ASSUME TypeOK, NEW t \in Thread, Step(t), ~CompleteLoad(t)
  PROVE  SessionMoved(t)
<1>1. CASE \E kind \in ReviewKinds : ReviewCommit(t, kind) \/ ReviewBlocked(t, kind)
  BY <1>1, CommitMovesSession DEF ReviewCommit, ReviewBlocked
<1>2. CASE \E j \in Job : QueueBlocked(t, j) \/ QueueCommit(t, j)
  BY <1>2, CommitMovesSession DEF QueueBlocked, QueueCommit
<1>3. CASE Reload(t) \/ TakeLock(t)
  BY <1>3 DEF Reload, TakeLock, SessionMoved, Places
<1>4. CASE AppendEvent(t)
  BY <1>4, CommitMovesSession DEF AppendEvent
<1> QED
  BY <1>1, <1>2, <1>3, <1>4, CommitMovesSession
     DEF Step, EvaluateCommit, EvaluateDuplicate, ExecuteReplay, ExecuteBlocked,
         ExecuteCommit, View, VerifyReport, ClaimCommit, CompleteCommit, FailCommit

\* Moving a session needs no clearance that was not there.
LEMMA MovedSessionCleared ==
  ASSUME TypeOK, GateInv, Lasting, NEW t \in Thread, SessionMoved(t)
  PROVE  CopiesCleared' /\ WorkCleared' /\ CallsDecided'
<1>1. ASSUME NEW u \in Thread, seen'[u].status \in Releasing
      PROVE  Cleared'
  <2>1. seen'[u] \in {request, NoRow, seen[u]}
    BY DEF SessionMoved, TypeOK
  <2>2. NoRow.status \notin Releasing
    BY DEF NoRow, Releasing, Executable
  <2> QED
    BY <1>1, <2>1, <2>2, ClearedLasts DEF GateInv, RowCleared, CopiesCleared
<1>2. WorkCleared'
  BY ClearedLasts DEF SessionMoved, TypeOK, GateInv, WorkCleared
<1>3. CallsDecided'
  BY DEF SessionMoved, TypeOK, GateInv, CallsDecided, Lasting
<1> QED
  BY <1>1, <1>2, <1>3 DEF CopiesCleared

LEMMA GateInit == Init => GateInv
BY RuntimeAssumption
   DEF Init, GateInv, NoRow, NoDecision, Result, DecisionPaired, PendingIsEscalated,
       ApprovedNotRefused, RowCleared, CopiesCleared, JobsCleared, WorkCleared,
       CallsDecided, Releasing, Executable

\* The conjuncts about what is stored, without the sessions.
StoredInv ==
  /\ DecisionPaired /\ PendingIsEscalated /\ ApprovedNotRefused
  /\ RowCleared /\ JobsCleared
  /\ released => Cleared

\* A step that leaves the decision, the reviews, the jobs and the status alone.
LEMMA QuietKeepsStored ==
  ASSUME StoredInv, UNCHANGED <<decision, job, approved, released>>,
         request'.status = request.status
  PROVE  StoredInv'
BY DEF StoredInv, DecisionPaired, PendingIsEscalated, ApprovedNotRefused, RowCleared,
       JobsCleared, Cleared

\* A step that releases: the row, a job or the history says so, and it is cleared.
LEMMA ReleaseKeepsStored ==
  ASSUME StoredInv, Cleared, UNCHANGED <<decision, approved>>,
         request'.status \in Statuses \ {"none", "pending_approval"}
  PROVE  StoredInv'
BY DEF StoredInv, DecisionPaired, PendingIsEscalated, ApprovedNotRefused, RowCleared,
       JobsCleared, Cleared

LEMMA StoredStep ==
  ASSUME TypeOK, GateInv, Lasting, NEW t \in Thread, Step(t)
  PROVE  StoredInv'
<1>0. StoredInv /\ request \in Rows /\ request.status \in Statuses
  BY DEF GateInv, StoredInv, TypeOK, Rows
<1>1. CASE EvaluateCommit(t)
  <2>1. PICK c \in Submissions :
          /\ decision' = Evaluate(c)
          /\ request'  = [status |-> LifecycleStatus(Evaluate(c).outcome),
                          conditions |-> c, meta |-> NoRow.meta]
    BY <1>1 DEF EvaluateCommit
  <2>2. Evaluate(c) \in Results
    BY RuntimeAssumption, EvaluateType
  <2>3. decision'.outcome \in Outcomes /\ request'.status = LifecycleStatus(decision'.outcome)
    BY <2>1, <2>2 DEF Results
  <2>4. decision.outcome = "NONE" /\ ~Cleared /\ UNCHANGED <<job, approved, released>>
    BY <1>0, <1>1 DEF EvaluateCommit, PrimaryKeyFree, StoredInv, DecisionPaired, Cleared
  <2>5. ~approved /\ ~released /\ \A j \in Job : job[j] \in {"ABSENT", "BLOCKED"}
    BY <1>0, <2>4 DEF StoredInv, ApprovedNotRefused, JobsCleared
  <2> QED
    BY <2>3, <2>4, <2>5
       DEF LifecycleStatus, Outcomes, StoredInv, DecisionPaired, PendingIsEscalated,
           ApprovedNotRefused, RowCleared, JobsCleared, Cleared, Releasing, Executable
<1>2. ASSUME NEW kind \in ReviewKinds, ReviewCommit(t, kind)
      PROVE  StoredInv'
  <2>1. /\ decision.outcome # "NONE" /\ decision' = decision
        /\ request.status # "none"
        /\ approved' = (approved \/ kind = "approve")
        /\ UNCHANGED <<job, released>>
    BY <1>0, <1>2 DEF ReviewCommit, AtDecide, ReviewKinds, GateInv, CallsDecided, StoredInv, DecisionPaired
  <2>2. request'.status = request.status \/ request'.status = ReviewStatus(kind)
    BY <1>0, <1>2 DEF ReviewCommit, Rows
  <2>3. decision.outcome \in Outcomes
    BY <2>1 DEF TypeOK, Results, NoDecision, Result
  <2>4. CASE kind = "approve"
    <3>1. decision.outcome \in {"ADMIT", "HOLD", "ESCALATE"} /\ Cleared' /\ approved'
      BY <1>2, <2>1, <2>3, <2>4 DEF ReviewCommit, ReviewAccepts, Outcomes, Cleared
    <3> QED
      BY <1>0, <2>1, <2>2, <2>4, <3>1
         DEF ReviewStatus, StoredInv, DecisionPaired, PendingIsEscalated, ApprovedNotRefused,
             RowCleared, JobsCleared
  <2>5. CASE kind # "approve"
    <3>1. approved' = approved /\ (Cleared' <=> Cleared)
      BY <2>1, <2>5 DEF Cleared, TypeOK
    <3>2. request'.status = request.status
            \/ request'.status \in {"waiting_for_review", "pending_higher_authority", "closed_not_released"}
      BY <2>2, <2>5 DEF ReviewStatus, ReviewKinds
    <3> QED
      BY <1>0, <2>1, <3>1, <3>2
         DEF StoredInv, DecisionPaired, PendingIsEscalated, ApprovedNotRefused,
             RowCleared, JobsCleared, Releasing, Executable
  <2> QED
    BY <2>4, <2>5
<1>3. CASE ExecuteCommit(t)
  <2>1. seen[t].status \in Executable
    BY <1>3 DEF ExecuteCommit, FinalExecutionError
  <2>2. Cleared
    BY <2>1 DEF GateInv, CopiesCleared, Releasing
  <2>3. request'.status = "executed" /\ UNCHANGED <<decision, approved>>
    BY <1>0, <1>3 DEF ExecuteCommit, ExecutedRow, Rows
  <2> QED
    BY <1>0, <2>2, <2>3, ReleaseKeepsStored DEF Statuses
<1>4. ASSUME NEW j \in Job, QueueCommit(t, j)
      PROVE  StoredInv'
  <2>1. Cleared
    BY <1>4 DEF QueueCommit, QueueAccepts, GateInv, CopiesCleared, Releasing
  <2>2. request'.status = "queued_for_execution" /\ UNCHANGED <<decision, approved>>
    BY <1>0, <1>4 DEF QueueCommit, Rows
  <2> QED
    BY <1>0, <2>1, <2>2, ReleaseKeepsStored DEF Statuses
<1>5. ASSUME NEW j \in Job, QueueBlocked(t, j)
      PROVE  StoredInv'
  BY <1>0, <1>5
     DEF QueueBlocked, TypeOK, StoredInv, DecisionPaired, PendingIsEscalated,
         ApprovedNotRefused, RowCleared, JobsCleared, Cleared
<1>6. CASE ClaimCommit(t) \/ FailCommit(t)
  <2>1. Cleared
    BY <1>6 DEF ClaimCommit, FailCommit, AtDecide, JobKinds, GateInv, WorkCleared
  <2> QED
    BY <1>0, <1>6, <2>1
       DEF ClaimCommit, FailCommit, StoredInv, DecisionPaired, PendingIsEscalated,
           ApprovedNotRefused, RowCleared, JobsCleared, Cleared
<1>7. CASE CompleteCommit(t)
  <2>1. Cleared
    BY <1>7 DEF CompleteCommit, GateInv, WorkCleared
  <2>2. UNCHANGED <<decision, approved>>
    BY <1>7 DEF CompleteCommit
  <2>3. request'.status = request.status \/ request'.status = "executed"
    BY <1>0, <1>7 DEF CompleteCommit, Rows
  <2> QED
    BY <1>0, <2>1, <2>2, <2>3
       DEF StoredInv, DecisionPaired, PendingIsEscalated, ApprovedNotRefused,
           RowCleared, JobsCleared, Cleared
<1>8. CASE AppendEvent(t)
  <2>1. request'.status = request.status
    BY <1>0, <1>8 DEF AppendEvent, Rows
  <2> QED
    BY <1>0, <1>8, <2>1, QuietKeepsStored DEF AppendEvent
<1> QED
  BY <1>0, <1>1, <1>2, <1>3, <1>4, <1>5, <1>6, <1>7, <1>8, QuietKeepsStored
     DEF Step, EvaluateDuplicate, ReviewBlocked, ExecuteReplay, ExecuteBlocked, View,
         VerifyReport, CompleteLoad, Reload, TakeLock

LEMMA GateStep == TypeOK /\ GateInv /\ [Next]_vars => GateInv'
<1> SUFFICES ASSUME TypeOK, GateInv, [Next]_vars PROVE GateInv'
  OBVIOUS
<1>0. Lasting /\ StoredInv /\ request \in Rows
  BY DecisionLasts DEF GateInv, StoredInv, TypeOK
<1>1. ASSUME NEW t \in Thread, NEW kind \in Kinds, NEW j \in Job \cup {NoJob}, Receive(t, kind, j)
      PROVE  GateInv'
  <2>1. StoredInv'
    BY <1>0, <1>1, QuietKeepsStored DEF Receive
  <2>2. /\ pc' = [pc EXCEPT ![t] = "decide"] /\ call' = [call EXCEPT ![t] = kind]
        /\ \E row \in {request, NoRow} : seen' = [seen EXCEPT ![t] = row]
        /\ UNCHANGED <<decision, approved>>
    BY <1>1 DEF Receive
  <2>3. CopiesCleared'
    BY <2>2 DEF TypeOK, GateInv, RowCleared, CopiesCleared, Cleared, NoRow, Releasing, Executable
  <2>4. kind \in JobKinds => Cleared
    BY <1>1 DEF Receive, JobAccepts, GateInv, JobsCleared
  <2>5. WorkCleared'
    BY <2>2, <2>4 DEF TypeOK, GateInv, WorkCleared, Cleared
  <2>6. kind # "evaluate" => decision.outcome # "NONE"
    BY <1>1 DEF Receive, GateInv, DecisionPaired
  <2>7. CallsDecided'
    BY <2>2, <2>6 DEF TypeOK, GateInv, CallsDecided
  <2> QED
    BY <2>1, <2>3, <2>5, <2>7 DEF GateInv, StoredInv
<1>2. ASSUME NEW t \in Thread, Step(t), ~CompleteLoad(t)
      PROVE  GateInv'
  <2>1. CopiesCleared' /\ WorkCleared' /\ CallsDecided'
    BY <1>0, <1>2, StepMovesSession, MovedSessionCleared
  <2>2. StoredInv'
    BY <1>0, <1>2, StoredStep
  <2> QED
    BY <2>1, <2>2 DEF GateInv, StoredInv
<1>3. ASSUME NEW t \in Thread, CompleteLoad(t)
      PROVE  GateInv'
  <2>1. StoredInv'
    BY <1>0, <1>3, QuietKeepsStored DEF CompleteLoad
  <2>2. Cleared
    BY <1>3 DEF CompleteLoad, AtDecide, JobKinds, GateInv, WorkCleared
  <2>3. CopiesCleared' /\ WorkCleared'
    BY <1>3, <2>2 DEF CompleteLoad, CopiesCleared, WorkCleared, Cleared
  <2>4. CallsDecided'
    BY <1>3 DEF CompleteLoad, TypeOK, GateInv, CallsDecided
  <2> QED
    BY <2>1, <2>3, <2>4 DEF GateInv, StoredInv
<1>4. ASSUME NEW t \in Thread, Abort(t)
      PROVE  GateInv'
  <2>1. StoredInv'
    BY <1>0, <1>4, QuietKeepsStored DEF Abort
  <2>2. CopiesCleared' /\ WorkCleared' /\ CallsDecided'
    BY <1>0, <1>4, CommitMovesSession, MovedSessionCleared DEF Abort
  <2> QED
    BY <2>1, <2>2 DEF GateInv, StoredInv
<1>5. CASE EditConditions
  <2>1. request'.status = request.status
    BY <1>0, <1>5 DEF EditConditions, Rows
  <2>2. StoredInv'
    BY <1>0, <1>5, <2>1, QuietKeepsStored DEF EditConditions
  <2> QED
    BY <1>5, <2>2 DEF EditConditions, session, GateInv, StoredInv, CopiesCleared,
                      WorkCleared, CallsDecided, Cleared
<1>6. CASE UNCHANGED vars
  BY <1>6 DEF vars, session, GateInv, DecisionPaired, PendingIsEscalated, ApprovedNotRefused,
              RowCleared, CopiesCleared, JobsCleared, WorkCleared, CallsDecided, Cleared
<1> QED
  BY <1>1, <1>2, <1>3, <1>4, <1>5, <1>6 DEF Next

LEMMA GateInvariant == Spec => [](TypeOK /\ GateInv)
<1>1. Init => GateInv
  BY GateInit
<1>2. TypeOK /\ GateInv /\ [Next]_vars => GateInv'
  BY GateStep
<1> QED
  BY <1>1, <1>2, TypeCorrect, PTL DEF Spec

\* A refused request is never executable, queued, given to a worker, approved
\* or executed, for any number of handlers, jobs and reviews.
THEOREM RefusedIsNeverReleased == Spec => []RefusedNeverReleased
<1>1. TypeOK /\ GateInv => RefusedNeverReleased
  <2> SUFFICES ASSUME TypeOK, GateInv, decision.outcome = "REFUSE"
               PROVE  /\ request.status \in {"closed_not_released", "waiting_for_review", "pending_higher_authority"}
                      /\ \A j \in Job : job[j] \in {"ABSENT", "BLOCKED"}
                      /\ ~approved /\ ~released
    BY DEF RefusedNeverReleased
  <2>1. ~approved /\ ~Cleared
    BY DEF GateInv, ApprovedNotRefused, Cleared
  <2>2. request.status \in Statuses \ (Releasing \cup {"none", "pending_approval"})
    BY <2>1 DEF TypeOK, Rows, GateInv, RowCleared, DecisionPaired, PendingIsEscalated
  <2> QED
    BY <2>1, <2>2 DEF GateInv, JobsCleared, Statuses, Releasing, Executable
<1> QED
  BY <1>1, GateInvariant, PTL

\* A held or escalated request is executable, queued, worked on or executed
\* only after an approving review was committed.
THEOREM ReleaseIsApproved == Spec => []ReleaseNeedsApproval
<1>1. TypeOK /\ GateInv => ReleaseNeedsApproval
  BY DEF GateInv, RowCleared, JobsCleared, Cleared, Releasing, ReleaseNeedsApproval
<1> QED
  BY <1>1, GateInvariant, PTL

\* A stored decision is never replaced: two submissions of one request id
\* leave the decision of the first.
THEOREM DecisionStaysFinal == Spec => DecisionIsFinal
<1>1. TypeOK /\ GateInv /\ [Next]_vars => [decision # NoDecision => decision' = decision]_vars
  <2> SUFFICES ASSUME TypeOK, GateInv, [Next]_vars, decision # NoDecision
               PROVE  decision' = decision
    OBVIOUS
  <2>1. decision.outcome # "NONE"
    BY DEF TypeOK, Results, Outcomes
  <2> QED
    BY <2>1, DecisionLasts DEF Lasting
<1> QED
  BY <1>1, GateInvariant, PTL DEF Spec, DecisionIsFinal

-----------------------------------------------------------------------------
(* Jobs.  The claim, complete and fail routes test a job that they then     *)
(* change in another step, so two of them may both take it; but the job     *)
(* they tested was queued, and what was queued is never blocked again.      *)

\* The calls of workers that have tested their job and not yet changed it.
WorksOn(t)   == pc[t] = "complete" \/ (pc[t] = "decide" /\ call[t] \in JobKinds)
Completes(t) == pc[t] = "complete" \/ (pc[t] = "decide" /\ call[t] = "complete")

\* A job that runs or is completed has the worker that claimed it.
JobsClaimed == \A j \in Job : job[j] \in {"RUNNING", "COMPLETED"} => worker[j] \in Thread

JobCallsInv ==
  /\ JobsClaimed
  /\ \A t \in Thread : /\ WorksOn(t)   => on[t] \in Job /\ job[on[t]] \in Worked
                       /\ Completes(t) => worker[on[t]] \in Thread

LEMMA JobStep ==
  ASSUME TypeOK, JobCallsInv, NEW t \in Thread, Step(t)
  PROVE  JobsMoveOn /\ JobsClaimed'
<1> DEFINE Goal == JobsMoveOn /\ JobsClaimed'
<1>0. /\ job \in [Job -> JobStatuses] /\ worker \in [Job -> Thread \cup {NoThread}]
      /\ JobsClaimed
      /\ WorksOn(t) => on[t] \in Job /\ job[on[t]] \in Worked
      /\ Completes(t) => worker[on[t]] \in Thread
  BY DEF TypeOK, JobCallsInv
<1>1. CASE UNCHANGED <<job, worker>>
  BY <1>0, <1>1 DEF JobsMoveOn, JobsClaimed, Worked
<1>2. ASSUME NEW j \in Job, QueueBlocked(t, j) \/ QueueCommit(t, j) PROVE Goal
  <2>1. /\ job[j] = "ABSENT" /\ UNCHANGED worker
        /\ job' = [job EXCEPT ![j] = "BLOCKED"] \/ job' = [job EXCEPT ![j] = "QUEUED"]
    BY <1>2 DEF QueueBlocked, QueueCommit
  <2> QED
    BY <1>0, <2>1 DEF JobsMoveOn, JobsClaimed, Worked
<1>3. CASE ClaimCommit(t)
  <2>1. /\ on[t] \in Job /\ job[on[t]] \in Worked
        /\ job' = [job EXCEPT ![on[t]] = "RUNNING"]
        /\ worker' = [worker EXCEPT ![on[t]] = t]
    BY <1>0, <1>3 DEF ClaimCommit, AtDecide, WorksOn, JobKinds
  <2> QED
    BY <1>0, <2>1 DEF JobsMoveOn, JobsClaimed, Worked
<1>4. CASE CompleteCommit(t)
  <2>1. /\ on[t] \in Job /\ job[on[t]] \in Worked /\ worker[on[t]] \in Thread
        /\ job' = [job EXCEPT ![on[t]] = "COMPLETED"] /\ UNCHANGED worker
    BY <1>0, <1>4 DEF CompleteCommit, WorksOn, Completes
  <2> QED
    BY <1>0, <2>1 DEF JobsMoveOn, JobsClaimed, Worked
<1>5. CASE FailCommit(t)
  <2>1. /\ on[t] \in Job /\ job[on[t]] \in Worked
        /\ job' = [job EXCEPT ![on[t]] = "FAILED"] /\ UNCHANGED worker
    BY <1>0, <1>5 DEF FailCommit, AtDecide, WorksOn, JobKinds
  <2> QED
    BY <1>0, <2>1 DEF JobsMoveOn, JobsClaimed, Worked
<1> QED
  BY <1>1, <1>2, <1>3, <1>4, <1>5
     DEF Step, EvaluateCommit, EvaluateDuplicate, ReviewCommit, ReviewBlocked, ExecuteReplay,
         ExecuteBlocked, ExecuteCommit, View, VerifyReport, CompleteLoad, Reload, TakeLock, AppendEvent

LEMMA JobCallsStep == TypeOK /\ JobCallsInv /\ [Next]_vars => JobsMoveOn /\ JobCallsInv'
<1> SUFFICES ASSUME TypeOK, JobCallsInv, [Next]_vars PROVE JobsMoveOn /\ JobCallsInv'
  OBVIOUS
<1>0. /\ job \in [Job -> JobStatuses] /\ worker \in [Job -> Thread \cup {NoThread}]
      /\ pc \in [Thread -> Places] /\ call \in [Thread -> AllKinds \cup {"none"}]
      /\ on \in [Thread -> Job \cup {NoJob}]
  BY DEF TypeOK
\* What was tested stays so for the calls that were under way.
<1>1. ASSUME JobsMoveOn, JobsClaimed',
             \A u \in Thread : (WorksOn(u)' => WorksOn(u)) /\ (Completes(u)' => Completes(u)),
             \A u \in Thread : WorksOn(u)' \/ Completes(u)' => on'[u] = on[u]
      PROVE  JobCallsInv'
  <2>1. \A u \in Thread : WorksOn(u)' => on'[u] \in Job /\ job'[on'[u]] \in Worked
    BY <1>1 DEF JobCallsInv, JobsMoveOn, Worked
  <2>2. \A u \in Thread : Completes(u)' => worker'[on'[u]] \in Thread
    BY <1>1 DEF JobCallsInv, JobsMoveOn, WorksOn, Completes, JobKinds
  <2> QED
    BY <1>1, <2>1, <2>2 DEF JobCallsInv
<1>2. ASSUME UNCHANGED <<job, worker>>
      PROVE  JobsMoveOn /\ JobsClaimed'
  BY <1>2 DEF JobCallsInv, JobsMoveOn, JobsClaimed, Worked
<1>3. ASSUME NEW t \in Thread, Step(t), ~CompleteLoad(t) PROVE JobsMoveOn /\ JobCallsInv'
  <2>1. /\ \A u \in Thread \ {t} : pc'[u] = pc[u] /\ call'[u] = call[u] /\ on'[u] = on[u]
        /\ pc'[t] \notin {"decide", "complete"}
    BY <1>0, <1>3, StepMovesSession DEF SessionMoved
  <2>2. /\ \A u \in Thread : (WorksOn(u)' => WorksOn(u)) /\ (Completes(u)' => Completes(u))
        /\ \A u \in Thread : WorksOn(u)' \/ Completes(u)' => on'[u] = on[u]
    BY <2>1 DEF WorksOn, Completes
  <2> QED
    BY <1>1, <1>3, <2>2, JobStep
<1>4. ASSUME NEW t \in Thread, CompleteLoad(t) PROVE JobsMoveOn /\ JobCallsInv'
  <2>1. /\ UNCHANGED <<call, on, job, worker>>
        /\ pc[t] = "decide" /\ call[t] = "complete" /\ pc' = [pc EXCEPT ![t] = "complete"]
    BY <1>4 DEF CompleteLoad, AtDecide
  <2>2. \A u \in Thread : (WorksOn(u)' => WorksOn(u)) /\ (Completes(u)' => Completes(u))
    BY <1>0, <2>1 DEF WorksOn, Completes, JobKinds
  <2> QED
    BY <1>1, <1>2, <2>1, <2>2
<1>5. ASSUME NEW t \in Thread, Abort(t) PROVE JobsMoveOn /\ JobCallsInv'
  <2>1. /\ UNCHANGED <<job, worker>>
        /\ \A u \in Thread \ {t} : pc'[u] = pc[u] /\ call'[u] = call[u] /\ on'[u] = on[u]
        /\ pc'[t] = "idle"
    BY <1>0, <1>5 DEF Abort, Return
  <2>2. /\ \A u \in Thread : (WorksOn(u)' => WorksOn(u)) /\ (Completes(u)' => Completes(u))
        /\ \A u \in Thread : WorksOn(u)' \/ Completes(u)' => on'[u] = on[u]
    BY <2>1 DEF WorksOn, Completes
  <2> QED
    BY <1>1, <1>2, <2>1, <2>2
<1>6. ASSUME NEW t \in Thread, NEW kind \in Kinds, NEW j \in Job \cup {NoJob}, Receive(t, kind, j)
      PROVE  JobsMoveOn /\ JobCallsInv'
  <2>1. /\ UNCHANGED <<job, worker>>
        /\ \A u \in Thread \ {t} : pc'[u] = pc[u] /\ call'[u] = call[u] /\ on'[u] = on[u]
        /\ pc'[t] = "decide" /\ call'[t] = kind /\ on'[t] = j
        /\ kind \in JobKinds => j \in Job /\ JobAccepts(kind, job[j])
    BY <1>0, <1>6 DEF Receive
  <2>2. kind \in JobKinds => j \in Job /\ job[j] \in Worked
    BY <2>1 DEF JobAccepts, JobKinds, Worked
  <2>3. kind = "complete" => worker[j] \in Thread
    BY <2>1 DEF JobAccepts, JobKinds, JobCallsInv, JobsClaimed
  <2>4. \A u \in Thread : WorksOn(u)' => on'[u] \in Job /\ job'[on'[u]] \in Worked
    BY <2>1, <2>2 DEF WorksOn, JobCallsInv
  <2>5. \A u \in Thread : Completes(u)' => worker'[on'[u]] \in Thread
    BY <2>1, <2>3 DEF Completes, JobCallsInv
  <2> QED
    BY <1>2, <2>1, <2>4, <2>5 DEF JobCallsInv
<1>7. CASE EditConditions \/ UNCHANGED vars
  <2>1. UNCHANGED <<job, worker, pc, call, on>>
    BY <1>7 DEF EditConditions, vars, session
  <2> QED
    BY <1>1, <1>2, <2>1 DEF WorksOn, Completes
<1> QED
  BY <1>3, <1>4, <1>5, <1>6, <1>7 DEF Next

LEMMA JobCallsInvariant == Spec => [](TypeOK /\ JobCallsInv)
<1>1. Init => JobCallsInv
  BY DEF Init, JobCallsInv, JobsClaimed, WorksOn, Completes
<1>2. TypeOK /\ JobCallsInv /\ [Next]_vars => JobCallsInv'
  BY JobCallsStep
<1> QED
  BY <1>1, <1>2, TypeCorrect, PTL DEF Spec

\* However workers race and die, a blocked job is never run, a job is queued at
\* most once, and a claimed job keeps a worker.
THEOREM JobsStayUsed == Spec => JobsNeverReopen
<1>1. TypeOK /\ JobCallsInv /\ [Next]_vars => [JobsMoveOn]_vars
  BY JobCallsStep
<1> QED
  BY <1>1, JobCallsInvariant, PTL DEF Spec, JobsNeverReopen

\* No job runs or is completed that no worker has claimed.
THEOREM RunningIsClaimed == Spec => []JobsClaimed
<1>1. JobCallsInv => JobsClaimed
  BY DEF JobCallsInv
<1> QED
  BY <1>1, JobCallsInvariant, PTL

-----------------------------------------------------------------------------
(* The ledger tells no false story of releases.  The invariant covers the  *)
(* events that handlers have still to record, however late they come.      *)

Truthful == released /\ decision.outcome \in {"ADMIT", "ESCALATE"}

Owes(kinds) == \E i \in 1..Len(kinds) : kinds[i] = "execution_completed"

EventTruth ==
  /\ (\E i \in 1..Len(ledger) : ledger[i].kind = "execution_completed") => Truthful
  /\ \A t \in Thread : Owes(events[t]) => Truthful

\* No step of a handler but these two touches the ledger or owes a completion.
LEMMA OtherStepsOweNothing ==
  ASSUME TypeInv, NEW t \in Thread, Step(t) \/ Abort(t), ~AppendEvent(t), ~ExecuteCommit(t)
  PROVE  /\ UNCHANGED ledger
         /\ \A u \in Thread : events'[u] = events[u] \/ ~Owes(events'[u])
<1>0. events \in [Thread -> Seq(EventKinds)]
  BY DEF TypeInv, TypeOK
<1>a. /\ ~Owes(<<>>) /\ ~Owes(EvaluationEvents)
      /\ \A kind \in EventKinds \ {"execution_completed"} : ~Owes(<<kind>>)
  BY DEF Owes, EvaluationEvents
<1>b. UNCHANGED ledger
  BY DEF Step, Abort, EvaluateCommit, EvaluateDuplicate, ReviewCommit, ReviewBlocked, ExecuteReplay,
         ExecuteBlocked, View, VerifyReport, QueueBlocked, QueueCommit, ClaimCommit, CompleteLoad,
         CompleteCommit, FailCommit, Reload, TakeLock
<1>1. ASSUME NEW kinds, ~Owes(kinds), events' = [events EXCEPT ![t] = kinds]
      PROVE  \A u \in Thread : events'[u] = events[u] \/ ~Owes(events'[u])
  BY <1>0, <1>1
<1>2. ASSUME NEW kinds, ~Owes(kinds),
             \/ RecordCached(t, kinds) \/ RecordExpired(t, kinds) \/ RecordReloaded(t, kinds)
      PROVE  \A u \in Thread : events'[u] = events[u] \/ ~Owes(events'[u])
  BY <1>1, <1>2 DEF RecordCached, RecordExpired, RecordReloaded
<1>3. CASE Return(t)
  <2>1. events' = [events EXCEPT ![t] = <<>>]
    BY <1>3 DEF Return
  <2>2. ~Owes(<<>>)
    BY <1>a
  <2> QED
    BY <1>0, <1>b, <2>1, <2>2
<1>4. CASE Reload(t) \/ TakeLock(t) \/ CompleteLoad(t)
  BY <1>4 DEF Reload, TakeLock, CompleteLoad
<1>5. CASE \E kind \in ReviewKinds : ReviewCommit(t, kind) \/ ReviewBlocked(t, kind)
  BY <1>2, <1>5, <1>a DEF ReviewCommit, ReviewBlocked, EventKinds
<1>6. CASE \E j \in Job : QueueBlocked(t, j) \/ QueueCommit(t, j)
  BY <1>2, <1>6, <1>a DEF QueueBlocked, QueueCommit, EventKinds
<1>7. CASE EvaluateCommit(t) \/ ExecuteReplay(t) \/ ExecuteBlocked(t) \/ View(t)
             \/ ClaimCommit(t) \/ CompleteCommit(t) \/ FailCommit(t)
  BY <1>2, <1>7, <1>a DEF EvaluateCommit, ExecuteReplay, ExecuteBlocked, View, ClaimCommit,
     CompleteCommit, FailCommit, EventKinds
<1> QED
  BY <1>b, <1>3, <1>4, <1>5, <1>6, <1>7 DEF Step, Abort, EvaluateDuplicate, VerifyReport

LEMMA TruthLasts == TypeOK /\ GateInv /\ [Next]_vars /\ Truthful => Truthful'
<1> SUFFICES ASSUME TypeOK, GateInv, [Next]_vars, Truthful PROVE Truthful'
  OBVIOUS
<1>1. decision' = decision
  BY DecisionLasts DEF Lasting, Truthful
<1>2. released'
  BY DEF Truthful, Next, Step, Receive, Abort, EvaluateCommit, EvaluateDuplicate, ReviewCommit,
         ReviewBlocked, ExecuteReplay, ExecuteBlocked, ExecuteCommit, View, VerifyReport,
         QueueBlocked, QueueCommit, ClaimCommit, CompleteLoad, CompleteCommit, FailCommit,
         Reload, TakeLock, AppendEvent, EditConditions, vars
<1> QED
  BY <1>1, <1>2 DEF Truthful

LEMMA EventTruthStep == TypeInv /\ GateInv /\ EventTruth /\ [Next]_vars => EventTruth'
<1> SUFFICES ASSUME TypeInv, GateInv, EventTruth, [Next]_vars PROVE EventTruth'
  OBVIOUS
<1>0. /\ TypeOK /\ EventsOwed
      /\ events \in [Thread -> Seq(EventKinds)] /\ ledger \in Seq(Events)
      /\ Truthful => Truthful'
  BY TruthLasts DEF TypeInv, TypeOK
<1>1. ASSUME UNCHANGED ledger,
             \A u \in Thread : events'[u] = events[u] \/ ~Owes(events'[u])
      PROVE  EventTruth'
  <2>1. \A u \in Thread : Owes(events'[u]) => Truthful'
    BY <1>0, <1>1 DEF EventTruth
  <2>2. (\E i \in 1..Len(ledger') : ledger'[i].kind = "execution_completed") => Truthful'
    BY <1>0, <1>1 DEF EventTruth
  <2> QED
    BY <2>1, <2>2 DEF EventTruth, Owes
<1>2. ASSUME NEW t \in Thread, ExecuteCommit(t) PROVE EventTruth'
  <2>1. released' /\ UNCHANGED <<ledger, decision>>
    BY <1>2 DEF ExecuteCommit
  <2>2. decision.outcome \in {"ADMIT", "ESCALATE"}
    <3>1. decision.outcome \notin {"NONE", "REFUSE", "HOLD"}
      BY <1>2 DEF ExecuteCommit, FinalExecutionError, AtDecide, GateInv, CallsDecided
    <3> QED
      BY <1>0, <3>1 DEF TypeOK, Results, Outcomes, NoDecision, Result
  <2> QED
    BY <2>1, <2>2 DEF EventTruth, Truthful
<1>3. ASSUME NEW t \in Thread, AppendEvent(t) PROVE EventTruth'
  <2>1. /\ events[t] \in Seq(EventKinds) /\ events[t] # <<>>
        /\ ledger' = Append(ledger, [kind |-> Head(events[t]), prev |-> tail[t]])
    BY <1>0, <1>3 DEF AppendEvent, EventsOwed
  <2>2. Head(events[t]) = "execution_completed" => Owes(events[t])
    BY <2>1 DEF Owes
  <2>3. Owes(Tail(events[t])) => Owes(events[t])
    BY <2>1 DEF Owes
  <2>4. \A u \in Thread : Owes(events'[u]) => Owes(events[u])
    <3>1. events' = [events EXCEPT ![t] = <<>>] \/ events' = [events EXCEPT ![t] = Tail(events[t])]
      BY <1>3 DEF AppendEvent, Return, RecordExpired
    <3>2. ~Owes(<<>>)
      BY DEF Owes
    <3> QED
      BY <1>0, <2>3, <3>1, <3>2
  <2>5. \A i \in 1..Len(ledger') : \/ i \in 1..Len(ledger) /\ ledger'[i] = ledger[i]
                                   \/ ledger'[i].kind = Head(events[t])
    BY <1>0, <2>1
  <2>6. (\E i \in 1..Len(ledger') : ledger'[i].kind = "execution_completed") => Truthful'
    BY <1>0, <2>2, <2>5 DEF EventTruth
  <2>7. \A u \in Thread : Owes(events'[u]) => Truthful'
    BY <1>0, <2>4 DEF EventTruth
  <2> QED
    BY <2>6, <2>7 DEF EventTruth, Owes
<1>4. ASSUME NEW t \in Thread, Step(t) \/ Abort(t) PROVE EventTruth'
  BY <1>1, <1>2, <1>3, <1>4, OtherStepsOweNothing
<1>5. ASSUME NEW t \in Thread, NEW kind \in Kinds, NEW j \in Job \cup {NoJob}, Receive(t, kind, j)
      PROVE  EventTruth'
  BY <1>1, <1>5 DEF Receive
<1>6. CASE EditConditions \/ UNCHANGED vars
  BY <1>1, <1>6 DEF EditConditions, vars, session
<1> QED
  BY <1>4, <1>5, <1>6 DEF Next

\* An execution_completed event in the ledger means that a commit executed the
\* request and that it was admitted or escalated, however late the event comes.
THEOREM CompletedIsTruthful == Spec => []CompletedEventIsTruthful
<1>1. Init => EventTruth
  BY DEF Init, EventTruth, Owes
<1>2. TypeInv /\ GateInv /\ EventTruth /\ [Next]_vars => EventTruth'
  BY EventTruthStep
<1>3. Spec => []TypeInv
  BY TypeInit, TypeStep, PTL DEF Spec
<1>4. EventTruth => CompletedEventIsTruthful
  BY DEF EventTruth, Truthful, CompletedEventIsTruthful
<1> QED
  BY <1>1, <1>2, <1>3, <1>4, GateInvariant, PTL DEF Spec

-----------------------------------------------------------------------------
(* What handlers owe.  A handler owes events only from its commit on, and   *)
(* before the request is filed there is nothing but calls that want to file *)
(* it, wherever handlers die.                                               *)

NothingOwed == \A t \in Thread : pc[t] \in {"idle", "decide", "complete"} => events[t] = <<>>

UnfiledIsEmpty ==
  request.status = "none" =>
    /\ ledger = <<>>
    /\ \A t \in Thread : pc[t] = "idle" \/ AtDecide(t, "evaluate")

FiledInv == NothingOwed /\ UnfiledIsEmpty

LEMMA FiledRemains ==
  ASSUME TypeInv, UnfiledIsEmpty, NEW t \in Thread, Step(t)
  PROVE  request'.status # "none" /\ (request.status # "none" \/ EvaluateCommit(t))
<1>0. /\ request \in Rows
      /\ request.status = "none" => pc[t] = "idle" \/ AtDecide(t, "evaluate")
  BY DEF TypeInv, TypeOK, UnfiledIsEmpty, AtDecide
<1>1. CASE EvaluateCommit(t)
  <2>1. \E outcome : request'.status = LifecycleStatus(outcome)
    BY <1>1 DEF EvaluateCommit
  <2> QED
    BY <1>1, <2>1 DEF LifecycleStatus
<1>2. CASE EvaluateDuplicate(t)
  BY <1>2 DEF EvaluateDuplicate, PrimaryKeyFree
<1>3. ASSUME NEW kind \in ReviewKinds, ReviewCommit(t, kind) \/ ReviewBlocked(t, kind)
      PROVE  request.status # "none" /\ request'.status # "none"
  <2>1. request.status # "none"
    BY <1>0, <1>3 DEF ReviewCommit, ReviewBlocked, AtDecide, ReviewKinds
  <2>2. request'.status \in {request.status, ReviewStatus(kind)}
    BY <1>0, <1>3 DEF ReviewCommit, ReviewBlocked, Rows
  <2> QED
    BY <2>1, <2>2 DEF ReviewStatus
<1>4. CASE ExecuteReplay(t) \/ ExecuteBlocked(t) \/ View(t) \/ VerifyReport(t)
             \/ ClaimCommit(t) \/ FailCommit(t) \/ CompleteLoad(t) \/ Reload(t) \/ TakeLock(t)
             \/ (\E j \in Job : QueueBlocked(t, j))
  BY <1>0, <1>4 DEF ExecuteReplay, ExecuteBlocked, View, VerifyReport, ClaimCommit, FailCommit,
     CompleteLoad, Reload, TakeLock, QueueBlocked, AtDecide
<1>5. CASE ExecuteCommit(t) \/ (\E j \in Job : QueueCommit(t, j))
  BY <1>0, <1>5 DEF ExecuteCommit, ExecutedRow, QueueCommit, AtDecide, Rows
<1>6. CASE CompleteCommit(t)
  BY <1>0, <1>6 DEF CompleteCommit, AtDecide, Rows
<1>7. CASE AppendEvent(t)
  BY <1>0, <1>7 DEF AppendEvent, AtDecide, Rows
<1> QED
  BY <1>1, <1>2, <1>3, <1>4, <1>5, <1>6, <1>7 DEF Step

\* How a step moves what its handler owes.
LEMMA StepOwes ==
  ASSUME TypeInv, NothingOwed, NEW t \in Thread, Step(t)
  PROVE  /\ NothingOwed'
         /\ \A u \in Thread \ {t} : events'[u] = events[u]
         /\ ~AppendEvent(t) => events[t] = <<>> \/ events'[t] = events[t]
<1>0. /\ pc \in [Thread -> Places] /\ events \in [Thread -> Seq(EventKinds)]
      /\ pc[t] \in {"decide", "complete"} => events[t] = <<>>
  BY DEF TypeInv, TypeOK, NothingOwed
<1>1. ASSUME NEW place \in {"reload", "record"}, NEW kinds,
             pc' = [pc EXCEPT ![t] = place], events' = [events EXCEPT ![t] = kinds]
      PROVE  NothingOwed' /\ \A u \in Thread \ {t} : events'[u] = events[u]
  BY <1>0, <1>1 DEF NothingOwed
<1>2. ASSUME NEW kinds,
             RecordCached(t, kinds) \/ RecordExpired(t, kinds) \/ RecordReloaded(t, kinds)
      PROVE  NothingOwed' /\ \A u \in Thread \ {t} : events'[u] = events[u]
  BY <1>1, <1>2 DEF RecordCached, RecordExpired, RecordReloaded
<1>3. Return(t) => NothingOwed' /\ \A u \in Thread \ {t} : events'[u] = events[u]
  BY <1>0 DEF Return, NothingOwed
<1>4. CASE Reload(t) \/ TakeLock(t) \/ CompleteLoad(t)
  BY <1>0, <1>4 DEF Reload, TakeLock, CompleteLoad, AtDecide, NothingOwed
<1>5. CASE AppendEvent(t)
  BY <1>2, <1>3, <1>5 DEF AppendEvent
<1>6. CASE EvaluateDuplicate(t) \/ VerifyReport(t)
  BY <1>0, <1>3, <1>6 DEF EvaluateDuplicate, VerifyReport, AtDecide
<1>7. CASE \E kind \in ReviewKinds : ReviewCommit(t, kind) \/ ReviewBlocked(t, kind)
  BY <1>0, <1>2, <1>7 DEF ReviewCommit, ReviewBlocked, AtDecide
<1>8. CASE \E j \in Job : QueueBlocked(t, j) \/ QueueCommit(t, j)
  BY <1>0, <1>2, <1>8 DEF QueueBlocked, QueueCommit, AtDecide
<1>9. CASE EvaluateCommit(t) \/ ExecuteReplay(t) \/ ExecuteBlocked(t) \/ ExecuteCommit(t) \/ View(t)
             \/ ClaimCommit(t) \/ CompleteCommit(t) \/ FailCommit(t)
  BY <1>0, <1>2, <1>9 DEF EvaluateCommit, ExecuteReplay, ExecuteBlocked, ExecuteCommit, View,
     ClaimCommit, CompleteCommit, FailCommit, AtDecide
<1> QED
  BY <1>4, <1>5, <1>6, <1>7, <1>8, <1>9 DEF Step

LEMMA FiledInit == Init => FiledInv
<1> SUFFICES ASSUME Init PROVE FiledInv
  OBVIOUS
<1>1. /\ ledger = <<>>
      /\ pc = [t \in Thread |-> "idle"] /\ events = [t \in Thread |-> <<>>]
  BY DEF Init
<1>2. \A t \in Thread : pc[t] = "idle" /\ events[t] = <<>>
  BY <1>1, Zenon
<1>3. NothingOwed
  BY <1>2, Zenon DEF NothingOwed
<1>4. UnfiledIsEmpty
  BY <1>1, <1>2, Zenon DEF UnfiledIsEmpty
<1> QED
  BY <1>3, <1>4 DEF FiledInv

LEMMA FiledStep == TypeInv /\ FiledInv /\ [Next]_vars => FiledInv'
<1> SUFFICES ASSUME TypeInv, FiledInv, [Next]_vars PROVE FiledInv'
  OBVIOUS
<1>0. /\ request \in Rows /\ pc \in [Thread -> Places]
      /\ call \in [Thread -> AllKinds \cup {"none"}]
      /\ events \in [Thread -> Seq(EventKinds)]
      /\ NothingOwed /\ UnfiledIsEmpty
  BY DEF TypeInv, TypeOK, FiledInv
<1>1. ASSUME NEW t \in Thread, Step(t) PROVE FiledInv'
  <2>1. UnfiledIsEmpty'
    BY <1>0, <1>1, FiledRemains DEF UnfiledIsEmpty
  <2>2. NothingOwed'
    BY <1>0, <1>1, StepOwes
  <2> QED
    BY <2>1, <2>2 DEF FiledInv
<1>2. ASSUME NEW t \in Thread, NEW kind \in Kinds, NEW j \in Job \cup {NoJob}, Receive(t, kind, j)
      PROVE  FiledInv'
  BY <1>0, <1>2 DEF Receive, AtDecide, FiledInv, NothingOwed, UnfiledIsEmpty
<1>3. ASSUME NEW t \in Thread, Abort(t) PROVE FiledInv'
  BY <1>0, <1>3 DEF Abort, Return, AtDecide, FiledInv, NothingOwed, UnfiledIsEmpty
<1>4. CASE EditConditions
  <2>1. request'.status = request.status
    BY <1>0, <1>4 DEF EditConditions, Rows
  <2> QED
    BY <1>0, <1>4, <2>1 DEF EditConditions, session, AtDecide, FiledInv, NothingOwed, UnfiledIsEmpty
<1>5. CASE UNCHANGED vars
  BY <1>0, <1>5 DEF vars, session, AtDecide, FiledInv, NothingOwed, UnfiledIsEmpty
<1> QED
  BY <1>1, <1>2, <1>3, <1>4, <1>5 DEF Next

LEMMA FiledInvariant == Spec => [](TypeInv /\ FiledInv)
<1>1. Init => TypeInv /\ FiledInv
  BY TypeInit, FiledInit
<1>2. TypeInv /\ FiledInv /\ [Next]_vars => (TypeInv /\ FiledInv)'
  BY TypeStep, FiledStep
<1> QED
  BY <1>1, <1>2, PTL DEF Spec

-----------------------------------------------------------------------------
(* The events of a filed request.  The primary key lets one evaluate call   *)
(* commit, so one handler at most owes the snapshot and the evaluation, and *)
(* each is owed or recorded once.                                           *)

OwesEvent(kind, t) == \E i \in 1..Len(events[t]) : events[t][i] = kind
IsRecorded(kind)   == \E i \in 1..Len(ledger) : ledger[i].kind = kind

EventListsOK == \A t \in Thread : events[t] = EvaluationEvents \/ Len(events[t]) <= 1

FilingInv(kind) ==
  /\ request.status = "none" => ~IsRecorded(kind) /\ \A t \in Thread : ~OwesEvent(kind, t)
  /\ \A t, u \in Thread : OwesEvent(kind, t) /\ OwesEvent(kind, u) => t = u
  /\ \A t \in Thread : OwesEvent(kind, t) => ~IsRecorded(kind)
  /\ \A i, j \in 1..Len(ledger) : ledger[i].kind = kind /\ ledger[j].kind = kind => i = j

AuditedInv == EventListsOK /\ \A kind \in FilingKinds : FilingInv(kind)

\* A request that is filed has recorded the event, or someone still owes it.
OwedInv ==
  request.status # "none" =>
    \A kind \in FilingKinds : IsRecorded(kind) \/ \E t \in Thread : OwesEvent(kind, t)

\* With all calls answered, a decided request has exactly one of each.
AuditedWhenAnswered ==
  (decision # NoDecision /\ \A t \in Thread : pc[t] = "idle") =>
    \A kind \in FilingKinds : EventCount(kind) = 1

LEMMA EventListKinds ==
  /\ EvaluationEvents = <<"request_snapshot_captured", "request_evaluated">>
  /\ Len(EvaluationEvents) = 2 /\ Len(<<>>) = 0 /\ \A kind : Len(<<kind>>) = 1
  /\ \A kind, other : other # kind => ~\E i \in 1..Len(<<other>>) : <<other>>[i] = kind
  /\ \A kind : ~\E i \in 1..Len(<<>>) : <<>>[i] = kind
BY DEF EvaluationEvents

\* What a handler owes after any step but the commit of evaluate and an append.
FilesNothing(kinds) == kinds = <<>> \/ \E kind \in EventKinds \ FilingKinds : kinds = <<kind>>

LEMMA FilesNothingOwed ==
  ASSUME NEW kinds, FilesNothing(kinds)
  PROVE  /\ Len(kinds) <= 1
         /\ \A kind \in FilingKinds : ~\E i \in 1..Len(kinds) : kinds[i] = kind
BY EventListKinds DEF FilesNothing

LEMMA OtherStepsFileNothing ==
  ASSUME TypeInv, NEW t \in Thread, Step(t) \/ Abort(t), ~AppendEvent(t), ~EvaluateCommit(t)
  PROVE  UNCHANGED ledger /\ \A u \in Thread : events'[u] = events[u] \/ FilesNothing(events'[u])
<1>0. events \in [Thread -> Seq(EventKinds)]
  BY DEF TypeInv, TypeOK
<1>a. FilesNothing(<<>>) /\ \A kind \in EventKinds \ FilingKinds : FilesNothing(<<kind>>)
  BY DEF FilesNothing
<1>b. UNCHANGED ledger
  BY DEF Step, Abort, EvaluateDuplicate, ReviewCommit, ReviewBlocked, ExecuteReplay, ExecuteCommit,
         ExecuteBlocked, View, VerifyReport, QueueBlocked, QueueCommit, ClaimCommit, CompleteLoad,
         CompleteCommit, FailCommit, Reload, TakeLock
<1>1. ASSUME NEW kinds, FilesNothing(kinds), events' = [events EXCEPT ![t] = kinds]
      PROVE  \A u \in Thread : events'[u] = events[u] \/ FilesNothing(events'[u])
  BY <1>0, <1>1
<1>2. ASSUME NEW kinds, FilesNothing(kinds),
             \/ RecordCached(t, kinds) \/ RecordExpired(t, kinds) \/ RecordReloaded(t, kinds)
      PROVE  \A u \in Thread : events'[u] = events[u] \/ FilesNothing(events'[u])
  BY <1>1, <1>2 DEF RecordCached, RecordExpired, RecordReloaded
<1>3. CASE Return(t)
  BY <1>a, <1>b, <1>1, <1>3 DEF Return
<1>4. CASE Reload(t) \/ TakeLock(t) \/ CompleteLoad(t)
  BY <1>b, <1>4 DEF Reload, TakeLock, CompleteLoad
<1>5. CASE \E kind \in ReviewKinds : ReviewCommit(t, kind) \/ ReviewBlocked(t, kind)
  <2>1. FilesNothing(<<"review_action">>) /\ FilesNothing(<<"review_blocked">>)
    BY <1>a DEF EventKinds, FilingKinds
  <2> QED
    BY <1>2, <1>b, <1>5, <2>1 DEF ReviewCommit, ReviewBlocked
<1>6. CASE \E j \in Job : QueueBlocked(t, j) \/ QueueCommit(t, j)
  <2>1. FilesNothing(<<"execution_job_blocked">>) /\ FilesNothing(<<"execution_job_queued">>)
    BY <1>a DEF EventKinds, FilingKinds
  <2> QED
    BY <1>2, <1>b, <1>6, <2>1 DEF QueueBlocked, QueueCommit
<1>7. CASE ExecuteReplay(t) \/ ExecuteBlocked(t) \/ ExecuteCommit(t) \/ View(t)
  <2>1. /\ FilesNothing(<<"execution_idempotent_replay">>) /\ FilesNothing(<<"execution_blocked">>)
        /\ FilesNothing(<<"execution_completed">>) /\ FilesNothing(<<"viewed">>)
    BY <1>a DEF EventKinds, FilingKinds
  <2> QED
    BY <1>2, <1>b, <1>7, <2>1 DEF ExecuteReplay, ExecuteBlocked, ExecuteCommit, View
<1>8. CASE ClaimCommit(t) \/ CompleteCommit(t) \/ FailCommit(t)
  <2>1. /\ FilesNothing(<<"execution_job_running">>) /\ FilesNothing(<<"execution_job_completed">>)
        /\ FilesNothing(<<"execution_job_failed">>)
    BY <1>a DEF EventKinds, FilingKinds
  <2> QED
    BY <1>2, <1>b, <1>8, <2>1 DEF ClaimCommit, CompleteCommit, FailCommit
<1> QED
  BY <1>b, <1>3, <1>4, <1>5, <1>6, <1>7, <1>8 DEF Step, Abort, EvaluateDuplicate, VerifyReport

LEMMA QuietKeepsAudited ==
  ASSUME TypeInv, AuditedInv, UNCHANGED ledger,
         request'.status = "none" => request.status = "none",
         \A u \in Thread : events'[u] = events[u] \/ FilesNothing(events'[u])
  PROVE  AuditedInv'
<1>1. \A u \in Thread : \A kind \in FilingKinds : OwesEvent(kind, u)' => OwesEvent(kind, u)
  BY FilesNothingOwed DEF OwesEvent
<1>2. EventListsOK'
  BY FilesNothingOwed DEF AuditedInv, EventListsOK
<1>3. \A kind \in FilingKinds : IsRecorded(kind)' <=> IsRecorded(kind)
  BY DEF IsRecorded
<1>4. \A kind \in FilingKinds : FilingInv(kind)'
  BY <1>1, <1>3 DEF AuditedInv, FilingInv
<1> QED
  BY <1>2, <1>4 DEF AuditedInv

LEMMA EvaluateKeepsAudited ==
  ASSUME TypeInv, FiledInv, AuditedInv, NEW t \in Thread, EvaluateCommit(t)
  PROVE  AuditedInv' /\ \A kind \in FilingKinds : OwesEvent(kind, t)'
<1>0. /\ events \in [Thread -> Seq(EventKinds)] /\ UNCHANGED ledger
      /\ events' = [events EXCEPT ![t] = EvaluationEvents]
      /\ request.status = "none"
  BY DEF TypeInv, TypeOK, EvaluateCommit, RecordReloaded, PrimaryKeyFree
<1>1. request'.status # "none"
  BY FiledRemains DEF FiledInv, Step
<1>2. EventListsOK'
  BY <1>0 DEF AuditedInv, EventListsOK
<1>3. \A kind \in FilingKinds : \A u \in Thread : OwesEvent(kind, u)' => u = t
  BY <1>0 DEF AuditedInv, FilingInv, OwesEvent
<1>4. \A kind \in FilingKinds : ~IsRecorded(kind) /\ ~IsRecorded(kind)'
  BY <1>0 DEF AuditedInv, FilingInv, IsRecorded
<1>5. \A kind \in FilingKinds : FilingInv(kind)'
  BY <1>0, <1>1, <1>3, <1>4 DEF FilingInv, IsRecorded
<1>6. \A kind \in FilingKinds : OwesEvent(kind, t)'
  <2>1. events'[t] = EvaluationEvents /\ 1 \in 1..2 /\ 2 \in 1..2
    BY <1>0
  <2>2. Len(EvaluationEvents) = 2 /\ EvaluationEvents[1] = "request_snapshot_captured"
        /\ EvaluationEvents[2] = "request_evaluated"
    BY DEF EvaluationEvents
  <2> QED
    BY <2>1, <2>2 DEF OwesEvent, FilingKinds
<1> QED
  BY <1>2, <1>5, <1>6 DEF AuditedInv

\* An append moves the first event that its handler owes into the ledger.
LEMMA AppendMovesEvent ==
  ASSUME TypeInv, AuditedInv, NEW t \in Thread, AppendEvent(t), NEW kind \in FilingKinds
  PROVE  /\ OwesEvent(kind, t)' => OwesEvent(kind, t) /\ Head(events[t]) # kind
         /\ Head(events[t]) = kind => OwesEvent(kind, t)
         /\ OwesEvent(kind, t) => OwesEvent(kind, t)' \/ Head(events[t]) = kind
         /\ events'[t] = EvaluationEvents \/ Len(events'[t]) <= 1
<1>0. /\ events \in [Thread -> Seq(EventKinds)] /\ events[t] # <<>>
      /\ events[t] = EvaluationEvents \/ Len(events[t]) <= 1
  BY DEF TypeInv, TypeOK, EventsOwed, AppendEvent, AuditedInv, EventListsOK
<1>1. CASE events[t] = EvaluationEvents
  <2>1. /\ Len(events[t]) = 2 /\ Head(events[t]) = "request_snapshot_captured"
        /\ Tail(events[t]) = <<"request_evaluated">>
        /\ events[t][1] = "request_snapshot_captured" /\ events[t][2] = "request_evaluated"
    BY <1>1 DEF EvaluationEvents
  <2>2. events'[t] = <<"request_evaluated">>
    BY <1>0, <2>1 DEF AppendEvent, RecordExpired
  <2>3. OwesEvent(kind, t)
    BY <2>1 DEF OwesEvent, FilingKinds
  <2>4. OwesEvent(kind, t)' <=> kind = "request_evaluated"
    BY <2>2 DEF OwesEvent
  <2>5. Len(events'[t]) <= 1
    BY <2>2
  <2> QED
    BY <2>1, <2>3, <2>4, <2>5 DEF FilingKinds
<1>2. CASE Len(events[t]) <= 1
  <2>1. Len(events[t]) = 1 /\ Head(events[t]) = events[t][1]
    <3>1. events[t] \in Seq(EventKinds)
      BY <1>0
    <3>2. Len(events[t]) \in Nat /\ Len(events[t]) # 0
      BY <1>0, <3>1, EmptySeq
    <3>a. \A n \in Nat : n # 0 /\ n <= 1 => n = 1
      OBVIOUS
    <3>3. Len(events[t]) = 1
      BY <1>2, <3>2, <3>a, Zenon
    <3>4. Head(events[t]) = events[t][1]
      BY <3>1
    <3> QED
      BY <3>3, <3>4
  <2>2. events'[t] = <<>>
    BY <1>0, <2>1 DEF AppendEvent, Return
  <2>3. ~OwesEvent(kind, t)' /\ Len(events'[t]) <= 1
    BY <2>2 DEF OwesEvent
  <2>4. OwesEvent(kind, t) <=> Head(events[t]) = kind
    BY <2>1 DEF OwesEvent
  <2> QED
    BY <2>3, <2>4
<1> QED
  BY <1>0, <1>1, <1>2

LEMMA AppendKeepsAudited ==
  ASSUME TypeInv, FiledInv, AuditedInv, NEW t \in Thread, AppendEvent(t)
  PROVE  /\ AuditedInv'
         /\ \A kind \in FilingKinds :
              IsRecorded(kind) \/ (\E u \in Thread : OwesEvent(kind, u)) =>
                IsRecorded(kind)' \/ \E u \in Thread : OwesEvent(kind, u)'
<1> DEFINE e == [kind |-> Head(events[t]), prev |-> tail[t]]
<1>0. /\ ledger \in Seq(Events) /\ Len(ledger) \in Nat
      /\ ledger' = Append(ledger, e) /\ e.kind = Head(events[t]) /\ e \in Events
      /\ \A u \in Thread \ {t} : events'[u] = events[u]
  BY HeadTailProperties
     DEF TypeInv, TypeOK, EventsOwed, Events, AppendEvent, Return, RecordExpired
<1> HIDE DEF e
<1>1. /\ Len(ledger') = Len(ledger) + 1
      /\ \A i \in 1..Len(ledger) : ledger'[i] = ledger[i]
      /\ ledger'[Len(ledger) + 1] = e
  BY <1>0, AppendProperties
<1>2. \A kind \in FilingKinds : IsRecorded(kind)' <=> IsRecorded(kind) \/ Head(events[t]) = kind
  BY <1>0, <1>1 DEF IsRecorded
<1>3. request'.status # "none"
  BY FiledRemains DEF FiledInv, Step
<1>4. ASSUME NEW kind \in FilingKinds
      PROVE  /\ FilingInv(kind)'
             /\ IsRecorded(kind) \/ (\E u \in Thread : OwesEvent(kind, u)) =>
                  IsRecorded(kind)' \/ \E u \in Thread : OwesEvent(kind, u)'
  <2>1. /\ OwesEvent(kind, t)' => OwesEvent(kind, t) /\ Head(events[t]) # kind
        /\ Head(events[t]) = kind => OwesEvent(kind, t)
        /\ OwesEvent(kind, t) => OwesEvent(kind, t)' \/ Head(events[t]) = kind
        /\ \A u \in Thread \ {t} : OwesEvent(kind, u)' <=> OwesEvent(kind, u)
    BY <1>0, AppendMovesEvent DEF OwesEvent
  <2>2. FilingInv(kind)
    BY DEF AuditedInv
  <2>3. /\ \A u, v \in Thread : OwesEvent(kind, u)' /\ OwesEvent(kind, v)' => u = v
        /\ \A u \in Thread : OwesEvent(kind, u)' => ~IsRecorded(kind)'
    BY <1>2, <2>1, <2>2 DEF FilingInv
  <2>4. ASSUME NEW i \in 1..Len(ledger'), NEW j \in 1..Len(ledger'),
               ledger'[i].kind = kind, ledger'[j].kind = kind
        PROVE  i = j
    <3>1. CASE Head(events[t]) = kind
      <4>1. ~IsRecorded(kind)
        BY <2>1, <2>2, <3>1 DEF FilingInv
      <4> QED
        BY <1>0, <1>1, <2>4, <4>1 DEF IsRecorded
    <3>2. CASE Head(events[t]) # kind
      <4>1. i \in 1..Len(ledger) /\ j \in 1..Len(ledger)
        BY <1>0, <1>1, <2>4, <3>2
      <4> QED
        BY <1>1, <2>2, <2>4, <4>1 DEF FilingInv
    <3> QED
      BY <3>1, <3>2
  <2>5. IsRecorded(kind) \/ (\E u \in Thread : OwesEvent(kind, u)) =>
          IsRecorded(kind)' \/ \E u \in Thread : OwesEvent(kind, u)'
    BY <1>2, <2>1
  <2> QED
    BY <1>3, <2>3, <2>4, <2>5 DEF FilingInv
<1>5. EventListsOK'
  BY <1>0, AppendMovesEvent DEF AuditedInv, EventListsOK, FilingKinds
<1> QED
  BY <1>4, <1>5 DEF AuditedInv

LEMMA AuditedStep == TypeInv /\ FiledInv /\ AuditedInv /\ [Next]_vars => AuditedInv'
<1> SUFFICES ASSUME TypeInv, FiledInv, AuditedInv, [Next]_vars PROVE AuditedInv'
  OBVIOUS
<1>0. request \in Rows
  BY DEF TypeInv, TypeOK
<1>1. ASSUME NEW t \in Thread, Step(t) PROVE AuditedInv'
  <2>1. request'.status # "none"
    BY <1>1, FiledRemains DEF FiledInv
  <2> QED
    BY <1>1, <2>1, EvaluateKeepsAudited, AppendKeepsAudited, OtherStepsFileNothing, QuietKeepsAudited
<1>2. ASSUME NEW t \in Thread, Abort(t) PROVE AuditedInv'
  <2>1. UNCHANGED <<ledger, request>>
    BY <1>2 DEF Abort
  <2>2. \A u \in Thread : events'[u] = events[u] \/ FilesNothing(events'[u])
    BY <1>2 DEF Abort, Return, TypeInv, TypeOK, FilesNothing
  <2> QED
    BY <2>1, <2>2, QuietKeepsAudited
<1>3. ASSUME NEW t \in Thread, NEW kind \in Kinds, NEW j \in Job \cup {NoJob}, Receive(t, kind, j)
      PROVE  AuditedInv'
  BY <1>3, QuietKeepsAudited DEF Receive
<1>4. CASE EditConditions
  BY <1>0, <1>4, QuietKeepsAudited DEF EditConditions, session, Rows
<1>5. CASE UNCHANGED vars
  BY <1>5, QuietKeepsAudited DEF vars, session
<1> QED
  BY <1>1, <1>2, <1>3, <1>4, <1>5 DEF Next

LEMMA AuditedInvariant == Spec => [](TypeInv /\ FiledInv /\ AuditedInv)
<1>1. Init => AuditedInv
  BY DEF Init, AuditedInv, EventListsOK, FilingInv, OwesEvent, IsRecorded
<1>2. TypeInv /\ FiledInv /\ AuditedInv /\ [Next]_vars => AuditedInv'
  BY AuditedStep
<1> QED
  BY <1>1, <1>2, FiledInvariant, PTL DEF Spec

\* How often an event is in the ledger, if no two of its places hold it.
LEMMA CountOfSingle ==
  ASSUME NEW kind,
         \A i, j \in 1..Len(ledger) : ledger[i].kind = kind /\ ledger[j].kind = kind => i = j
  PROVE  EventCount(kind) = IF IsRecorded(kind) THEN 1 ELSE 0
<1> DEFINE S == {i \in 1..Len(ledger) : ledger[i].kind = kind}
<1>1. CASE IsRecorded(kind)
  <2>1. PICK i \in 1..Len(ledger) : ledger[i].kind = kind
    BY <1>1 DEF IsRecorded
  <2>2. S = {i}
    BY <2>1
  <2> QED
    BY <1>1, <2>2, FS_Singleton DEF EventCount
<1>2. CASE ~IsRecorded(kind)
  <2>1. S = {}
    BY <1>2 DEF IsRecorded
  <2> QED
    BY <1>2, <2>1, FS_EmptySet DEF EventCount
<1> QED
  BY <1>1, <1>2

\* No request ever has two snapshots or two evaluations in its ledger, however
\* many calls evaluate it and wherever they die.
THEOREM FiledAtMostOnce == Spec => []FiledOnce
<1>1. AuditedInv => FiledOnce
  BY CountOfSingle DEF AuditedInv, FilingInv, FiledOnce
<1> QED
  BY <1>1, AuditedInvariant, PTL

LEMMA OwedStep ==
  ASSUME CanAbort = FALSE, TypeInv, FiledInv, AuditedInv, OwedInv, [Next]_vars
  PROVE  OwedInv'
<1>0. /\ request \in Rows /\ events \in [Thread -> Seq(EventKinds)] /\ NothingOwed
  BY DEF TypeInv, TypeOK, FiledInv
<1>1. ASSUME UNCHANGED ledger, request.status # "none",
             \A u \in Thread : events[u] = <<>> \/ events'[u] = events[u]
      PROVE  OwedInv'
  <2>1. \A kind \in FilingKinds, u \in Thread : OwesEvent(kind, u) => OwesEvent(kind, u)'
    BY <1>1, EventListKinds DEF OwesEvent
  <2>2. \A kind \in FilingKinds : IsRecorded(kind) => IsRecorded(kind)'
    BY <1>1 DEF IsRecorded
  <2> QED
    BY <1>1, <2>1, <2>2 DEF OwedInv
<1>2. ASSUME NEW t \in Thread, Step(t) PROVE OwedInv'
  <2>1. CASE EvaluateCommit(t)
    BY <2>1, EvaluateKeepsAudited DEF OwedInv
  <2>2. CASE AppendEvent(t)
    <3>1. request.status # "none"
      BY <1>2, <2>2, FiledRemains DEF FiledInv, EvaluateCommit, AppendEvent, AtDecide
    <3> QED
      BY <2>2, <3>1, AppendKeepsAudited DEF OwedInv
  <2>3. CASE ~EvaluateCommit(t) /\ ~AppendEvent(t)
    <3>1. request.status # "none"
      BY <1>2, <2>3, FiledRemains DEF FiledInv
    <3>2. UNCHANGED ledger
      BY <1>2, <2>3, OtherStepsFileNothing
    <3>3. \A u \in Thread : events[u] = <<>> \/ events'[u] = events[u]
      BY <1>0, <1>2, <2>3, StepOwes
    <3> QED
      BY <1>1, <3>1, <3>2, <3>3
  <2> QED
    BY <2>1, <2>2, <2>3
<1>3. ASSUME NEW t \in Thread, NEW kind \in Kinds, NEW j \in Job \cup {NoJob}, Receive(t, kind, j)
      PROVE  OwedInv'
  BY <1>1, <1>3 DEF Receive, OwedInv
<1>4. CASE EditConditions \/ UNCHANGED vars
  <2>1. request'.status = request.status /\ UNCHANGED <<ledger, events>>
    BY <1>0, <1>4 DEF EditConditions, vars, session, Rows
  <2> QED
    BY <1>1, <2>1 DEF OwedInv
<1> QED
  BY <1>2, <1>3, <1>4 DEF Next, Abort

\* The safety half of DecisionIsAudited: if no handler dies, then whenever all
\* calls have answered a decided request has its snapshot and its evaluation in
\* the ledger, each exactly once.
THEOREM AnsweredIsAudited ==
  ASSUME CanAbort = FALSE
  PROVE  Spec => []AuditedWhenAnswered
<1>1. Init => OwedInv
  BY DEF Init, NoRow, OwedInv
<1>2. TypeInv /\ FiledInv /\ AuditedInv /\ OwedInv /\ [Next]_vars => OwedInv'
  BY OwedStep
<1>3. TypeInv /\ FiledInv /\ AuditedInv /\ OwedInv /\ GateInv => AuditedWhenAnswered
  <2> SUFFICES ASSUME TypeInv, FiledInv, AuditedInv, OwedInv, GateInv, decision # NoDecision,
                      \A t \in Thread : pc[t] = "idle", NEW kind \in FilingKinds
               PROVE  EventCount(kind) = 1
    BY DEF AuditedWhenAnswered
  <2>1. request.status # "none"
    BY DEF TypeInv, TypeOK, GateInv, DecisionPaired, NoDecision, Results, Outcomes, Result
  <2>2. \A t \in Thread : ~OwesEvent(kind, t)
    BY EventListKinds DEF FiledInv, NothingOwed, OwesEvent
  <2>3. IsRecorded(kind)
    BY <2>1, <2>2 DEF OwedInv
  <2> QED
    BY <2>3, CountOfSingle DEF AuditedInv, FilingInv
<1> QED
  BY <1>1, <1>2, <1>3, AuditedInvariant, GateInvariant, PTL DEF Spec

-----------------------------------------------------------------------------
(* The anchor of handlers that do not die.  Every append puts the anchor    *)
(* right; only an execute puts an older one back, and it still owes its     *)
(* event then, whatever other handlers record in between.                   *)

\* No step but the commits of evaluate and execute and the append moves the anchor.
LEMMA OtherStepsKeepAnchor ==
  ASSUME TypeInv, NEW t \in Thread, Step(t),
         ~EvaluateCommit(t), ~ExecuteCommit(t), ~AppendEvent(t)
  PROVE  UNCHANGED ledger /\ request'.meta = request.meta
<1>0. request \in Rows
  BY DEF TypeInv, TypeOK
<1>1. UNCHANGED ledger
  BY OtherStepsOweNothing
<1>2. CASE \E kind \in ReviewKinds : ReviewCommit(t, kind)
  BY <1>0, <1>1, <1>2 DEF ReviewCommit, Rows
<1>3. CASE CompleteCommit(t) \/ (\E j \in Job : QueueCommit(t, j))
  BY <1>0, <1>1, <1>3 DEF CompleteCommit, QueueCommit, Rows
<1>4. CASE UNCHANGED request
  BY <1>1, <1>4
<1> QED
  BY <1>2, <1>3, <1>4 DEF Step, EvaluateDuplicate, ReviewBlocked, ExecuteReplay, ExecuteBlocked,
     View, VerifyReport, QueueBlocked, ClaimCommit, CompleteLoad, FailCommit, Reload, TakeLock

\* record_event leaves the anchor at the event it has added.
LEMMA AppendSetsAnchor ==
  ASSUME TypeInv, NEW t \in Thread, AppendEvent(t)
  PROVE  AnchorCurrent' /\ request'.meta.result = seen[t].meta.result
<1>0. /\ request \in Rows /\ seen[t] \in Rows /\ seen[t].meta \in Metadata
      /\ ledger \in Seq(Events) /\ Len(ledger) \in Nat
  BY RowType DEF TypeInv, TypeOK
<1>1. Len(ledger') = Len(ledger) + 1
  BY <1>0 DEF AppendEvent
<1>2. request'.meta = HeadAnchor(seen[t].meta)
  BY <1>0 DEF AppendEvent, Rows
<1>3. /\ request'.meta.head = Len(ledger) + 1 /\ request'.meta.count = Len(ledger) + 1
      /\ request'.meta.result = seen[t].meta.result
  BY <1>0, <1>2 DEF HeadAnchor, Metadata
<1> QED
  BY <1>1, <1>3 DEF AnchorCurrent

LEMMA AnchorStep ==
  ASSUME CanAbort = FALSE, TypeInv, FiledInv, AnchorCurrentWhenRecorded, [Next]_vars
  PROVE  AnchorCurrentWhenRecorded'
<1>0. /\ request \in Rows /\ ledger \in Seq(Events) /\ Len(ledger) \in Nat
      /\ seen \in [Thread -> Rows] /\ events \in [Thread -> Seq(EventKinds)]
      /\ NothingOwed /\ UnfiledIsEmpty /\ AnchorCurrentWhenRecorded
  BY DEF TypeInv, TypeOK, FiledInv
<1>1. ASSUME NEW t \in Thread, Step(t) PROVE AnchorCurrentWhenRecorded'
  <2>1. CASE EvaluateCommit(t)
    <3>1. /\ request.status = "none" /\ UNCHANGED ledger
          /\ request'.meta.head = 0 /\ request'.meta.count = 0
      BY <2>1 DEF EvaluateCommit, PrimaryKeyFree, NoRow
    <3>2. AnchorCurrent'
      BY <1>0, <3>1 DEF UnfiledIsEmpty, AnchorCurrent
    <3> QED
      BY <3>2 DEF AnchorCurrentWhenRecorded
  <2>2. CASE ExecuteCommit(t)
    <3>1. events'[t] = <<"execution_completed">>
      BY <1>0, <2>2 DEF ExecuteCommit, RecordReloaded
    <3>2. ExecutionUnrecorded'
      BY <3>1 DEF ExecutionUnrecorded
    <3> QED
      BY <3>2 DEF AnchorCurrentWhenRecorded
  <2>3. CASE AppendEvent(t)
    BY <2>3, AppendSetsAnchor DEF TypeInv, AnchorCurrentWhenRecorded
  <2>4. CASE ~EvaluateCommit(t) /\ ~ExecuteCommit(t) /\ ~AppendEvent(t)
    <3>1. UNCHANGED ledger /\ request'.meta = request.meta
      BY <1>1, <2>4, OtherStepsKeepAnchor
    <3>2. ExecutionUnrecorded => ExecutionUnrecorded'
      <4>1. \A u \in Thread : events'[u] = events[u] \/ events[u] = <<>>
        BY <1>0, <1>1, <2>4, StepOwes
      <4>2. <<"execution_completed">> # <<>>
        OBVIOUS
      <4> QED
        BY <4>1, <4>2 DEF ExecutionUnrecorded
    <3>3. AnchorCurrent => AnchorCurrent'
      BY <3>1 DEF AnchorCurrent
    <3> QED
      BY <1>0, <3>2, <3>3 DEF AnchorCurrentWhenRecorded
  <2> QED
    BY <2>1, <2>2, <2>3, <2>4
<1>2. ASSUME NEW t \in Thread, NEW kind \in Kinds, NEW j \in Job \cup {NoJob}, Receive(t, kind, j)
      PROVE  AnchorCurrentWhenRecorded'
  BY <1>0, <1>2 DEF Receive, AnchorCurrentWhenRecorded, ExecutionUnrecorded, AnchorCurrent
<1>3. CASE EditConditions
  <2>1. request'.meta = request.meta
    BY <1>0, <1>3 DEF EditConditions, Rows
  <2> QED
    BY <1>0, <1>3, <2>1 DEF EditConditions, session, AnchorCurrentWhenRecorded,
       ExecutionUnrecorded, AnchorCurrent
<1>4. CASE UNCHANGED vars
  BY <1>0, <1>4 DEF vars, session, AnchorCurrentWhenRecorded, ExecutionUnrecorded, AnchorCurrent
<1> QED
  BY <1>1, <1>2, <1>3, <1>4 DEF Next, Abort

\* If no handler dies, the ledger agrees with its head anchor whenever no execute is
\* between its commit and its event, for any number of handlers and any calls.
THEOREM AnchorIsCurrentWhenRecorded ==
  ASSUME CanAbort = FALSE
  PROVE  Spec => []AnchorCurrentWhenRecorded
<1>1. Init => AnchorCurrentWhenRecorded
  <2>1. ASSUME Init PROVE AnchorCurrent
    BY <2>1 DEF Init, NoRow, AnchorCurrent
  <2> QED
    BY <2>1 DEF AnchorCurrentWhenRecorded
<1>2. TypeInv /\ FiledInv /\ AnchorCurrentWhenRecorded /\ [Next]_vars
        => AnchorCurrentWhenRecorded'
  BY AnchorStep
<1> QED
  BY <1>1, <1>2, FiledInvariant, PTL DEF Spec

-----------------------------------------------------------------------------
(* The runtime implements the release gate: the commit of a decision is    *)
(* Decide, an approving review is Approve, a commit of execute or of       *)
(* complete is Release, and every other step leaves the gate as it is.     *)

GateStays == UNCHANGED <<decision.outcome, approved, released>>

LEMMA StepImplementsGate ==
  ASSUME TypeOK, GateInv, NEW t \in Thread, Step(t)
  PROVE  Gate!Next \/ GateStays
<1>1. CASE EvaluateCommit(t)
  <2>1. decision.outcome = "NONE" /\ UNCHANGED <<approved, released>>
    BY <1>1 DEF EvaluateCommit, PrimaryKeyFree, GateInv, DecisionPaired
  <2>2. decision' \in Results
    BY <1>1, RuntimeAssumption, EvaluateType DEF EvaluateCommit
  <2>3. decision'.outcome \in {"ADMIT", "HOLD", "ESCALATE", "REFUSE"}
    BY <2>2 DEF Results, Outcomes
  <2> QED
    BY <2>1, <2>3 DEF Gate!Next, Gate!Decide
<1>2. ASSUME NEW kind \in ReviewKinds, ReviewCommit(t, kind)
      PROVE  Gate!Next \/ GateStays
  <2>1. CASE kind = "approve"
    <3>1. decision.outcome \notin {"NONE", "REFUSE"}
      BY <1>2, <2>1 DEF ReviewCommit, ReviewAccepts, AtDecide, GateInv, CallsDecided
    <3>2. decision.outcome \in {"ADMIT", "HOLD", "ESCALATE"}
      BY <3>1 DEF TypeOK, Results, Outcomes, NoDecision, Result
    <3>3. approved' = TRUE /\ UNCHANGED <<decision, released>>
      BY <1>2, <2>1 DEF ReviewCommit
    <3> QED
      BY <3>2, <3>3 DEF Gate!Next, Gate!Approve
  <2>2. CASE kind # "approve"
    BY <1>2, <2>2 DEF ReviewCommit, GateStays, TypeOK
  <2> QED
    BY <2>1, <2>2
<1>3. CASE ExecuteCommit(t) \/ CompleteCommit(t)
  <2>1. Cleared
    BY <1>3 DEF ExecuteCommit, CompleteCommit, FinalExecutionError, GateInv, CopiesCleared,
                WorkCleared, Releasing
  <2>2. released' = TRUE /\ UNCHANGED <<decision, approved>>
    BY <1>3 DEF ExecuteCommit, CompleteCommit
  <2> QED
    BY <2>1, <2>2 DEF Gate!Next, Gate!Release, Cleared
<1>4. CASE \E j \in Job : QueueBlocked(t, j) \/ QueueCommit(t, j)
  BY <1>4 DEF QueueBlocked, QueueCommit, GateStays
<1> QED
  BY <1>1, <1>2, <1>3, <1>4
     DEF Step, EvaluateDuplicate, ReviewBlocked, ExecuteReplay, ExecuteBlocked, View,
         VerifyReport, ClaimCommit, CompleteLoad, FailCommit, Reload, TakeLock,
         AppendEvent, GateStays

\* Whatever rows, copies of rows, jobs and sessions do, one request is decided
\* once, approved only if it was not refused, and released only if it was
\* admitted or approved.
THEOREM RuntimeImplementsGate == Spec => ImplementsReleaseGate
<1>1. Init => Gate!Init
  BY DEF Init, Gate!Init, NoDecision, Result
<1>2. TypeOK /\ GateInv /\ [Next]_vars
        => [Gate!Next]_<<decision.outcome, approved, released>>
  <2> SUFFICES ASSUME TypeOK, GateInv, [Next]_vars
               PROVE  Gate!Next \/ GateStays
    BY DEF GateStays
  <2>1. ASSUME NEW t \in Thread, NEW kind \in Kinds, NEW j \in Job \cup {NoJob}, Receive(t, kind, j)
        PROVE  GateStays
    BY <2>1 DEF Receive, GateStays
  <2>2. ASSUME NEW t \in Thread, Abort(t)
        PROVE  GateStays
    BY <2>2 DEF Abort, GateStays
  <2>3. CASE EditConditions
    BY <2>3 DEF EditConditions, GateStays
  <2>4. CASE UNCHANGED vars
    BY <2>4 DEF vars, GateStays
  <2> QED
    BY <2>1, <2>2, <2>3, <2>4, StepImplementsGate DEF Next
<1> QED
  BY <1>1, <1>2, GateInvariant, PTL DEF Spec, ImplementsReleaseGate, Gate!Spec
=============================================================================
