--------------------------- MODULE RequestRuntime ---------------------------
(***************************************************************************)
(* The life of one governed request: the routes of operations.py and       *)
(* jobs.py that read and write its row, its jobs and its audit ledger,     *)
(* run by the handler threads of one server process.                       *)
(*                                                                         *)
(* A handler reads the request row into its session, decides on that copy, *)
(* commits, and then records audit events.  Each read and each commit is   *)
(* one step, so other handlers run between them.  The database is READ     *)
(* COMMITTED: a commit writes the columns the handler assigned and nothing *)
(* checks that the row is still the one it read.  A commit also expires    *)
(* the session's copy, so that the next use reads the row again.           *)
(*                                                                         *)
(* Rows of different requests never meet (each has its own lock, row and   *)
(* ledger), so one request is enough.                                      *)
(***************************************************************************)
EXTENDS PolicyPacks, Sequences, FiniteSets

CONSTANTS
  Thread,       \* handler threads of the server (its thread pool)
  NoThread,     \* owner of a free request lock, worker of an unclaimed job
  Job,          \* job ids that queueing may create
  NoJob,
  Submissions,  \* conditions a client may submit
  Edits,        \* conditions an edit of the row outside the API may install
  Kinds,        \* operations that clients call in this instance
  MaxCalls,     \* bound: calls received in one behaviour
  CanAbort      \* whether a handler may die between two steps

ReviewKinds == {"approve", "hold", "escalate", "refuse"}
JobKinds    == {"claim", "complete", "fail"}
AllKinds    == {"evaluate", "execute", "view", "verify", "queue"} \cup ReviewKinds \cup JobKinds

ASSUME RuntimeAssumption ==
  /\ NoThread \notin Thread
  /\ NoJob \notin Job
  /\ Submissions \subseteq Conditions
  /\ Edits \subseteq Conditions
  /\ Kinds \subseteq AllKinds
  /\ MaxCalls \in Nat
  /\ CanAbort \in BOOLEAN

VARIABLES
  request,   \* the operation_requests row: lifecycle status, conditions, metadata
  decision,  \* the decisions row, written with the request and never updated
  job,       \* the execution_jobs rows: status of each id
  worker,    \* worker_id of each job
  ledger,    \* the request's audit_events, in order of creation
  lock,      \* owner of the request's process-local lock
  pc,        \* where each handler thread stands
  call,      \* the call each handler serves,
  on,        \*   the job it is about,
  seen,      \*   the copy of the request row its session holds,
  tail,      \*   the hash it appends its next event to,
  events,    \*   and the events it has still to record
  calls,     \* calls received so far
  approved,  \* history: an approving review has been committed
  released   \* history: a commit has made the request executed

session == <<call, on, seen, tail, events>>
vars == <<request, decision, job, worker, ledger, lock, pc, session, calls, approved, released>>

-----------------------------------------------------------------------------
(* Data.                                                                   *)

Statuses == {"none", "ready_to_execute", "waiting_for_review", "pending_approval",
             "closed_not_released", "approved_for_execution",
             "pending_higher_authority", "queued_for_execution", "executed"}

JobStatuses == {"ABSENT", "BLOCKED", "QUEUED", "RUNNING", "COMPLETED", "FAILED"}

EventKinds == {"request_snapshot_captured", "request_evaluated", "review_action",
               "review_blocked", "execution_completed", "execution_blocked",
               "execution_idempotent_replay", "viewed", "execution_job_queued",
               "execution_job_blocked", "execution_job_running",
               "execution_job_completed", "execution_job_failed"}

\* Where a handler stands: before the commit that decides the call (a complete
\* has one more read), before it reads the row again, and around record_event.
Places == {"idle", "decide", "complete", "reload", "record", "append"}

NoConditions == [workflow |-> "none"]
NoDecision   == Result("NONE", "NONE", TRUE)

(* Request metadata: the audit head anchor and whether execution_control   *)
(* holds a stored result.  The hash of the n-th event is n, the genesis    *)
(* hash is 0, and an anchor that was never written is 0 as well.           *)
Metadata == [head : Nat, count : Nat, result : BOOLEAN]
Rows     == [status : Statuses, conditions : Conditions \cup {NoConditions},
             meta : Metadata]
Events   == [kind : EventKinds, prev : Nat]

\* No row in the database; in a session, no copy that is still valid.
NoRow == [status |-> "none", conditions |-> NoConditions,
          meta |-> [head |-> 0, count |-> 0, result |-> FALSE]]

\* Mutated form: an escalated request starts out ready.
LifecycleStatusEscalateReady(outcome) ==
  IF outcome \in {"ADMIT", "ESCALATE"} THEN "ready_to_execute"
  ELSE IF outcome = "HOLD"             THEN "waiting_for_review"
  ELSE "closed_not_released"

LifecycleStatus(outcome) ==
  IF outcome = "ADMIT"         THEN "ready_to_execute"
  ELSE IF outcome = "HOLD"     THEN "waiting_for_review"
  ELSE IF outcome = "ESCALATE" THEN "pending_approval"
  ELSE "closed_not_released"

\* Mutated form: the review's action is stored as the status.
ReviewStatusIsAction(kind) == kind

ReviewStatus(kind) ==
  IF kind = "approve"       THEN "approved_for_execution"
  ELSE IF kind = "hold"     THEN "waiting_for_review"
  ELSE IF kind = "escalate" THEN "pending_higher_authority"
  ELSE "closed_not_released"

\* Mutated form: a queued request may also be executed directly.
ExecutableQueued == {"ready_to_execute", "approved_for_execution", "queued_for_execution"}

Executable == {"ready_to_execute", "approved_for_execution"}

-----------------------------------------------------------------------------
(* Guards of the handlers.  An operator in a "mutated form" comment is not *)
(* used: the checks put it in place of the definition that follows it.     *)

\* Mutated form: the test for HOLD is dropped.
FinalExecutionErrorHoldPasses(row) ==
  \/ decision.outcome = "REFUSE"
  \/ row.status \notin Executable
  \/ decision.outcome # "ADMIT" /\ row.status # "approved_for_execution"
  \/ Evaluate(row.conditions) # decision

\* _final_execution_error: why the row, as this call read it, may not execute.
FinalExecutionError(row) ==
  \/ decision.outcome = "REFUSE"
  \/ row.status \notin Executable
  \/ decision.outcome = "HOLD"
  \/ decision.outcome # "ADMIT" /\ row.status # "approved_for_execution"
  \/ Evaluate(row.conditions) # decision

\* Mutated form: only a closed request is kept out of the queue.
QueueAcceptsAnyOpen(row) == row.status # "closed_not_released"

\* queue_execution_job: the two tests before a job is QUEUED.
QueueAccepts(row) ==
  /\ row.status \in Executable
  /\ decision.outcome # "ADMIT" => row.status = "approved_for_execution"

\* Mutated form: approval is not blocked for a refused request.
ReviewAcceptsRefused(kind) == TRUE

\* review_request: approving is blocked when the decision was REFUSE.
ReviewAccepts(kind) == ~(kind = "approve" /\ decision.outcome = "REFUSE")

\* Mutated form: fail accepts a job in any state.
JobAcceptsAnyFail(kind, status) ==
  \/ kind = "claim"    /\ status = "QUEUED"
  \/ kind = "complete" /\ status = "RUNNING"
  \/ kind = "fail"     /\ status # "ABSENT"

\* The job status each worker route asks for; any other answers 409.
JobAccepts(kind, status) ==
  \/ kind = "claim"    /\ status = "QUEUED"
  \/ kind = "complete" /\ status = "RUNNING"
  \/ kind = "fail"     /\ status \in {"QUEUED", "RUNNING"}

\* Mutated form: the second insert of a request id is accepted.
PrimaryKeyUnchecked == TRUE

\* The insert of operation_requests.id succeeds.
PrimaryKeyFree == request.status = "none"

\* Mutated form: the lock is not waited for.
RequestLockIgnored == TRUE

\* The request's threading.RLock can be taken.
RequestLockFree == lock = NoThread

\* Mutated form: the lock outlives the with block.
RequestLockKept == lock

\* The lock's owner after record_event.
RequestLockReleased == NoThread

-----------------------------------------------------------------------------
(* Steps of a call.                                                        *)

AtDecide(t, kind) == pc[t] = "decide" /\ call[t] = kind

\* The handler answers, or dies: its session and what it holds are gone.
Return(t) ==
  /\ pc'     = [pc EXCEPT ![t] = "idle"]
  /\ call'   = [call EXCEPT ![t] = "none"]
  /\ on'     = [on EXCEPT ![t] = NoJob]
  /\ seen'   = [seen EXCEPT ![t] = NoRow]
  /\ tail'   = [tail EXCEPT ![t] = 0]
  /\ events' = [events EXCEPT ![t] = <<>>]

\* The handler goes on to record_event with the copy of the row it still has.
RecordCached(t, kinds) ==
  /\ pc'     = [pc EXCEPT ![t] = "record"]
  /\ events' = [events EXCEPT ![t] = kinds]
  /\ UNCHANGED <<call, on, seen, tail>>

\* The handler has committed: its copy of the row is expired.
RecordExpired(t, kinds) ==
  /\ pc'     = [pc EXCEPT ![t] = "record"]
  /\ events' = [events EXCEPT ![t] = kinds]
  /\ seen'   = [seen EXCEPT ![t] = NoRow]
  /\ UNCHANGED <<call, on, tail>>

\* The handler has committed and reads the row again before it records.
RecordReloaded(t, kinds) ==
  /\ pc'     = [pc EXCEPT ![t] = "reload"]
  /\ events' = [events EXCEPT ![t] = kinds]
  /\ UNCHANGED <<call, on, seen, tail>>

(* A call arrives and its handler reads what it decides on.  Calls that    *)
(* end at that point without a change (404, 409, a wrong tenant or role)   *)
(* are not received.                                                       *)
Receive(t, kind, j) ==
  /\ pc[t] = "idle"
  /\ calls < MaxCalls
  /\ kind = "evaluate" <=> request.status = "none"
  /\ IF kind \in JobKinds THEN j \in Job /\ JobAccepts(kind, job[j]) ELSE j = NoJob
  /\ kind = "queue" => Cardinality({u \in Thread : call[u] = "queue"})
                         < Cardinality({i \in Job : job[i] = "ABSENT"})
  /\ calls' = calls + 1
  /\ pc'   = [pc EXCEPT ![t] = "decide"]
  /\ call' = [call EXCEPT ![t] = kind]
  /\ on'   = [on EXCEPT ![t] = j]
  /\ seen' = [seen EXCEPT ![t] = IF kind \in JobKinds THEN NoRow ELSE request]
  /\ UNCHANGED <<tail, events>>
  /\ UNCHANGED <<request, decision, job, worker, ledger, lock, approved, released>>

\* Mutated form: the second record_event call is forgotten.
EvaluationEventsSnapshotOnly == <<"request_snapshot_captured">>

\* What create_and_evaluate_request records, in order.
EvaluationEvents == <<"request_snapshot_captured", "request_evaluated">>

\* create_and_evaluate_request: the request and its decision in one commit.
EvaluateCommit(t) ==
  /\ AtDecide(t, "evaluate")
  /\ PrimaryKeyFree
  /\ \E c \in Submissions :
       /\ decision' = Evaluate(c)
       /\ request'  = [status |-> LifecycleStatus(Evaluate(c).outcome),
                       conditions |-> c, meta |-> NoRow.meta]
  /\ RecordReloaded(t, EvaluationEvents)
  /\ UNCHANGED <<job, worker, ledger, lock, calls, approved, released>>

\* The same request id was inserted since this call looked: the commit fails.
EvaluateDuplicate(t) ==
  /\ AtDecide(t, "evaluate")
  /\ ~PrimaryKeyFree
  /\ Return(t)
  /\ UNCHANGED <<request, decision, job, worker, ledger, lock, calls, approved, released>>

\* review_request.  Assigning the status the session already holds is no write.
ReviewCommit(t, kind) ==
  /\ AtDecide(t, kind)
  /\ ReviewAccepts(kind)
  /\ request' = [request EXCEPT !.status =
                   IF seen[t].status = ReviewStatus(kind) THEN @ ELSE ReviewStatus(kind)]
  /\ approved' = (approved \/ kind = "approve")
  /\ RecordExpired(t, <<"review_action">>)
  /\ UNCHANGED <<decision, job, worker, ledger, lock, calls, released>>

ReviewBlocked(t, kind) ==
  /\ AtDecide(t, kind)
  /\ ~ReviewAccepts(kind)
  /\ RecordCached(t, <<"review_blocked">>)
  /\ UNCHANGED <<request, decision, job, worker, ledger, lock, calls, approved, released>>

\* execute_request, when the row it read is executed already: the stored
\* result, or one built from the decision, is returned again.
ExecuteReplay(t) ==
  /\ AtDecide(t, "execute")
  /\ seen[t].status = "executed"
  /\ RecordCached(t, <<"execution_idempotent_replay">>)
  /\ UNCHANGED <<request, decision, job, worker, ledger, lock, calls, approved, released>>

ExecuteBlocked(t) ==
  /\ AtDecide(t, "execute")
  /\ seen[t].status # "executed"
  /\ FinalExecutionError(seen[t])
  /\ RecordCached(t, <<"execution_blocked">>)
  /\ UNCHANGED <<request, decision, job, worker, ledger, lock, calls, approved, released>>

\* Mutated form: the lifecycle status is left for later.
ExecutedRowResultOnly(row) ==
  [request EXCEPT !.meta = [row.meta EXCEPT !.result = TRUE]]
\* Mutated form: the result is not stored.
ExecutedRowStatusOnly(row) ==
  [request EXCEPT !.status = "executed"]

\* The status, and the whole metadata column as the call read it (row) plus
\* the stored result, in one commit.
ExecutedRow(row) ==
  [request EXCEPT !.status = "executed", !.meta = [row.meta EXCEPT !.result = TRUE]]

\* execute_request; building the event's detail reads the row again.
ExecuteCommit(t) ==
  /\ AtDecide(t, "execute")
  /\ seen[t].status # "executed"
  /\ ~FinalExecutionError(seen[t])
  /\ request' = ExecutedRow(seen[t])
  /\ released' = TRUE
  /\ RecordReloaded(t, <<"execution_completed">>)
  /\ UNCHANGED <<decision, job, worker, ledger, lock, calls, approved>>

\* The receipt route and the two replay routes change nothing but the ledger.
View(t) ==
  /\ AtDecide(t, "view")
  /\ RecordCached(t, <<"viewed">>)
  /\ UNCHANGED <<request, decision, job, worker, ledger, lock, calls, approved, released>>

\* verify_request_audit_ledger reads the events after it has read the anchor,
\* reports whether they agree, and changes nothing.
VerifyReport(t) ==
  /\ AtDecide(t, "verify")
  /\ Return(t)
  /\ UNCHANGED <<request, decision, job, worker, ledger, lock, calls, approved, released>>

\* queue_execution_job: a refused attempt leaves a BLOCKED job behind.
QueueBlocked(t, j) ==
  /\ AtDecide(t, "queue")
  /\ job[j] = "ABSENT"
  /\ ~QueueAccepts(seen[t])
  /\ job' = [job EXCEPT ![j] = "BLOCKED"]
  /\ RecordExpired(t, <<"execution_job_blocked">>)
  /\ UNCHANGED <<request, decision, worker, ledger, lock, calls, approved, released>>

QueueCommit(t, j) ==
  /\ AtDecide(t, "queue")
  /\ job[j] = "ABSENT"
  /\ QueueAccepts(seen[t])
  /\ job' = [job EXCEPT ![j] = "QUEUED"]
  /\ request' = [request EXCEPT !.status = "queued_for_execution"]
  /\ RecordExpired(t, <<"execution_job_queued">>)
  /\ UNCHANGED <<decision, worker, ledger, lock, calls, approved, released>>

\* claim_execution_job: the worker is the client this thread serves.
ClaimCommit(t) ==
  /\ AtDecide(t, "claim")
  /\ job' = [job EXCEPT ![on[t]] = "RUNNING"]
  /\ worker' = [worker EXCEPT ![on[t]] = t]
  /\ RecordExpired(t, <<"execution_job_running">>)
  /\ UNCHANGED <<request, decision, ledger, lock, calls, approved, released>>

\* complete_execution_job reads the request after it has checked the job.
CompleteLoad(t) ==
  /\ AtDecide(t, "complete")
  /\ pc'  = [pc EXCEPT ![t] = "complete"]
  /\ seen' = [seen EXCEPT ![t] = request]
  /\ UNCHANGED <<call, on, tail, events, request, decision, job, worker, ledger, lock, calls, approved, released>>

\* No test of the lifecycle here: the request becomes executed whatever it was.
CompleteCommit(t) ==
  /\ pc[t] = "complete"
  /\ job' = [job EXCEPT ![on[t]] = "COMPLETED"]
  /\ request' = [request EXCEPT !.status =
                   IF seen[t].status = "executed" THEN @ ELSE "executed"]
  /\ released' = TRUE
  /\ RecordExpired(t, <<"execution_job_completed">>)
  /\ UNCHANGED <<decision, worker, ledger, lock, calls, approved>>

\* fail_execution_job leaves the request as it is.
FailCommit(t) ==
  /\ AtDecide(t, "fail")
  /\ job' = [job EXCEPT ![on[t]] = "FAILED"]
  /\ RecordExpired(t, <<"execution_job_failed">>)
  /\ UNCHANGED <<request, decision, worker, ledger, lock, calls, approved, released>>

Reload(t) ==
  /\ pc[t] = "reload"
  /\ pc'  = [pc EXCEPT ![t] = "record"]
  /\ seen' = [seen EXCEPT ![t] = request]
  /\ UNCHANGED <<call, on, tail, events, request, decision, job, worker, ledger, lock, calls, approved, released>>

-----------------------------------------------------------------------------
(* record_event: everything between taking and releasing the request lock. *)

\* _latest_event_hash of the committed events, and the row: read now if the
\* session holds no valid copy, the copy from before the lock otherwise.
TakeLock(t) ==
  /\ pc[t] = "record"
  /\ RequestLockFree
  /\ lock' = t
  /\ pc'   = [pc EXCEPT ![t] = "append"]
  /\ tail' = [tail EXCEPT ![t] = Len(ledger)]
  /\ seen' = [seen EXCEPT ![t] = IF @ = NoRow THEN request ELSE @]
  /\ UNCHANGED <<call, on, events, request, decision, job, worker, ledger, calls, approved, released>>

\* Mutated form: the anchor's count is taken before the event is added.
HeadAnchorCountBefore(meta) ==
  [meta EXCEPT !.head = Len(ledger) + 1, !.count = Len(ledger)]

\* _update_head_anchor: the new event's hash and the count that includes it,
\* put into the session's copy of the metadata.
HeadAnchor(meta) ==
  [meta EXCEPT !.head = Len(ledger) + 1, !.count = Len(ledger) + 1]

AppendEvent(t) ==
  /\ pc[t] = "append"
  /\ ledger'  = Append(ledger, [kind |-> Head(events[t]), prev |-> tail[t]])
  /\ request' = [request EXCEPT !.meta = HeadAnchor(seen[t].meta)]
  /\ lock' = RequestLockReleased
  /\ IF Len(events[t]) = 1
     THEN Return(t)
     ELSE RecordExpired(t, Tail(events[t]))
  /\ UNCHANGED <<decision, job, worker, calls, approved, released>>

-----------------------------------------------------------------------------
(* The environment.                                                        *)

\* The process is killed, or the database refuses a statement: what is not
\* committed is lost, and the lock is not held any more.
Abort(t) ==
  /\ CanAbort
  /\ pc[t] # "idle"
  /\ Return(t)
  /\ lock' = IF lock = t THEN NoThread ELSE lock
  /\ UNCHANGED <<request, decision, job, worker, ledger, calls, approved, released>>

\* The stored conditions are changed in the database, past the API.
EditConditions ==
  /\ request.status # "none"
  /\ \E c \in Edits : request' = [request EXCEPT !.conditions = c]
  /\ UNCHANGED <<decision, job, worker, ledger, lock, pc, session, calls, approved, released>>

-----------------------------------------------------------------------------
Init ==
  /\ request  = NoRow
  /\ decision = NoDecision
  /\ job      = [j \in Job |-> "ABSENT"]
  /\ worker   = [j \in Job |-> NoThread]
  /\ ledger   = <<>>
  /\ lock     = NoThread
  /\ pc       = [t \in Thread |-> "idle"]
  /\ call     = [t \in Thread |-> "none"]
  /\ on       = [t \in Thread |-> NoJob]
  /\ seen     = [t \in Thread |-> NoRow]
  /\ tail     = [t \in Thread |-> 0]
  /\ events   = [t \in Thread |-> <<>>]
  /\ calls    = 0
  /\ approved = FALSE
  /\ released = FALSE

\* What a handler that has received its call does next.
Step(t) ==
  \/ EvaluateCommit(t) \/ EvaluateDuplicate(t)
  \/ \E kind \in ReviewKinds : ReviewCommit(t, kind) \/ ReviewBlocked(t, kind)
  \/ ExecuteReplay(t) \/ ExecuteBlocked(t) \/ ExecuteCommit(t)
  \/ View(t) \/ VerifyReport(t)
  \/ \E j \in Job : QueueBlocked(t, j) \/ QueueCommit(t, j)
  \/ ClaimCommit(t) \/ CompleteLoad(t) \/ CompleteCommit(t) \/ FailCommit(t)
  \/ Reload(t) \/ TakeLock(t) \/ AppendEvent(t)

Next ==
  \/ \E t \in Thread, kind \in Kinds, j \in Job \cup {NoJob} : Receive(t, kind, j)
  \/ \E t \in Thread : Step(t) \/ Abort(t)
  \/ EditConditions

Spec == Init /\ [][Next]_vars

\* A handler that can go on does go on: threads are scheduled and the database
\* answers.  Calls are bounded, so the lock is not contended for ever.
FairSpec == Spec /\ \A t \in Thread : WF_vars(Step(t))

-----------------------------------------------------------------------------
(* Correctness.                                                            *)

TypeOK ==
  /\ request  \in Rows
  /\ decision \in Results \cup {NoDecision}
  /\ job      \in [Job -> JobStatuses]
  /\ worker   \in [Job -> Thread \cup {NoThread}]
  /\ ledger   \in Seq(Events)
  /\ lock     \in Thread \cup {NoThread}
  /\ pc       \in [Thread -> Places]
  /\ call     \in [Thread -> AllKinds \cup {"none"}]
  /\ on       \in [Thread -> Job \cup {NoJob}]
  /\ seen     \in [Thread -> Rows]
  /\ tail     \in [Thread -> Nat]
  /\ events   \in [Thread -> Seq(EventKinds)]
  /\ calls    \in Nat
  /\ approved \in BOOLEAN
  /\ released \in BOOLEAN

\* A refused request never reaches a state from which it could be executed: no
\* interleaving of reviews, queueing, workers and deaths of handlers gives it
\* an executable status, an approval or a job that a worker may claim.
RefusedNeverReleased ==
  decision.outcome = "REFUSE" =>
    /\ request.status \in {"closed_not_released", "waiting_for_review", "pending_higher_authority"}
    /\ \A j \in Job : job[j] \in {"ABSENT", "BLOCKED"}
    /\ ~approved /\ ~released

\* A held or escalated request is executable, queued, given to a worker or
\* executed only after some review has committed an approval, even when every
\* handler decides on a copy of the row that others have since overwritten.
ReleaseNeedsApproval ==
  decision.outcome \in {"HOLD", "ESCALATE"} =>
    \/ approved
    \/ /\ request.status \notin Executable \cup {"queued_for_execution", "executed"}
       /\ \A j \in Job : job[j] \in {"ABSENT", "BLOCKED"}
       /\ ~released

\* The request's ledger is one chain: every event names its predecessor's hash,
\* although handlers read the tail and append in separate statements.
ChainLinked == \A i \in 1..Len(ledger) : ledger[i].prev = i - 1

\* The head anchor in the row is the last event of the ledger.
AnchorCurrent == request.meta.head = Len(ledger) /\ request.meta.count = Len(ledger)

\* The head anchor in the row names an event of the ledger and agrees with its
\* own count; stale rewrites and deaths can leave it behind, never ahead.
AnchorNeverAhead ==
  /\ request.meta.head = request.meta.count
  /\ request.meta.count <= Len(ledger)

\* An execute that has rewritten the metadata and not yet recorded its event.
ExecutionUnrecorded == \E t \in Thread : events[t] = <<"execution_completed">>

\* While no handler dies, the anchor can disagree with the ledger only between
\* an execute's commit and the event of that execute: once handlers have
\* answered, the ledger verifies against its anchor.
AnchorCurrentWhenRecorded ==
  ~ExecutionUnrecorded => AnchorCurrent

\* The ledger tells no false story of releases: an execution_completed event
\* means that a commit has executed the request and that it was neither
\* refused nor held.
CompletedEventIsTruthful ==
  (\E i \in 1..Len(ledger) : ledger[i].kind = "execution_completed") =>
    released /\ decision.outcome \in {"ADMIT", "ESCALATE"}

\* A decision, once stored, is never replaced.
DecisionIsFinal == [][decision # NoDecision => decision' = decision]_vars

\* A job that was queued, whatever became of it.
Worked == {"QUEUED", "RUNNING", "COMPLETED", "FAILED"}

JobsMoveOn ==
  \A j \in Job :
    /\ job[j] = "BLOCKED" => job'[j] = "BLOCKED"
    /\ job[j] \in Worked => job'[j] \in (Worked \ {"QUEUED"}) \cup {job[j]}
    /\ worker[j] \in Thread => worker'[j] \in Thread

\* JobsNeverReopen: claim, complete and fail act on a job status they read earlier, so
\* that a finished job may run again; but a blocked job stays blocked, a job is
\* queued once, and a claimed one keeps a worker, however many workers race and die.
JobsNeverReopen == [][JobsMoveOn]_vars

\* The runtime implements the release gate.
Gate == INSTANCE ReleaseGate WITH outcome <- decision.outcome
ImplementsReleaseGate == Gate!Spec

EventCount(kind) == Cardinality({i \in 1..Len(ledger) : ledger[i].kind = kind})

\* The events that only the commit of a request leads to.
FilingKinds == {"request_snapshot_captured", "request_evaluated"}

\* FiledOnce: no request has two snapshots or two evaluations in its ledger, however
\* many calls submit it at once and wherever their handlers die.
FiledOnce == \A kind \in FilingKinds : EventCount(kind) <= 1

\* At most one execution is recorded.
ExecutedOnce == EventCount("execution_completed") <= 1

\* The stored result of an execution is there for every repeated call.
ResultKept ==
  (request.status = "executed" /\ \A j \in Job : job[j] # "COMPLETED") => request.meta.result

\* A job that is blocked, completed or failed stays so.
JobEndsOnce ==
  [][\A j \in Job : job[j] \in {"BLOCKED", "COMPLETED", "FAILED"} => job'[j] = job[j]]_vars

\* QueuedWaits: without a review, and one call at a time, a queued request leaves the
\* queue only together with a running job that completes; after a failed job it
\* stays queued for ever, whatever is retried and wherever handlers die.
QueuedWaits ==
  [][request.status = "queued_for_execution" /\ request'.status # "queued_for_execution"
       => \E j \in Job : job[j] = "RUNNING" /\ job'[j] = "COMPLETED"]_vars

\* Every call that is received returns: no handler waits for ever for the
\* request lock or for its second event.
CallsReturn == \A t \in Thread : pc[t] # "idle" ~> pc[t] = "idle"

\* A stored decision is followed by its snapshot and evaluation events.
DecisionIsAudited ==
  decision # NoDecision ~>
    EventCount("request_snapshot_captured") = 1 /\ EventCount("request_evaluated") = 1

-----------------------------------------------------------------------------
(* What the repository says of the program and the code does not keep; each *)
(* is checked by a run of its own that finds the counterexample.            *)

\* docs/execution-idempotency.md:3, execution is "a controlled one-way
\* lifecycle transition": an executed request stays executed.
ExecutedIsOneWay ==
  [][request.status = "executed" => request'.status = "executed"]_vars

\* docs/execution-idempotency.md:15 and :21, "The request can execute only when: ...
\* the current runtime evaluation still matches the stored decision outcome": here
\* the conditions are edited in the database after the call has read them.
ExecutesOnCurrentConditions ==
  [][\A t \in Thread :
       pc[t] = "decide" /\ pc'[t] = "reload" /\ call[t] = "execute"
         => Evaluate(request.conditions) = decision]_vars

\* docs/execution-idempotency.md:35, "Repeated calls do not create a second
\* `execution_completed` event": here of two calls that run at once.
RepeatedCallsRecordOnce == ExecutedOnce
=============================================================================
