# Mission Control runtime: models, checks and proofs

This directory holds TLA+ models of the customer operations runtime in
`backend/app`, the TLC configurations that check them on small instances, and
TLAPS proofs of the results that matter most for every instance. Paths below
are relative to the repository; line numbers refer to the files under
`backend/app` unless they say otherwise.

## 1. The system

The runtime takes a *request* that declares its conditions (authority, scope,
evidence, risk, whether approval is required), asks a policy pack for a
decision, stores both, and from then on lets reviewers, executors and workers
move the request through its lifecycle. Every step is recorded in a hash-chained
audit ledger, and the result can be shown as receipts, replays, integrity
reports and proof bundles.

The routes are synchronous FastAPI handlers: each call runs on a thread of the
server's pool with a database session of its own. Nothing but the database, one
lock per request (for recording audit events), a few dictionaries and the proof
directory is shared.

### Components, their state, and what makes them correct

| Component | State | Operations | Must hold |
|---|---|---|---|
| Policy packs (`policy_packs/`, `services/policy_gate.py`) | none | `evaluate_request` | admits exactly what the domain releases without review; refuses without authority; never kinder to worse conditions |
| Request lifecycle (`routes/operations.py`) | `operation_requests`, `decisions` | evaluate, review, execute, receipt, two replays | a decision is final; nothing refused is released; nothing held or escalated is released without approval; execution happens once and is recorded once |
| Execution jobs (`routes/jobs.py`) | `execution_jobs`, the request's status | queue, claim, complete, fail | a job is claimed once and ends once; a job releases only what may be released |
| Audit ledger (`services/audit.py`, `routes/audit_ledger.py`) | `audit_events`, head anchor in the request's metadata, one lock per request | `record_event`, verify | one chain per request; the anchor names its last event; an untouched ledger verifies; every decision is recorded |
| Evidence and integrity (`services/integrity.py`, `/evidence`, `/integrity`) | `evidence_items`, captured hashes in the ledger | attach, report | every item is covered by a captured manifest; an untouched request reports VERIFIED |
| Proof store (`services/proof_store.py`) | one file per request | export, read, verify | an exported bundle verifies; a reader sees a whole bundle |
| Receipts and keys (`services/receipt.py`, `services/key_management.py`) | keys in the environment | sign, verify, rotate | what was signed with a key that is still listed verifies |
| Access (`services/rbac.py`, `services/tenant_guard.py`) | tokens, roles | authenticate, authorise, tenant check | a call acts only with its role's permissions and inside its tenant |
| API limits (`api_security.py`) | a deque of hits per client, buffered body | dispatch, body limit | at most `limit` calls in a window; no body above the limit reaches the application |
| Production settings (`production_settings.py`) | environment | start-up validation | an unsafe production set-up does not start |
| Customers, workflows (`routes/customers.py`) | two tables | insert or return | an existing row is never replaced |
| Legacy store (`routes/requests.py`, `routes/replay.py`) | three dictionaries | evaluate, read, replay, by anybody | nothing of it reaches the guarded rows |
| Metrics, monitoring | none | count, for anybody | they show no rows |
| Health, middleware, scripts, frontend, migrations | none | read, wire, show | – |

### How they interact

A call passes the middlewares (correlation id, body limit, rate limit), the
identity and tenant checks, and then its handler; the legacy, metrics, monitoring
and health routes have no identity and tenant checks. A handler reads the request
row into its session, decides on that copy, commits, and calls `record_event`,
which takes the request's lock, reads the last event, adds one, rewrites the
head anchor **inside the request row's metadata column**, and commits again.
That column is the meeting point of three writers: `record_event` (anchor),
`execute` (stored result), and evaluate (client metadata). Jobs and the
lifecycle meet in the row's status.

### What is hard

* Handlers decide on copies of the row. A commit writes the columns that were
  assigned and nothing checks that the row is still what was read.
* The metadata column is written whole, from a copy that may be older than the
  lock which protects the append.
* Most calls are two or three transactions (state, then one or two events), so a
  handler that dies in between leaves state without its record.
* The request locks live in one process.
* Rows may be edited in the database between a handler's check and its commit.
* Verification and the integrity report read what they compare in two or three
  statements.
* An evidence item is stored two commits before the manifest that covers it.
* Two paths release a request, the execute route and a worker's complete, with
  different tests.

`PROJECT.json` lists each hazard at its line with the properties that would
catch it, the open ones included.

## 2. The models

| Module | What it is |
|---|---|
| `PolicyPacks` | The decision function of the three packs, as pure operators. |
| `PolicyPacksMC` | Walks all conditions and single edits of them. |
| `PolicyPacksProofs` | Theorems about the packs and their walk. |
| `ReleaseGate` | Abstract specification: one request is decided once, may be approved if it was not refused, and is released only if admitted or approved. |
| `RequestRuntime` | One request: row, decision, jobs, ledger, lock and the handler threads that serve calls on it. |
| `RequestRuntimeMC` | Instances for TLC. |
| `RequestRuntimeProofs` | Theorems about `RequestRuntime` for all threads, jobs, submissions and bounds. |
| `RequestAloneProofs` | What holds of `RequestRuntime` besides when one handler runs at a time. |
| `EvidenceManifest` | One request's evidence: attach calls, captured manifests and integrity reports. |
| `EvidenceManifestProofs` | Theorems about `EvidenceManifest` for all threads, items and bounds. |
| `SlidingWindow` | Abstract specification: a rate limiter that remembers every admission. |
| `ApiLimits` | The two middlewares in front of every route: buffering of bodies and the rate limiter, under concurrent calls. |
| `ApiLimitsMC`, `ApiLimitsProofs` | Senders and message sizes for TLC; theorems about the limiter and the bodies. |
| `AuditLedger` | Recording, the stale anchor of an execute, tampering and the two verifiers of one request's ledger. |
| `AuditLedgerProofs` | Theorems about what a verified ledger shows. |
| `ProofStore` | Export, file, reader and signing keys of one request's proof bundle, on top of the database of `EvidenceManifest`. |
| `ProofStoreMC`, `ProofStoreProofs` | Key settings for TLC; theorems about bundles. |
| `Access` | Start-up checks, tokens, roles, tenants, the rows they guard, and the routes that ask for none of them. |
| `AccessMC`, `AccessProofs` | Tokens and environments for TLC; theorems about access. |

The modules meet where the code does. `RequestRuntime` has the insides of
`record_event` (lock, tail, anchor) and shows that an append is atomic; the other
modules may then take it as one step. `ProofStore` contains `EvidenceManifest`
itself: its database part takes exactly that module's steps, so an export runs
against attach calls and edits, and what is proved of `EvidenceManifest` is
cited in `ProofStoreProofs`. `Access` has the calls up to the point where
`RequestRuntime` and `EvidenceManifest` receive them. `PolicyPacks` decides;
`RequestRuntime` takes its outcomes as constants.

### RequestRuntime and the code

| State | Code |
|---|---|
| `request` | the `operation_requests` row: `lifecycle_status`, the condition columns, `request_metadata` as the head anchor plus whether `execution_control` holds a result; status `none` means no row |
| `decision` | the `decisions` row |
| `job`, `worker` | status and `worker_id` of the `execution_jobs` rows, `ABSENT` before the insert |
| `ledger` | the request's `audit_events` in order of creation; the hash of the n-th event is n, and `prev` is its `previous_hash` |
| `lock` | owner of `_REQUEST_LOCKS[request_id]` |
| `pc`, `call`, `on` | where a handler stands, its route and job |
| `seen` | the copy of the row in its session; `NoRow` when the copy is expired, as SQLAlchemy expires it at each commit |
| `tail`, `events` | the `previous_hash` it has read; the events it has still to record |
| `approved`, `released` | history of the commits that approve and that make the request executed |

One step is one database statement or commit that other handlers can see or
fall between: the read a handler decides on (`Receive`), its commit
(`EvaluateCommit`, `ReviewCommit`, `ExecuteCommit`, `QueueCommit`,
`ClaimCommit`, `CompleteLoad`/`CompleteCommit`, `FailCommit` and the blocked and
replay variants), the read that follows a commit before the lock is taken
(`Reload`), the tail read under the lock (`TakeLock`), and the insert with the
new anchor (`AppendEvent`). Which copy of the row `record_event` uses is what
the code does: a handler that has not committed still holds the copy it read at
the start (`RecordCached`); one that has committed reads it again under the lock
(`RecordExpired`), unless it touched the row in between, as evaluate (line 167)
and execute (line 250) do (`RecordReloaded`).

Guards come from the code's own tests: `FinalExecutionError`, `QueueAccepts`,
`ReviewAccepts`, `JobAccepts`. Calls that end without a change (404, 409, 403)
are not received. Names that end in a mistake (`QueueAcceptsAnyOpen`,
`HeadAnchorCountBefore`, ...) are mutated forms: each property of each passing
run is shown to fail when one of them replaces the definition it is the mutated
form of, so no property holds whatever the code does.

Assumptions of the model:

* One server process (the locks are process-local).
* READ COMMITTED isolation, which PostgreSQL has by default; on SQLite writers
  are serialised, so its behaviours are among these.
* Audit events are ordered by `created_at`: the clock does not go back and two
  events of one request do not share a microsecond.
* Clients do not put `audit_ledger_head` or `execution_control` into their own
  metadata.
* `Abort` stands for a killed process, and for a statement the database refuses.
  A killed process is one `Abort` per handler.

### EvidenceManifest and the code

One request again, and the handlers that attach evidence to it or report on it.
`items` are the `evidence_items` rows, `manifests` the `evidence_manifest_captured`
events in order, `captured` the snapshot in the request's
`request_snapshot_captured` event, `noted` the ids with an `evidence_attached`
event. A hash is the value it stands for: what an item or the request says is a
version number that an edit raises. The steps of an attach call are its insert and
commit, the `refresh` of the new item, the query from which the manifest is built,
and the two `record_event` calls (one step each; their insides are
`RequestRuntime`'s). Every event also moves the row's head anchor, which the
snapshot must leave out. A session does not load again an object that it holds, so
the manifest has the new item as refreshed (`SessionItems`): an edit between that
refresh and the manifest is not in it (`WillRead` says what a call has still to
read). The report is three reads. The request starts as evaluate leaves it, with its
snapshot or, if that handler died, without. Edits of rows past the API are what the
report is there to notice, and the model contains them; deletions of items are not
modelled, those of events are `AuditLedger`'s.

### ApiLimits and the code

The server is one event loop, so what a middleware does between two awaits is one
step. `pc` says where each call is: in the receive loop of
`BodySizeLimitMiddleware` (`body`), before the rate limiter (`limit`), in its
`handler`. `total` and `buffer` are the loop's variables, `hits` the deques by
client key, `now` is `time.monotonic()`. Time is counted in ticks, `Second` of
them in a second, because `Retry-After` is truncated to whole seconds. `sent`,
`delivered`, `admitted`, `refused` and `due` are histories: of the messages on
either side of the buffer, of the admissions of each source, of the time when a
refused client may count on being served. `ReceiveBody` is one turn of the loop
with all its ends (too large, more to come, last message, disconnect), `Refuse`
and `Admit` are the two ends of `dispatch`, which does not await before it passes
the call on, `HandlerRead` is `replay_receive`, which makes up an empty end
(`EmptyEnd`, line 135) whenever nothing is buffered: a handler that reads on after a
disconnect gets an end that no client sent. Calls that a `Content-Length` ends at
once leave nothing behind and are not opened.

### AuditLedger and the code

`ledger` holds the rows in the order in which verification reads them
(`created_at`, then id), `anchor` the head and count in the request's metadata.
A hash is the tuple of what is hashed, the previous hash included: equal hashes
mean equal contents. `Record` is `record_event`; with `ClockSteps` the new row may
sort before older ones, as when the clock steps back or two events share a
microsecond. `record_event` is not the only writer of the anchor: an execute reads
the metadata at the start of its call (`ExecuteRead`) and writes it back whole with
its result, outside the lock (`ExecuteCommit`, `operations.py:60-66` and 248-249);
`copies` has the anchor it holds meanwhile, `ExecuteLeaves` is the call that ends
without that commit. `EditEvent`, `DeleteEvent` and `RetimeEvent` are changes in the
database. They leave stored hashes alone: an editor who recomputes every hash from
the edited event on, and the anchor, writes a ledger that verifies, which no
scheme of this kind notices. The route reads the anchor and then the events; the
script reads the events and then the rows with the anchors, and skips a request
that has no events left. `after`, `present`, `stepped` and `overlapped` are
histories.

### ProofStore and the code

A bundle is a sequence of blocks: one for each audit event, so that a later bundle
is longer, one for everything else the export found, and the seal with hash and
signature. An export is three reads that count (`ExportRow`, `ExportItems`, and
`ExportEvents`, which also builds and signs; the decision is final once stored,
so that its read needs no step), the `open` that truncates the file, writes of
`WriteSize` blocks at the writer's own offset, and it may die anywhere. Readers
take `ReadSize` blocks at a time until they meet the end of the file.
`Verifies` is `verify_proof_bundle`: what it computes from the bundle alone, with
the keys of the running server. `Deploy` is a restart with other keys, which
`ValidSetting` (the receipt part of `validate_key_settings`) may refuse. A
signature is the secret with the hash; `SecretsFor` is the lookup by key id, where
the last of several previous entries counts, as in a dictionary built from a list.
`itemsThen`, `built`, `crowded` and `settled` are histories.

### Access and the code

`setting` is the environment, `MayStart` the checks of
`validate_production_settings` on it, `Restart` a start with another environment.
`Actors` is `get_actor`: accepted tokens, or any role by header when
authentication is off. `Arrive` makes all checks that need no row (ingress,
actor, permission or role, tenant header); a call that fails one changes nothing
and is not received. `ArriveOpen` and `OpenRoute` are the routes that `main.py:55-56`
and 62-63 mount without `get_actor` and `get_tenant_id` in every environment: the
legacy evaluate, which keeps its request in `demo`, and those that only look (legacy
decisions, receipts and replays, metrics, monitoring). `Lookup...` and
`Commit...` are the two halves of the insert-or-return routes; a primary key
refuses what another handler has inserted in between. `OnRequest` stands for the
routes on an existing request: what they do is `RequestRuntime`'s, here they
answer with the row's owner and leave a mark in `acted` if they review or
release. The rows, `customers`, `workflows` and `requests`, have their owners
and nothing else. `acted` and `proven` are histories.

## 3. What TLC checks

| Run | Instance | Shows |
|---|---|---|
| `policy_packs` | every request (5 workflows, 128 combinations), every edit of one condition | the packs admit, refuse and order decisions as their domains say |
| `request_calls` | all calls that move a request (4 reviews, execute, queue, claim, complete, fail), 2 handlers, 1 job, 1 request of each outcome, 5 calls, deaths | no release of a refused request; none of a held or escalated one without approval; completed events are truthful; `ReleaseGate` is implemented; one chain, anchor never ahead, filed once, decision final, jobs never queued again; types |
| `request_audited` | 2 fair handlers, 4 calls (3 reviews, execute, queue, receipts and ledger checks), 3 jobs, no deaths | calls return; decisions get their two events; the anchor is current except between an execute's commit and its event |
| `evidence` | 2 fair handlers, 2 items, 2 attach calls, any number of reports, one edit of each item and of the request, deaths | no report verifies uncaptured evidence, or evidence edited after every attach call had read it; an untouched request verifies; every stored item is captured unless a call dies |
| `request_alone` | 1 handler, 2 jobs, 7 calls, deaths, edits of the stored conditions, no reviews | a retrying client: executed once, result kept, anchor current, jobs end once, a request whose job failed leaves the queue only with another job that completes |
| `api_limits` | 2 calls at once, 3 senders behind one peer, limit 2 in 3 seconds of 2 ticks, 7 ticks, 3 calls, bodies of up to 2 messages of 1 or 2 bytes, at most 2 bytes, disconnects, a read past the last message | up to the first end or disconnect a handler reads what was sent, whole and within the limit; no window admits more than the limit; `Retry-After` and a second suffices; `SlidingWindow` is implemented |
| `audit_ledger` | 3 events, 3 changes behind the API, clock steps, 1 execute at a time that writes back its anchor, both readers | a ledger that verifies is what was recorded, in its order, and complete as of the event its anchor names; an untouched one fails for two causes only |
| `proof_store` | 2 exporters and 2 exports, 1 attach call, 1 edit, 1 restart with other keys, writes of 2 and reads of 3 blocks | a bundle that verifies shows one moment; a file that verifies is one whole bundle; rotated keys still verify |
| `access` | 2 handlers, 2 tenants, 1 workflow, 1 request, 5 kinds of token, 5 environments of which 2 must not start, 1 tick | tenants and duties stay apart; owners stay; in production only good tokens change, release or show rows, whatever open routes are called |

Bounds. The races of this code are between two handlers: one that has read and one
that writes in between. Two threads show each of them, and a third only adds a
second writer of the same kind. Four calls are the one that creates the request and
three that overlap or follow each other; five calls are needed for evaluate,
approve, queue, claim, complete; seven let a single client queue, fail, queue again
and complete. Receipts and ledger checks, which move no request, are among the calls
of `request_audited` and `request_alone`. One request is enough because rows, locks
and ledgers of different requests do not meet. The one-thread runs drop concurrency
on purpose: what they show (`ExecutedOnce`, `ResultKept`, `AnchorCurrent`) is false
with two, as the disagreements below show.

In `evidence` two attach calls are what it takes for one to overwrite, miss or
repeat (same id) the other, and one edit is enough because what matters of an
edit is its order among reads and captures.

In `api_limits` a third call is the first that a limit of 2 can refuse, and 7 ticks
are one more than the window, so that hits expire, one of them exactly when it is a
window old. Messages of 1 and 2 bytes reach a body limit of 2 in one or two pieces
and pass it by one and by two, and a body ends with a last message or a disconnect.
The three senders share a peer, and two of them a header of which one is not
verified: the least that tells the client keys apart. In `audit_ledger` three events
and three changes let a deletion, an exchange and a row moved or edited in the
middle of the chain happen, also together, and a deletion at the end before or after
an execute puts an older anchor back; one execute is enough, since what it holds is
one earlier anchor, and that of a second would be another. In `proof_store` the
shortest bundle has 2 blocks and the longest 6, so each is written in up to three
pieces and read in two, and a shorter bundle may be written over a longer one; two
exporters are what it takes to mix two bundles, one edit and one attach call to
disagree with an export that reads in between. In `access` two handlers suffice for
one to insert between the other's lookup and commit, two tenants for one to show the
other's, and the token of each kind differs from the others in what the checks look
at: role, scopes, expiry, safe secret. The proofs below cover every bound.

Threads, jobs, tenants, connections and exporters are symmetric in the runs that use
symmetry: the models never order them. Runs with liveness use none. Deadlock is
not checked where a behaviour ends because a bound is used up: calls in the runs
of the request runtime, calls and time in `api_limits`, events and changes in
`audit_ledger`, exports in `proof_store`. The others check it.

Fairness is weak fairness of each handler's `Step`: a thread that can run does
run and the database answers. Receiving calls and dying are not fair. Weak
fairness is enough for the lock because calls are bounded, so it is not taken
over and over while one handler waits; `threading.RLock` promises no more.

### Disagreements the runs exhibit

Each has a configuration of its own (`Find*.cfg`) in which TLC produces the
counterexample; `PROJECT.json` quotes the sentence it contradicts.

| Run | The code | The text |
|---|---|---|
| `find_reexecute` | approving an executed request makes it executable again | "controlled one-way lifecycle transition" |
| `find_double_execution` | two overlapping executes both commit and both record `execution_completed` | repeated calls do not create a second event |
| `find_stale_conditions` | an execute releases on conditions that were edited after it had read and evaluated them | "the current runtime evaluation still matches the stored decision outcome" |

More disagreements follow from the models without a run of their own.

In the request runtime:

* A receipt read that overlaps an execute writes back its older copy of the metadata
  with its own event (`routes/operations.py:276`, `services/audit.py:68`), and the
  stored result is gone: a repeated execute does not return it, although
  `docs/execution-idempotency.md` says so. `ResultKept` holds for one client only.
* Execute writes back the anchor it read at the start (line 248). The event that
  follows replaces it; until then, and for good if the handler dies first, an
  untouched ledger is reported as tampered with, and one from which the events since
  that anchor were deleted verifies. `AnchorCurrentWhenRecorded` says that, where no
  handler dies, the anchor is old only between that commit and its event;
  `HonestVerifies` and `VerifiedIsWhole` in `AuditLedger` say what reports show of
  it.
* Of two overlapping attach calls, the one that listed the items first may record
  its manifest last, without the other's item (line 421): the request then does not
  report VERIFIED. `UntouchedVerifies` is about calls one after the other.
* `complete` executes a request whatever has happened to it since it was queued
  (`routes/jobs.py:151`). A held request can become executed by way of approve,
  queue, claim and complete (`ReleaseNeedsApproval` allows it), while the execute
  route answers "Held request is not executable."
* Hold and escalate reviews move a refused request out of `closed_not_released`,
  while `docs/release-readiness.md` says it remains closed; it still cannot be
  released.
* Two workers that both read a queued job both claim it, and a finished job may run
  again; `JobsNeverReopen` says what their races leave true.
* An edit of an evidence item is taken for granted by the next attach call, whose
  manifest lists the edited item (`EditIsNoticed` says which edits are noticed, and
  for how long).

In the ledger and the proof store:

* An event recorded between the two reads of either verifier makes a sound ledger
  look tampered with (`overlapped` in `HonestVerifies`).
* A clock that steps back makes the chain be read in another order than it was
  written in: the ledger is invalid from then on, though nobody touched it.
* Events cut from the end before another event is recorded leave no trace: the new
  event links to what is left (`VerifiedIsWhole` says as of when a ledger is whole).
* The ledger script reports no request whose events are all deleted.
* The receipt in a bundle is built from the row as it is now and signed with the
  current key, while `docs/persistent-proof-store.md:14` speaks of the "originally
  issued signed receipt".
* A reader that meets a half-written bundle file gets a JSON error, which the read
  routes do not handle. What it does read and verify is whole
  (`VerifiedReadIsABundle`).

In access:

* The legacy, replay, metrics and monitoring routes answer calls without ingress mark
  and token in production too (`main.py:55-56`, 62-63), and a legacy evaluate signs a
  receipt for anybody who asks, while `docs/trusted-ingress-identity.md:13` says "The
  application rejects production requests that do not include trusted-ingress
  verification before role enforcement runs." What `ProductionIsGuarded` says is that
  these routes touch and show none of the guarded rows.
* The tenant in a token is carried but not compared: the guard uses the header.
* Job routes ask for the roles admin or operator, although `docs/rbac.md` gives
  executors `execution_job:write`; the document lists that as a follow-up.
* The current secret is used as it stands in the environment, previous ones and
  the start-up checks use it stripped: a secret with blanks around it passes the
  checks as a different one. The models have no such secrets.

## 4. What is proved

`RequestRuntimeProofs` proves, for every finite or infinite set of threads and
jobs, every set of submissions and edits, and every bound on calls (assumption
`RuntimeAssumption`, which only types the constants):

* `TypeCorrect`: `TypeOK`. Not inductive alone: `AppendEvent` takes the head of the
  events a handler owes, so the invariant adds that a handler on its way to
  `record_event` owes at least one (`EventsOwed`).
* `ChainStaysLinked` and `AnchorStaysBehind`: the ledger. The inductive invariant
  `LedgerInv` says that the owner of the lock is exactly the handler between reading
  the tail and appending (`LockOwner`), that the tail it has read is therefore still
  the tail (`TailCurrent`), that the chain is linked, and that every anchor, in the
  row or in a session's copy, is one the row once had (`AnchorsBehind`). The last
  part is why a stale rewrite can put an anchor back, but never ahead.
* `RefusedIsNeverReleased`, `ReleaseIsApproved`, `DecisionStaysFinal` and
  `RuntimeImplementsGate`: the release gate. The difficulty is that handlers act on
  out-of-date copies and that `complete` tests nothing of the request. The invariant
  `GateInv` says that every place from which a release can follow (the row, a copy
  of it, a job that was ever queued, a worker's call in flight) was *cleared*:
  admitted, or held or escalated and approved. Clearance lasts (`ClearedLasts`),
  since decisions are final and approvals are not undone, so staleness does no harm.
  The refinement maps the commit of a decision to `Decide`, an approving review to
  `Approve`, the commits of execute and of complete to `Release`, and every other
  step to a stutter.
* `CompletedIsTruthful`: the ledger's `execution_completed`. A handler records
  events after its commit, with others in between, so the invariant `EventTruth`
  speaks of the events handlers still owe as well as of the recorded ones: if either
  holds an `execution_completed`, the request was executed by a commit and had been
  admitted or escalated. Only the commit of execute comes to owe one
  (`OtherStepsOweNothing`), and what it found stays true (`TruthLasts`).
* `LedgerOnlyGrows`: an append is a read of the tail, an insert and a commit, yet
  every step of the system leaves the ledger alone or adds one event that names the
  hash of the last; it rests on `TailCurrent`.
* `FiledAtMostOnce` (`FiledOnce`): no ledger has two snapshots or two evaluations.
  `AuditedInv` says of either kind of event that it is recorded or owed by one
  handler, never both and never twice, that only the handler which created the row
  owes it, and that before the request is filed nobody does. It holds wherever
  handlers die.
* `AnsweredIsAudited`, on the condition that no handler dies: when all calls have
  answered, a decided request has exactly one of each. `OwedInv` says that a filed
  request has recorded the event or someone still owes it, which is what a death
  would break.
* `JobsStayUsed` (`JobsNeverReopen`) and `RunningIsClaimed`: workers test a job and
  change it in two steps, so that two may claim, fail or complete the same one. What
  survives their races is that a blocked job never runs, that a job is queued once,
  that no job runs without having been claimed and that a claimed job keeps a worker
  (`JobCallsInv`: the job of a worker's call in progress was queued at some time,
  and what was queued is neither blocked nor queued again).
* `AnchorIsCurrentWhenRecorded`, on the condition that no handler dies: the anchor
  agrees with the ledger whenever no execute is between its commit and its event.
  `FiledInv` adds that idle and deciding handlers owe no event, so that the debt of
  an execute is in sight until it is paid (`NothingOwed`), and that before the
  request is filed its ledger is empty (`UnfiledIsEmpty`).

`RequestAloneProofs` proves what the runtime promises a client that waits for each
answer, or gets none because the handler died, and calls again. Its theorems assume
that there is one handler (`Thread = {t}`). TLC finds each of the five properties
violated with two handlers, so the assumption is needed; deaths at any point, edits
of the conditions and every sequence of calls are included. `AloneInv` says that
the copy the handler holds has the status and the metadata of the row (`CopyFresh`;
the conditions may have been edited since) and that its job is still in the state
the route asked for (`JobAwaited`).

* `AnchorStaysCurrent` and `ResultStaysKept`: what a handler writes back of the
  metadata is what is there, so that no event writes a stored result away and
  execute's rewrite of the anchor is harmless.
* `JobsEndOnce`: a blocked, completed or failed job stays so.
* `ExecutedAtMostOnce`, if nobody approves: at most one execution is recorded. Once
  it is recorded or owed, no later call or step brings the request back to where it
  can be executed (`OnceInv`). With approvals it fails for a single client already
  (`find_reexecute`).
* `QueuedAlwaysWaits`, if there are no reviews: a queued request leaves the queue
  only with a running job that completes; a failed job leaves it queued for ever.

`EvidenceManifestProofs` proves, for every set of threads and evidence ids and
every bound on calls and versions:

* `TypeCorrect`, where the addition is that an attach call in progress has an id.
* `UncapturedIsNeverVerified`: from types alone; a report that verifies has read
  what the last manifest lists.
* `EditsAreNoticed`: no manifest, captured or on its way, is ahead of the stored
  items (`NoManifestAhead`). An edit that no attach call has still to read makes a
  version that no manifest lists and none on its way will (`Unlisted`); that lasts
  until an attach call is received (`UnlistedStays`), also for the copy a report has
  read (`TamperInv`).
* `UntouchedIsVerified`: while attach calls run alone (`AloneInv`), the one in
  progress works on the items that are stored and, between calls, the last
  manifest lists them (`CurrentInv`).
* `AnsweredIsCaptured`: when no attach call has died and none is in progress, every
  stored item has its event and is listed in some manifest, although of two calls
  each may miss the other's item. For every stored item some handler is still to
  note it, and some to list it, unless that is done (`CaptureInv`); a call lists
  at least its own item, because its query follows its commit (`OwnIsStored`).

`ApiLimitsProofs` proves, for every limit, window, second and set of callers:

* `WindowIsKept` and `LimiterImplementsWindow`: the deque of a source is at any
  time the end of its admission history, and what the deque has dropped had
  expired (`EndOf` in `LimiterInv`). So the popleft loop leaves exactly the
  admissions within the window (`LoopKeepsEnd`), the limiter refuses exactly when
  the history is full, and no window holds more than `Limit`. The proof rests on
  client keys being one to one with sources, which is what believing an unverified
  header would break.
* `RetryIsAlwaysServed`: until a refused source is admitted again its deque begins
  with the hit that the answer was computed from (`RetryInv`), and a quotient
  truncated to whole seconds, plus one, exceeds what was divided (`SecondsExceed`).
* `BodiesAreWhole`: what the handler has read begins with what was sent, the rest of
  which is in the buffer; `total` is the size of what was sent, only the last message
  of it can be an end or a disconnect, and made-up ends come only when all of it has
  been read (`BodyInv`). So a handler that has read an end for the first time has read
  all that was sent and nothing else.
* `TypeCorrect`: its part that is not plain typing, a deque within the limit, follows
  from `LimiterInv`.

`AuditLedgerProofs` proves, for any number of events and of changes:

* `VerifiedRowsAlwaysStand`: stored hashes are never rewritten, so an event whose
  hash fits its content and its predecessor is the one that was recorded, after
  the one it was recorded after (`LedgerInv`, `LinksTellOrder`).
* `VerifiedIsAlwaysWhole`: every anchor, also one that an execute holds or has written
  back, names an event and has the number of events that were there right after its
  recording. Of a chain that stands and ends with that event, all events were there
  then, since an event links only to older ones; none is in it twice, and as many as
  there were are all that there were (`Placed` and `AnchorOk` in `WholeInv`). So an
  old anchor vouches for an old moment, and for that moment completely.
* `HonestAlwaysVerifies`: an unchanged ledger is linked, an anchor that names the last
  event recorded fits it, wherever that anchor is held, and what a reader has read
  first is still so (`Fits` in `HonestInv`). What is left of false alarms are the two
  causes that the property names.

`ProofStoreProofs` proves, for every number of exporters and attaching threads,
all key settings and all sizes of writes and reads:

* `StoreImplementsEvidence`: every behaviour is one of `EvidenceManifest`
  (`DatabaseStep`: step by step, exports and file writes being stutters), whose proved
  invariants are cited from there.
* `TypeCorrect`, with what a built bundle looks like (`BuiltInv`, `TextInv`).
* `VerifiedReadsAreBundles`: every seal that ever gets into the file or to a reader
  seals a bundle that was built (`SealInv`); blocks that verify against a seal are
  then that bundle.
* `LastExportsStand`: an exporter with no other writing meanwhile has the file equal
  to what it has written (`WriterInv`), for which opening must truncate.
* `ListedKeysSuffice`: in an accepted setting ids are unique, so that a listed pair
  is the one its id finds (`ListedSecrets`).
* `VerifiedShowsOneMoment`: versions and the event count only grow, and no manifest
  is ahead of the items; an export whose last read agrees with its first can
  therefore have had no change in between (`MomentInv`).

`AccessProofs` proves, for every set of handlers, tenants, workflows, requests,
tokens and environments:

* `OwnersAlwaysStay`: from types and the primary keys alone.
* `DutiesAlwaysSeparate`: who may review and who may release are disjoint but for the
  administrator, by permission, by scope and by role (`DutyRoles`), and a call in
  progress has the role it was admitted with (`DutyInv`).
* `ProductionAlwaysGuarded`: the running server has passed its own start-up checks,
  so that the secrets it accepts are safe ones, and every call in progress, those of
  open routes aside, was proven when it arrived (`CallsProven` in `GuardInv`). Of the
  steps that change guarded rows or show them none is one of an open route
  (`UnprovenStep`, `GuardedStep`).
* `TenantsAlwaysApart`: what a handler looked up for its tenant is still of that
  tenant when it commits, because owners never change (`TenantInv`).

`PolicyPacksProofs` proves, from the definitions of the packs alone:

* `ColumnsAlwaysAgree` and `AdmitsOnlyReleasable`: what TLC finds for every request,
  each pack by a lemma of its own (`CyberDecides`, ...), so that
  a change of a pack shows in which lemma fails.
* `WorseIsWithheld`: for any two requests of which one is nowhere better, all edits
  at once, where the run and `WorseNeverAdmits` walk edit by edit. What a domain
  releases is monotone (`ReleasableIsMonotone`), which rests on the levels of risk
  that the packs name being the lowest ones (`RiskOrder`).

The assumptions, each named in its module, type the constants
(`RuntimeAssumption`, `EvidenceAssumption`, `LimitsAssumption`, `LedgerAssumption`,
`ProofStoreAssumption`, `AccessAssumption`), and say that the server's first setting
was accepted (`FirstSettingAssumption` in `ProofStore` and in `Access`) and that
tokens of unknown roles, which the code refuses, are not among those considered
(`TokensAssumption`). TLC evaluates them in the runs.

Only model-checked:

* liveness (`CallsReturn`, `DecisionIsAudited`, `EvidenceIsCaptured`), which needs
  fairness and is out of the prover's reach. The safety halves of the last two are
  proved as `AnsweredIsAudited` and `AnsweredIsCaptured`: what the theorems leave
  open is that the calls do answer;
* the three properties that the `find_...` runs refute.

Every other property of the runs is stated by a theorem. The invariants behind
`JobsStayUsed`, `FiledAtMostOnce`, `AnsweredIsAudited`, `AnsweredIsCaptured` and the
theorems for one handler were checked with TLC, with two handlers and deaths where
they allow both, before they were proved.

## 5. What is left

The core was modelled first (`PolicyPacks`, `RequestRuntime`, `EvidenceManifest`),
then what reads and guards it (`AuditLedger`, `ProofStore`, `Access`, `ApiLimits`).
In order of use, what could follow:

1. Several server processes. The request lock is then no lock: `RequestRuntime` has
   that as the mutated form `RequestLockIgnored`, for which `ChainLinked` fails.
2. The legacy store's three dictionaries as three, if it is to be kept: a replay may
   find the request of one evaluation with the decision of another.

## 6. Not modelled

* Of the legacy store (`routes/requests.py`, `routes/replay.py`) the contents:
  dictionaries of one process for the demo, with neither locks nor persistence, which
  `Access` has as one set of ids. What it decides and replays is `PolicyPacks`.
* What metrics and monitoring count (`Access` has only that anybody may call them), and
  the health routes; the list routes of jobs, customers and workflows and the
  dashboard routes only read.
* Middleware for correlation ids and headers keeps no state that outlives a call.
* Migrations run once before the server; the frontend shows the API's answers.
* Of the scripts, the verifiers of ledgers and bundles are modelled; the others
  wrap services that are.
* Of the production settings, the checks of the database URL and of the CORS
  origins: nothing modelled depends on them. Of keys, the text format in the
  environment.
* The replays inside a bundle, which follow from its row, and the redaction of
  evidence payloads.

Hash functions and signatures are taken to be injective: a hash is the value it is
computed from, or a position that stands for it. Reason codes, summaries and log
lines are text no property is about.
