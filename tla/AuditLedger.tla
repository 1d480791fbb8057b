----------------------------- MODULE AuditLedger -----------------------------
(***************************************************************************)
(* Verification of one request's audit ledger (services/audit.py) when its *)
(* events may be edited, deleted or given another time in the database,    *)
(* and when the clock that orders them may step back.  record_event is one *)
(* step here: RequestRuntime shows that the lock makes it one.  An execute *)
(* call reads the request's metadata, anchor included, and writes it back  *)
(* later without that lock.  Two readers verify, each in two reads: the    *)
(* route reads the anchor first, scripts/verify_audit_ledger.py the        *)
(* events.                                                                 *)
(***************************************************************************)
EXTENDS Naturals, Sequences, SequencesExt

CONSTANTS
  Executor,   \* the execute calls that may be in progress at once
  MaxEvents,  \* bound: events recorded
  MaxTampers, \* bound: changes made behind the API
  ClockSteps  \* may a new event sort before an old one?

ASSUME LedgerAssumption ==
  MaxEvents \in Nat /\ MaxTampers \in Nat /\ ClockSteps \in BOOLEAN

VARIABLES
  ledger,     \* the audit_events, ordered by created_at and id
  anchor,     \* audit_ledger_head of the request's metadata
  after,      \* history: for each event recorded, the event that was last then
  present,    \* history: for each event recorded, the events there right after
  copies,     \* per execute call: the anchor in the metadata it has read
  tampers,    \* changes made behind the API
  stepped,    \* history: an event was sorted before an older one
  reader,     \* the report in progress
  overlapped, \* history: an event was recorded between its two reads
  verdict     \* the last report

vars == <<ledger, anchor, after, present, copies, tampers, stepped, reader, overlapped, verdict>>

-----------------------------------------------------------------------------
(* Hashes.  A hash is the tuple of what it is computed from, so that equal  *)
(* hashes mean equal contents.                                             *)

Genesis == <<>>
NoAnchor == [head |-> Genesis, count |-> 0, set |-> FALSE]
NoCopy   == {}

Ids(rows) == {rows[i].id : i \in 1..Len(rows)}

\* compute_audit_event_hash: everything but the time and the ledger entry.
EventHash(id, says, previous) == <<id, says, previous>>

\* Mutated form: the oldest event.
LatestEventHashAsc(rows) == IF rows = <<>> THEN Genesis ELSE rows[1].hash

\* _latest_event_hash.
LatestEventHash(rows) == IF rows = <<>> THEN Genesis ELSE Last(rows).hash

\* Mutated form: what an event says is not hashed again.
LinkedByPrevious(rows, i) ==
  rows[i].previous = (IF i = 1 THEN Genesis ELSE rows[i - 1].hash)

\* One turn of the verification loop finds no failure.
Linked(rows, i) ==
  LET previous == IF i = 1 THEN Genesis ELSE rows[i - 1].hash
  IN  /\ rows[i].previous = previous
      /\ rows[i].hash = EventHash(rows[i].id, rows[i].says, previous)

\* Mutated form: the chain alone is verified.
AnchorIgnored(rows, head) == TRUE

\* The event count and the head hash, which are checked only if there is an anchor.
AnchorMatches(rows, head) ==
  head.set => head.count = Len(rows) /\ head.head = LatestEventHash(rows)

\* verify_audit_ledger.
Verifies(rows, head) ==
  /\ \A i \in 1..Len(rows) : Linked(rows, i)
  /\ AnchorMatches(rows, head)

-----------------------------------------------------------------------------
(* Recording.                                                              *)

\* record_event.  The new row comes last unless the clock stepped back (or two
\* events share a microsecond, when their random ids decide).
Record ==
  /\ Len(after) < MaxEvents
  /\ \E p \in 1..(Len(ledger) + 1) :
       LET id       == Len(after) + 1
           previous == LatestEventHash(ledger)
           event    == [id |-> id, says |-> "recorded", previous |-> previous,
                        hash |-> EventHash(id, "recorded", previous)]
           rows     == InsertAt(ledger, p, event)
       IN  /\ p <= Len(ledger) => ClockSteps
           /\ ledger' = rows
           /\ anchor' = [head |-> event.hash, count |-> Len(rows), set |-> TRUE]
           /\ after'  = Append(after, IF ledger = <<>> THEN 0 ELSE Last(ledger).id)
           /\ present' = Append(present, Ids(rows))
           /\ stepped' = (stepped \/ p <= Len(ledger))
  /\ overlapped' = (reader.at # "idle")
  /\ UNCHANGED <<copies, tampers, reader, verdict>>

-----------------------------------------------------------------------------
(* Executing.                                                              *)

\* execute_request reads the row, with the metadata as it is now.
ExecuteRead(e) ==
  /\ copies[e] = NoCopy
  /\ copies' = [copies EXCEPT ![e] = {anchor}]
  /\ UNCHANGED <<ledger, anchor, after, present, tampers, stepped, reader, overlapped, verdict>>

\* _store_execution_result writes the whole metadata back.  The event that follows
\* is a Record, or there is none when the handler dies first.
ExecuteCommit(e) ==
  /\ copies[e] # NoCopy
  /\ anchor' \in copies[e]
  /\ copies' = [copies EXCEPT ![e] = NoCopy]
  /\ UNCHANGED <<ledger, after, present, tampers, stepped, reader, overlapped, verdict>>

\* The call is refused or answered with the stored result, or its handler dies.
ExecuteLeaves(e) ==
  /\ copies[e] # NoCopy
  /\ copies' = [copies EXCEPT ![e] = NoCopy]
  /\ UNCHANGED <<ledger, anchor, after, present, tampers, stepped, reader, overlapped, verdict>>

-----------------------------------------------------------------------------
(* Changes behind the API.                                                 *)

Tamper ==
  /\ tampers < MaxTampers
  /\ tampers' = tampers + 1
  /\ UNCHANGED <<anchor, after, present, copies, stepped, reader, overlapped, verdict>>

\* An edit of a hashed field; the hash in the event's detail stays.
EditEvent(i) ==
  /\ ledger' = [ledger EXCEPT ![i].says = "edited"]
  /\ Tamper

DeleteEvent(i) ==
  /\ ledger' = RemoveAt(ledger, i)
  /\ Tamper

\* An edit of created_at, which is not hashed, moves the event.
RetimeEvent(i, p) ==
  /\ ledger' = InsertAt(RemoveAt(ledger, i), p, ledger[i])
  /\ Tamper

-----------------------------------------------------------------------------
(* Reports.                                                                *)

Idle == [at |-> "idle", rows |-> <<>>, anchor |-> NoAnchor]
NoVerdict == [answer |-> "none", rows |-> <<>>, anchor |-> NoAnchor, honest |-> FALSE,
              overlapped |-> FALSE, behind |-> FALSE]

\* The anchor does not name the event that was recorded last.
Behind(head) == head.set /\ head.head[1] # Len(after)

Report(rows, head) ==
  /\ verdict' =
       [answer     |-> IF Verifies(rows, head) THEN "valid" ELSE "invalid",
        rows       |-> rows,
        anchor     |-> head,
        honest     |-> tampers = 0 /\ ~stepped,
        overlapped |-> overlapped,
        behind     |-> Behind(head)]
  /\ reader' = Idle
  /\ overlapped' = FALSE
  /\ UNCHANGED <<ledger, anchor, after, present, copies, tampers, stepped>>

FirstRead(seen) ==
  /\ reader.at = "idle"
  /\ reader' = seen
  /\ overlapped' = FALSE
  /\ UNCHANGED <<ledger, anchor, after, present, copies, tampers, stepped, verdict>>

\* The route: the row with its anchor, then the events.
RouteReadAnchor == FirstRead([at |-> "anchor", rows |-> <<>>, anchor |-> anchor])
RouteReport     == reader.at = "anchor" /\ Report(ledger, reader.anchor)

\* The script: the events, then the rows.  A request without events is no group
\* of its own and is not reported.
ScriptReadEvents ==
  ledger # <<>> /\ FirstRead([at |-> "events", rows |-> ledger, anchor |-> NoAnchor])
ScriptReport == reader.at = "events" /\ Report(reader.rows, anchor)

-----------------------------------------------------------------------------
Init ==
  /\ ledger = <<>> /\ after = <<>> /\ present = <<>>
  /\ anchor = NoAnchor /\ copies = [e \in Executor |-> NoCopy]
  /\ tampers = 0
  /\ stepped = FALSE /\ overlapped = FALSE
  /\ reader = Idle
  /\ verdict = NoVerdict

Next ==
  \/ Record
  \/ \E e \in Executor : ExecuteRead(e) \/ ExecuteCommit(e) \/ ExecuteLeaves(e)
  \/ \E i \in 1..Len(ledger) :
       \/ EditEvent(i)
       \/ DeleteEvent(i)
       \/ \E p \in 1..Len(ledger) : RetimeEvent(i, p)
  \/ RouteReadAnchor \/ RouteReport
  \/ ScriptReadEvents \/ ScriptReport

Spec == Init /\ [][Next]_vars

-----------------------------------------------------------------------------
(* Correctness.                                                            *)

\* VerifiedRowsStand: in a ledger that verify_audit_ledger calls valid every event
\* says what was recorded and directly follows the event that was the last one
\* when it was recorded, whatever was edited, deleted or moved and wherever the
\* clock put it.
VerifiedRowsStand ==
  verdict.answer = "valid" =>
    \A i \in 1..Len(verdict.rows) :
      /\ verdict.rows[i].says = "recorded"
      /\ after[verdict.rows[i].id] = (IF i = 1 THEN 0 ELSE verdict.rows[i - 1].id)

\* VerifiedIsWhole: a valid report shows exactly the events that were in the ledger
\* right after the event its anchor names was recorded, whichever edits, deletions
\* and executes there were and wherever they fell between its reads: with the
\* anchor record_event left, a deletion is noticed also at the end, where no later
\* event points at it.  An older anchor that an execute wrote back stands for the
\* earlier moment, so a ledger that lost what was recorded since verifies again.
VerifiedIsWhole ==
  verdict.answer = "valid" /\ verdict.anchor.set =>
    Ids(verdict.rows) = present[verdict.anchor.head[1]]

\* HonestVerifies: a false alarm about a ledger that nobody changed and whose clock
\* kept order has one of two causes: an event was recorded between the reader's two
\* reads, or the anchor it read is an older one, which an execute wrote back and no
\* event has replaced since (operations.py:248).
HonestVerifies ==
  verdict.honest /\ ~verdict.overlapped /\ ~verdict.behind => verdict.answer \in {"none", "valid"}
=============================================================================
