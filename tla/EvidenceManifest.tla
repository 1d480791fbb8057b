-------------------------- MODULE EvidenceManifest --------------------------
(***************************************************************************)
(* Evidence of one governed request: POST /ops/evidence, which stores an   *)
(* item and then captures a manifest of all items in the audit ledger, and *)
(* GET /ops/requests/{id}/integrity, which compares the stored request and *)
(* its items with what was captured last.                                  *)
(*                                                                         *)
(* Hashes are injective, so a hash is the value it stands for.  What an    *)
(* item says (label, source, freshness, payload) is a version number: 0    *)
(* before it is attached, 1 as attached, and one more for every edit of    *)
(* the database behind the API.  The request row has a version of the same *)
(* kind.  record_event is one step here: its lock and its two statements   *)
(* are the subject of RequestRuntime.                                      *)
(***************************************************************************)
EXTENDS Naturals, Sequences

CONSTANTS
  Thread,     \* handler threads of the server
  Item,       \* evidence ids that clients use
  NoItem,
  MaxVersion, \* bound: versions an item or the request row can reach
  MaxCalls    \* bound: attach calls received in one behaviour

ASSUME EvidenceAssumption ==
  /\ NoItem \notin Item
  /\ MaxVersion \in Nat
  /\ MaxCalls \in Nat

VARIABLES
  row,        \* the operation_requests row: version of its public columns, events counted by its anchor
  captured,   \* the snapshot in the request_snapshot_captured event
  items,      \* the evidence_items rows: version of each id
  noted,      \* ids with an evidence_attached event
  manifests,  \* the evidence_manifest_captured events, in order
  pc,         \* where each handler thread stands
  on,         \* the evidence id it attaches,
  own,        \*   the version of it that the refresh read,
  manifest,   \*   the manifest it has still to record,
  view,       \*   and what its integrity report has read so far
  calls,      \* attach calls received so far
  tampered,   \* history: an item was edited that no attach call had still to read, and none came since
  overlapped, \* history: two attach calls have been in progress at once
  killed      \* history: an attach call has died

vars == <<row, captured, items, noted, manifests, pc, on, own, manifest, view,
          calls, tampered, overlapped, killed>>

-----------------------------------------------------------------------------
(* Data.                                                                   *)

Rows      == [version : Nat, anchor : Nat]
Manifests == [Item -> Nat]
Views     == [row : Rows, items : Manifests, tampered : BOOLEAN, quiet : BOOLEAN]

Attaching == {"attach", "refresh", "query", "note", "capture"}
Places    == {"idle", "items", "events"} \cup Attaching

NoManifest == [i \in Item |-> 0]
NoSnapshot == [version |-> 0, anchor |-> 0]
NoView     == [row |-> NoSnapshot, items |-> NoManifest, tampered |-> FALSE, quiet |-> FALSE]

\* Mutated form: the snapshot hashes the metadata with the head anchor in it.
SnapshotWithAnchor(r) == r

\* build_request_snapshot: the internal metadata keys, the head anchor among
\* them, are left out.
Snapshot(r) == [r EXCEPT !.anchor = 0]

\* Mutated form: the items are listed before the new one is stored.
SessionItemsBefore(i, version) == [items EXCEPT ![i] = 0]

\* Mutated form: the new item is read again, as it is stored by then.
SessionItemsReadAgain(i, version) == items

\* The items as the attaching session sees them: its own as refreshed, because a
\* query does not load an object again that the session holds, others as stored.
SessionItems(i, version) == [items EXCEPT ![i] = version]

\* build_evidence_manifest: each item with all it says, the payload hashed.
Manifest(stored) == stored

\* _latest_integrity_event(events, "evidence_manifest_captured"); with none,
\* the report matches only a request that has no items, as the empty manifest.
LatestManifest ==
  IF manifests = <<>> THEN NoManifest ELSE manifests[Len(manifests)]

\* Mutated form: evidence without a captured manifest is taken to match.
ReportVerifiesUncaptured(v) ==
  /\ captured = Snapshot(v.row)
  /\ manifests # <<>> => Manifest(v.items) = LatestManifest

\* integrity_status = VERIFIED, for the row and the items that were read.
ReportVerifies(v) ==
  /\ captured = Snapshot(v.row)
  /\ Manifest(v.items) = LatestManifest

-----------------------------------------------------------------------------
Return(t) ==
  /\ pc'       = [pc EXCEPT ![t] = "idle"]
  /\ on'       = [on EXCEPT ![t] = NoItem]
  /\ own'      = [own EXCEPT ![t] = 0]
  /\ manifest' = [manifest EXCEPT ![t] = NoManifest]
  /\ view'     = [view EXCEPT ![t] = NoView]

AttachInProgress == \E t \in Thread : pc[t] \in Attaching

\* History: t has still to read item i for its manifest.  It reads its own item when it
\* refreshes it, and the others when it queries them.
WillRead(t, i) ==
  \/ pc[t] = "refresh" /\ on[t] = i
  \/ pc[t] \in {"attach", "refresh", "query"} /\ on[t] # i

(* attach_evidence.                                                        *)

ReceiveAttach(t, i) ==
  /\ pc[t] = "idle"
  /\ calls < MaxCalls
  /\ calls' = calls + 1
  /\ pc'   = [pc EXCEPT ![t] = "attach"]
  /\ on'   = [on EXCEPT ![t] = i]
  /\ view' = [s \in Thread |-> [view[s] EXCEPT !.quiet = FALSE, !.tampered = FALSE]]
  /\ tampered' = FALSE
  /\ overlapped' = (overlapped \/ AttachInProgress)
  /\ UNCHANGED <<row, captured, items, noted, manifests, own, manifest, killed>>

AttachCommit(t) ==
  /\ pc[t] = "attach"
  /\ items[on[t]] = 0
  /\ items' = [items EXCEPT ![on[t]] = 1]
  /\ pc'    = [pc EXCEPT ![t] = "refresh"]
  /\ UNCHANGED <<row, captured, noted, manifests, on, own, manifest, view, calls, tampered, overlapped, killed>>

\* The primary key refuses a second item with this id.
AttachDuplicate(t) ==
  /\ pc[t] = "attach"
  /\ items[on[t]] # 0
  /\ Return(t)
  /\ UNCHANGED <<row, captured, items, noted, manifests, calls, tampered, overlapped, killed>>

Refresh(t) ==
  /\ pc[t] = "refresh"
  /\ own' = [own EXCEPT ![t] = items[on[t]]]
  /\ pc'  = [pc EXCEPT ![t] = "query"]
  /\ UNCHANGED <<row, captured, items, noted, manifests, on, manifest, view, calls, tampered, overlapped, killed>>

QueryManifest(t) ==
  /\ pc[t] = "query"
  /\ manifest' = [manifest EXCEPT ![t] = Manifest(SessionItems(on[t], own[t]))]
  /\ pc' = [pc EXCEPT ![t] = "note"]
  /\ UNCHANGED <<row, captured, items, noted, manifests, on, own, view, calls, tampered, overlapped, killed>>

RecordAttached(t) ==
  /\ pc[t] = "note"
  /\ noted' = noted \cup {on[t]}
  /\ row'   = [row EXCEPT !.anchor = @ + 1]
  /\ pc'    = [pc EXCEPT ![t] = "capture"]
  /\ UNCHANGED <<captured, items, manifests, on, own, manifest, view, calls, tampered, overlapped, killed>>

RecordManifest(t) ==
  /\ pc[t] = "capture"
  /\ manifests' = Append(manifests, manifest[t])
  /\ row' = [row EXCEPT !.anchor = @ + 1]
  /\ Return(t)
  /\ UNCHANGED <<captured, items, noted, calls, tampered, overlapped, killed>>

-----------------------------------------------------------------------------
(* request_integrity_report: three reads, the last of which answers.       *)

ReportRow(t) ==
  /\ pc[t] = "idle"
  /\ view' = [view EXCEPT ![t] = [row |-> row, items |-> NoManifest,
                                   tampered |-> tampered, quiet |-> ~AttachInProgress]]
  /\ pc'   = [pc EXCEPT ![t] = "items"]
  /\ UNCHANGED <<row, captured, items, noted, manifests, on, own, manifest, calls, tampered, overlapped, killed>>

ReportItems(t) ==
  /\ pc[t] = "items"
  /\ view' = [view EXCEPT ![t].items = items]
  /\ pc'   = [pc EXCEPT ![t] = "events"]
  /\ UNCHANGED <<row, captured, items, noted, manifests, on, own, manifest, calls, tampered, overlapped, killed>>

ReportEvents(t) ==
  /\ pc[t] = "events"
  /\ Return(t)
  /\ UNCHANGED <<row, captured, items, noted, manifests, calls, tampered, overlapped, killed>>

-----------------------------------------------------------------------------
(* The environment.                                                        *)

\* The process is killed or the database refuses a statement.
Abort(t) ==
  /\ pc[t] # "idle"
  /\ Return(t)
  /\ killed' = (killed \/ pc[t] \in Attaching)
  /\ UNCHANGED <<row, captured, items, noted, manifests, calls, tampered, overlapped>>

\* A stored item or the stored request is changed in the database, past the API.
EditItem(i) ==
  /\ items[i] \in 1..(MaxVersion - 1)
  /\ items'  = [items EXCEPT ![i] = @ + 1]
  /\ tampered' = (tampered \/ \A t \in Thread : ~WillRead(t, i))
  /\ UNCHANGED <<row, captured, noted, manifests, pc, on, own, manifest, view, calls, overlapped, killed>>

EditRow ==
  /\ row.version < MaxVersion
  /\ row' = [row EXCEPT !.version = @ + 1]
  /\ UNCHANGED <<captured, items, noted, manifests, pc, on, own, manifest, view, calls, tampered, overlapped, killed>>

-----------------------------------------------------------------------------
\* The request as evaluate leaves it: with its snapshot and evaluation events,
\* or stored without them by a handler that died after its first commit.
Init ==
  /\ \/ /\ row = [version |-> 1, anchor |-> 2]
        /\ captured = Snapshot([version |-> 1, anchor |-> 0])
     \/ /\ row = [version |-> 1, anchor |-> 0]
        /\ captured = NoSnapshot
  /\ items      = NoManifest
  /\ noted      = {}
  /\ manifests  = <<>>
  /\ pc         = [t \in Thread |-> "idle"]
  /\ on         = [t \in Thread |-> NoItem]
  /\ own        = [t \in Thread |-> 0]
  /\ manifest   = [t \in Thread |-> NoManifest]
  /\ view       = [t \in Thread |-> NoView]
  /\ calls      = 0
  /\ tampered   = FALSE
  /\ overlapped = FALSE
  /\ killed     = FALSE

Step(t) ==
  \/ AttachCommit(t) \/ AttachDuplicate(t) \/ Refresh(t) \/ QueryManifest(t)
  \/ RecordAttached(t) \/ RecordManifest(t)
  \/ ReportItems(t) \/ ReportEvents(t)

Next ==
  \/ \E t \in Thread : (\E i \in Item : ReceiveAttach(t, i)) \/ ReportRow(t)
  \/ \E t \in Thread : Step(t) \/ Abort(t)
  \/ (\E i \in Item : EditItem(i)) \/ EditRow

Spec == Init /\ [][Next]_vars

\* Handlers that can go on do go on; calls, deaths and edits need not happen.
FairSpec == Spec /\ \A t \in Thread : WF_vars(Step(t))

-----------------------------------------------------------------------------
(* Correctness.                                                            *)

TypeOK ==
  /\ row        \in Rows
  /\ captured   \in Rows
  /\ items      \in Manifests
  /\ noted      \in SUBSET Item
  /\ manifests  \in Seq(Manifests)
  /\ pc         \in [Thread -> Places]
  /\ on         \in [Thread -> Item \cup {NoItem}]
  /\ own        \in [Thread -> Nat]
  /\ manifest   \in [Thread -> Manifests]
  /\ view       \in [Thread -> Views]
  /\ calls      \in Nat
  /\ tampered   \in BOOLEAN
  /\ overlapped \in BOOLEAN
  /\ killed     \in BOOLEAN

\* A report that answers VERIFIED in this step.
AnswersVerified(t) == pc[t] = "events" /\ pc'[t] = "idle" /\ ReportVerifies(view[t])

\* The items that some captured manifest lists.
Listed == {i \in Item : \E n \in 1..Len(manifests) : manifests[n][i] # 0}

\* A report never answers VERIFIED about an item that no manifest lists: one
\* whose attach call died between its commit and its manifest stays visible.
UncapturedNeverVerified ==
  [][\A t \in Thread : AnswersVerified(t) =>
       \A i \in Item : view[t].items[i] # 0 => i \in Listed]_vars

\* EditIsNoticed: an edit of the stored request is noticed by every report that reads
\* the row after it.  An edit of an item is noticed by every later report, also one that
\* falls between an attach call's refresh of that item and its manifest, unless some
\* attach call reads the item after the edit and takes it for granted.
EditIsNoticed ==
  [][\A t \in Thread : AnswersVerified(t) =>
       view[t].row.version = 1 /\ ~view[t].tampered]_vars

\* Nothing was edited and every attach call so far ran alone and to its end.
Untouched ==
  /\ row.version = 1 /\ \A i \in Item : items[i] <= 1
  /\ ~overlapped /\ ~killed

\* The report of an evaluated, untouched request answers VERIFIED if no attach
\* call was in progress while it read.
UntouchedVerifies ==
  [][\A t \in Thread :
       (pc[t] = "events" /\ view[t].quiet /\ Untouched /\ captured # NoSnapshot)
         => ReportVerifies(view[t])]_vars

\* If no attach call dies, every item that is stored gets its evidence_attached
\* event and is listed in a captured manifest.
EvidenceIsCaptured ==
  \A i \in Item : items[i] # 0 ~> (i \in noted /\ i \in Listed) \/ killed
=============================================================================
