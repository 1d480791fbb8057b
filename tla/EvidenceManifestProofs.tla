----------------------- MODULE EvidenceManifestProofs -----------------------
(***************************************************************************)
(* What EvidenceManifest guarantees for every set of threads and evidence  *)
(* ids and every bound on calls and edits.                                 *)
(***************************************************************************)
EXTENDS EvidenceManifest, TLAPS

-----------------------------------------------------------------------------
(* Type correctness.  Refresh and the two events look up the id of the     *)
(* call, so an attach call in progress has one.                            *)

AttachHasItem == \A t \in Thread : pc[t] \in Attaching => on[t] \in Item

TypeInv == TypeOK /\ AttachHasItem

LEMMA ConstantTypes ==
  /\ NoManifest \in Manifests
  /\ NoSnapshot \in Rows
  /\ NoView \in Views
BY DEF NoManifest, Manifests, NoSnapshot, Rows, NoView, Views

LEMMA SnapshotType ==
  ASSUME NEW r \in Rows
  PROVE  Snapshot(r) = [version |-> r.version, anchor |-> 0]
BY DEF Rows, Snapshot

\* A call that returns leaves its session typed.
LEMMA ReturnTypes ==
  ASSUME TypeInv, NEW t \in Thread, Return(t)
  PROVE  /\ pc'       \in [Thread -> Places]
         /\ on'       \in [Thread -> Item \cup {NoItem}]
         /\ own'      \in [Thread -> Nat]
         /\ manifest' \in [Thread -> Manifests]
         /\ view'     \in [Thread -> Views]
         /\ AttachHasItem'
BY ConstantTypes DEF TypeInv, TypeOK, AttachHasItem, Return, Places, Attaching

LEMMA TypeInit == Init => TypeInv
<1> SUFFICES ASSUME Init PROVE TypeInv
  OBVIOUS
<1>1. row \in Rows /\ captured \in Rows
  BY DEF Init, Rows, Snapshot, NoSnapshot
<1>2. /\ tampered \in BOOLEAN /\ overlapped \in BOOLEAN /\ killed \in BOOLEAN
  BY DEF Init
<1>5. /\ calls \in Nat /\ noted \in SUBSET Item /\ manifests \in Seq(Manifests)
  BY DEF Init
<1>3. /\ pc \in [Thread -> Places]
      /\ AttachHasItem
  BY DEF Init, AttachHasItem, Places, Attaching
<1>4. /\ items    \in Manifests
      /\ on       \in [Thread -> Item \cup {NoItem}]
      /\ own      \in [Thread -> Nat]
      /\ manifest \in [Thread -> Manifests]
      /\ view     \in [Thread -> Views]
  BY ConstantTypes DEF Init
<1> QED
  BY <1>1, <1>2, <1>3, <1>4, <1>5 DEF TypeInv, TypeOK

LEMMA TypeStep == TypeInv /\ [Next]_vars => TypeInv'
<1> SUFFICES ASSUME TypeInv, [Next]_vars PROVE TypeInv'
  OBVIOUS
<1> USE DEF TypeInv, TypeOK
<1>1. ASSUME NEW t \in Thread, NEW i \in Item, ReceiveAttach(t, i) PROVE TypeInv'
  <2>1. view' \in [Thread -> Views]
    BY <1>1 DEF ReceiveAttach, Views
  <2>2. overlapped' \in BOOLEAN /\ tampered' \in BOOLEAN
    BY <1>1, Zenon DEF ReceiveAttach
  <2>3. /\ calls' = calls + 1
        /\ pc' = [pc EXCEPT ![t] = "attach"]
        /\ on' = [on EXCEPT ![t] = i]
        /\ UNCHANGED <<row, captured, items, noted, manifests, own, manifest, killed>>
    BY <1>1 DEF ReceiveAttach
  <2> QED
    BY <2>1, <2>2, <2>3 DEF AttachHasItem, Places, Attaching
<1>2. ASSUME NEW t \in Thread, AttachCommit(t) PROVE TypeInv'
  BY <1>2 DEF AttachCommit, AttachHasItem, Places, Attaching, Manifests
<1>3. ASSUME NEW t \in Thread, AttachDuplicate(t) PROVE TypeInv'
  BY <1>3, ReturnTypes DEF AttachDuplicate
<1>4. ASSUME NEW t \in Thread, Refresh(t) PROVE TypeInv'
  BY <1>4 DEF Refresh, AttachHasItem, Places, Attaching, Manifests
<1>5. ASSUME NEW t \in Thread, QueryManifest(t) PROVE TypeInv'
  <2>1. Manifest(SessionItems(on[t], own[t])) \in Manifests
    BY DEF Manifest, SessionItems, Manifests
  <2> QED
    BY <1>5, <2>1 DEF QueryManifest, AttachHasItem, Places, Attaching
<1>6. ASSUME NEW t \in Thread, RecordAttached(t) PROVE TypeInv'
  BY <1>6 DEF RecordAttached, AttachHasItem, Places, Attaching, Rows
<1>7. ASSUME NEW t \in Thread, RecordManifest(t) PROVE TypeInv'
  <2>1. manifests' \in Seq(Manifests)
    BY <1>7 DEF RecordManifest
  <2>2. row' \in Rows
    <3>1. row' = [row EXCEPT !.anchor = @ + 1]
      BY <1>7 DEF RecordManifest
    <3>2. row \in Rows
      OBVIOUS
    <3> QED
      BY ONLY <3>1, <3>2 DEF Rows
  <2> QED
    BY <1>7, <2>1, <2>2, ReturnTypes DEF RecordManifest
<1>8. ASSUME NEW t \in Thread, ReportRow(t) PROVE TypeInv'
  <2>1. view' \in [Thread -> Views]
    <3>1. PICK b \in BOOLEAN :
            view' = [view EXCEPT ![t] = [row |-> row, items |-> NoManifest,
                                         tampered |-> tampered, quiet |-> b]]
      BY <1>8 DEF ReportRow
    <3>2. tampered \in BOOLEAN /\ row \in Rows /\ view \in [Thread -> Views]
      OBVIOUS
    <3>3. [row |-> row, items |-> NoManifest, tampered |-> tampered, quiet |-> b] \in Views
      BY ONLY <3>2, ConstantTypes, b \in BOOLEAN DEF Views
    <3> QED
      BY ONLY <3>1, <3>2, <3>3
  <2> QED
    BY <1>8, <2>1 DEF ReportRow, AttachHasItem, Places, Attaching
<1>9. ASSUME NEW t \in Thread, ReportItems(t) PROVE TypeInv'
  <2>1. view' \in [Thread -> Views]
    BY <1>9 DEF ReportItems, Views
  <2> QED
    BY <1>9, <2>1 DEF ReportItems, AttachHasItem, Places, Attaching
<1>10. ASSUME NEW t \in Thread, ReportEvents(t) PROVE TypeInv'
  BY <1>10, ReturnTypes DEF ReportEvents
<1>11. ASSUME NEW t \in Thread, Abort(t) PROVE TypeInv'
  BY <1>11, ReturnTypes DEF Abort
<1>12. ASSUME NEW i \in Item, EditItem(i) PROVE TypeInv'
  BY <1>12 DEF EditItem, AttachInProgress, AttachHasItem, Manifests
<1>13. CASE EditRow
  BY <1>13 DEF EditRow, AttachHasItem, Rows
<1>14. CASE UNCHANGED vars
  BY <1>14 DEF vars, AttachHasItem
<1> QED
  BY <1>1, <1>2, <1>3, <1>4, <1>5, <1>6, <1>7, <1>8, <1>9, <1>10, <1>11, <1>12,
     <1>13, <1>14 DEF Next, Step

\* Every variable keeps its type.
THEOREM TypeCorrect == Spec => []TypeOK
<1>1. Spec => []TypeInv
  BY TypeInit, TypeStep, PTL DEF Spec
<1>2. TypeInv => TypeOK
  BY DEF TypeInv
<1> QED
  BY <1>1, <1>2, PTL

-----------------------------------------------------------------------------
(* A report that answers VERIFIED has read what was captured last.         *)

LEMMA LatestIsListed ==
  ASSUME TypeOK, NEW i \in Item, LatestManifest[i] # 0
  PROVE  i \in Listed
<1>1. manifests # <<>>
  BY DEF LatestManifest, NoManifest
<1>2. Len(manifests) \in 1..Len(manifests) /\ LatestManifest = manifests[Len(manifests)]
  BY <1>1 DEF TypeOK, LatestManifest
<1> QED
  BY <1>2 DEF Listed

\* No report answers VERIFIED about an item that no captured manifest lists,
\* whichever attach calls died between their commit and their manifest.
THEOREM UncapturedIsNeverVerified == Spec => UncapturedNeverVerified
<1>1. TypeOK /\ [Next]_vars
        => [\A t \in Thread : AnswersVerified(t) =>
              \A i \in Item : view[t].items[i] # 0 => i \in Listed]_vars
  BY LatestIsListed DEF AnswersVerified, ReportVerifies, Manifest
<1> QED
  BY <1>1, TypeCorrect, PTL DEF Spec, UncapturedNeverVerified

-----------------------------------------------------------------------------
(* Edits are noticed.  No manifest, captured or on its way, lists a later  *)
(* version than the one that is stored.                                    *)

NoManifestAhead ==
  /\ \A n \in 1..Len(manifests) : \A i \in Item : manifests[n][i] <= items[i]
  /\ \A t \in Thread : \A i \in Item : manifest[t][i] <= items[i]
  /\ \A t \in Thread : pc[t] = "query" => own[t] <= items[on[t]]

\* No captured manifest lists version v of item i or a later one, and none on its way
\* will.
Unlisted(i, v) ==
  /\ v # 0
  /\ \A n \in 1..Len(manifests) : manifests[n][i] < v
  /\ \A t \in Thread : ~WillRead(t, i) /\ manifest[t][i] < v /\ (pc[t] = "query" => own[t] < v)

TamperInv ==
  /\ tampered => \E i \in Item : items[i] # 0 /\ Unlisted(i, items[i])
  /\ \A t \in Thread : view[t].tampered => tampered
  /\ \A t \in Thread : pc[t] = "events" /\ view[t].tampered =>
       \E i \in Item : items[i] # 0 /\ Unlisted(i, view[t].items[i])

RowInv ==
  /\ row.version >= 1
  /\ captured \in {NoSnapshot, [version |-> 1, anchor |-> 0]}
  /\ \A t \in Thread : pc[t] \in {"items", "events"} =>
       view[t].row.version \in 1..row.version

LEMMA EditInit == Init => NoManifestAhead /\ TamperInv /\ RowInv
<1> SUFFICES ASSUME Init PROVE NoManifestAhead /\ TamperInv /\ RowInv
  OBVIOUS
<1>1. NoManifestAhead
  BY DEF Init, NoManifestAhead, NoManifest
<1>2. TamperInv
  BY DEF Init, TamperInv, NoView
<1>3. RowInv
  BY DEF Init, RowInv, Snapshot
<1> QED
  BY <1>1, <1>2, <1>3

LEMMA NoManifestAheadStep ==
  TypeInv /\ NoManifestAhead /\ [Next]_vars => NoManifestAhead'
<1> SUFFICES ASSUME TypeInv, NoManifestAhead, [Next]_vars PROVE NoManifestAhead'
  OBVIOUS
<1> USE DEF TypeInv, TypeOK, Manifests
<1>1. ASSUME NEW t \in Thread, NEW i \in Item, ReceiveAttach(t, i) PROVE NoManifestAhead'
  BY <1>1 DEF ReceiveAttach, NoManifestAhead
<1>2. ASSUME NEW t \in Thread, AttachCommit(t) PROVE NoManifestAhead'
  <2>1. /\ pc' = [pc EXCEPT ![t] = "refresh"]
        /\ UNCHANGED <<manifests, manifest, own, on>>
        /\ \A i \in Item : items'[i] >= items[i]
    BY <1>2 DEF AttachCommit
  <2>2. \A s \in Thread : pc[s] = "query" => on[s] \in Item
    BY DEF AttachHasItem, Attaching
  <2>3. \A i \in Item : items[i] \in Nat /\ items'[i] \in Nat
    BY <1>2 DEF AttachCommit
  <2> QED
    BY <2>1, <2>2, <2>3 DEF NoManifestAhead
<1>3. ASSUME NEW t \in Thread, Return(t), UNCHANGED <<manifests, items>>
      PROVE  NoManifestAhead'
  BY <1>3 DEF Return, NoManifestAhead, NoManifest
<1>4. ASSUME NEW t \in Thread, Refresh(t) PROVE NoManifestAhead'
  <2>1. on[t] \in Item
    BY <1>4 DEF Refresh, AttachHasItem, Attaching
  <2> QED
    BY <1>4, <2>1 DEF Refresh, NoManifestAhead
<1>5. ASSUME NEW t \in Thread, QueryManifest(t) PROVE NoManifestAhead'
  <2>1. on[t] \in Item /\ own[t] <= items[on[t]]
    BY <1>5 DEF QueryManifest, AttachHasItem, Attaching, NoManifestAhead
  <2>2. \A i \in Item : Manifest(SessionItems(on[t], own[t]))[i] <= items[i]
    BY <2>1 DEF Manifest, SessionItems
  <2> QED
    BY <1>5, <2>2 DEF QueryManifest, NoManifestAhead
<1>6. ASSUME NEW t \in Thread, RecordAttached(t) PROVE NoManifestAhead'
  BY <1>6 DEF RecordAttached, NoManifestAhead
<1>7. ASSUME NEW t \in Thread, RecordManifest(t) PROVE NoManifestAhead'
  <2>1. /\ UNCHANGED items
        /\ \A n \in 1..Len(manifests') : \A i \in Item : manifests'[n][i] <= items[i]
    BY <1>7 DEF RecordManifest, NoManifestAhead
  <2> QED
    BY <1>7, <2>1 DEF RecordManifest, Return, NoManifestAhead, NoManifest
<1>8. ASSUME NEW t \in Thread, ReportRow(t) \/ ReportItems(t) PROVE NoManifestAhead'
  BY <1>8 DEF ReportRow, ReportItems, NoManifestAhead
<1>9. ASSUME NEW i \in Item, EditItem(i) PROVE NoManifestAhead'
  <2>1. /\ UNCHANGED <<manifests, manifest, pc, own, on>>
        /\ \A j \in Item : items'[j] >= items[j]
    BY <1>9 DEF EditItem
  <2>2. \A s \in Thread : pc[s] = "query" => on[s] \in Item
    BY DEF AttachHasItem, Attaching
  <2>3. \A j \in Item : items[j] \in Nat /\ items'[j] \in Nat
    BY <1>9 DEF EditItem
  <2> QED
    BY <2>1, <2>2, <2>3 DEF NoManifestAhead
<1>10. CASE EditRow
  BY <1>10 DEF EditRow, NoManifestAhead
<1>11. CASE UNCHANGED vars
  BY <1>11 DEF vars, NoManifestAhead
<1> QED
  BY <1>1, <1>2, <1>3, <1>4, <1>5, <1>6, <1>7, <1>8, <1>9, <1>10, <1>11
     DEF Next, Step, AttachDuplicate, ReportEvents, Abort

\* What no manifest lists stays so until an attach call is received.
LEMMA UnlistedStays ==
  ASSUME TypeInv, [Next]_vars, \A t \in Thread, i \in Item : ~ReceiveAttach(t, i),
         NEW i \in Item, NEW v \in Nat, items[i] # 0, Unlisted(i, v)
  PROVE  Unlisted(i, v)'
<1> USE DEF TypeInv, TypeOK, Manifests
<1>0. /\ v # 0
      /\ \A n \in 1..Len(manifests) : manifests[n][i] < v
      /\ \A t \in Thread : ~WillRead(t, i) /\ manifest[t][i] < v /\ (pc[t] = "query" => own[t] < v)
  BY DEF Unlisted
<1>1. CASE UNCHANGED <<manifests, manifest, pc, on, own>>
  <2>1. \A t \in Thread : ~WillRead(t, i)'
    BY <1>0, <1>1 DEF WillRead
  <2> QED
    BY <1>0, <1>1, <2>1 DEF Unlisted
<1>2. ASSUME NEW t \in Thread, AttachCommit(t) PROVE Unlisted(i, v)'
  <2>1. on[t] # i
    BY <1>2 DEF AttachCommit
  <2>2. WillRead(t, i)
    BY <1>2, <2>1 DEF AttachCommit, WillRead
  <2> QED
    BY <1>0, <2>2
<1>3. ASSUME NEW t \in Thread, Refresh(t) PROVE Unlisted(i, v)'
  <2>1. WillRead(t, i)
    BY <1>3 DEF Refresh, WillRead
  <2> QED
    BY <1>0, <2>1
<1>4. ASSUME NEW t \in Thread, QueryManifest(t) PROVE Unlisted(i, v)'
  <2>1. on[t] = i /\ own[t] < v
    BY <1>0, <1>4 DEF QueryManifest, WillRead
  <2>2. Manifest(SessionItems(on[t], own[t]))[i] < v
    BY <2>1 DEF Manifest, SessionItems
  <2>3. \A s \in Thread : manifest'[s][i] < v
    BY <1>0, <1>4, <2>2 DEF QueryManifest
  <2>4. /\ UNCHANGED <<manifests, on, own>>
        /\ pc'[t] = "note" /\ \A s \in Thread \ {t} : pc'[s] = pc[s]
    BY <1>4 DEF QueryManifest
  <2> QED
    BY <1>0, <2>3, <2>4 DEF Unlisted, WillRead
<1>5. ASSUME NEW t \in Thread, RecordAttached(t) PROVE Unlisted(i, v)'
  BY <1>0, <1>5 DEF RecordAttached, Unlisted, WillRead
<1>6. ASSUME NEW t \in Thread, Return(t) PROVE \A s \in Thread :
               /\ ~WillRead(s, i)' /\ manifest'[s][i] < v
               /\ pc'[s] = "query" => own'[s] < v
  <2>1. /\ pc'[t] = "idle" /\ manifest'[t] = NoManifest
        /\ \A s \in Thread \ {t} : /\ pc'[s] = pc[s] /\ on'[s] = on[s]
                                   /\ own'[s] = own[s] /\ manifest'[s] = manifest[s]
    BY <1>6 DEF Return
  <2>2. NoManifest[i] < v
    BY <1>0 DEF NoManifest
  <2> QED
    BY <1>0, <2>1, <2>2 DEF WillRead
<1>7. ASSUME NEW t \in Thread, RecordManifest(t) PROVE Unlisted(i, v)'
  <2>1. manifests' = Append(manifests, manifest[t]) /\ manifest[t][i] < v
    BY <1>0, <1>7 DEF RecordManifest
  <2>2. \A n \in 1..Len(manifests') : manifests'[n][i] < v
    BY <1>0, <2>1
  <2> QED
    BY <1>0, <1>6, <1>7, <2>2 DEF RecordManifest, Unlisted
<1>8. ASSUME NEW t \in Thread, Return(t), UNCHANGED manifests PROVE Unlisted(i, v)'
  BY <1>0, <1>6, <1>8 DEF Unlisted
<1>9. ASSUME NEW t \in Thread, ReportRow(t) \/ ReportItems(t) PROVE Unlisted(i, v)'
  BY <1>0, <1>9 DEF ReportRow, ReportItems, Unlisted, WillRead
<1>10. \/ UNCHANGED <<manifests, manifest, pc, on, own>>
       \/ \E t \in Thread : \/ AttachCommit(t) \/ Refresh(t) \/ QueryManifest(t) \/ RecordAttached(t)
                            \/ RecordManifest(t) \/ (Return(t) /\ UNCHANGED manifests)
                            \/ ReportRow(t) \/ ReportItems(t)
  BY DEF Next, Step, vars, AttachDuplicate, ReportEvents, Abort, EditItem, EditRow
<1> QED
  BY <1>1, <1>2, <1>3, <1>4, <1>5, <1>7, <1>8, <1>9, <1>10

LEMMA UnlistedLater ==
  ASSUME TypeInv', NEW i \in Item, NEW v \in Nat, NEW w \in Nat, w >= v, Unlisted(i, v)'
  PROVE  Unlisted(i, w)'
<1>1. /\ \A n \in 1..Len(manifests') : manifests'[n][i] \in Nat
      /\ \A t \in Thread : manifest'[t][i] \in Nat /\ own'[t] \in Nat
  BY DEF TypeInv, TypeOK, Manifests
<1>2. /\ v # 0
      /\ \A n \in 1..Len(manifests') : manifests'[n][i] < v
      /\ \A t \in Thread : ~WillRead(t, i)' /\ manifest'[t][i] < v /\ (pc'[t] = "query" => own'[t] < v)
  BY DEF Unlisted, WillRead
<1>3. w # 0 /\ \A n \in Nat : n < v => n < w
  BY <1>2
<1>4. \A n \in 1..Len(manifests') : manifests'[n][i] < w
  BY <1>1, <1>2, <1>3
<1>5. \A t \in Thread : ~WillRead(t, i)' /\ manifest'[t][i] < w /\ (pc'[t] = "query" => own'[t] < w)
  BY <1>1, <1>2, <1>3
<1> QED
  BY <1>3, <1>4, <1>5 DEF Unlisted

\* Stored items only get later versions.
LEMMA ItemsGrow ==
  ASSUME TypeInv, [Next]_vars
  PROVE  \A i \in Item : items[i] # 0 => items'[i] # 0 /\ items'[i] >= items[i]
<1>0. items \in [Item -> Nat]
  BY DEF TypeInv, TypeOK, Manifests
<1>1. ASSUME NEW t \in Thread, AttachCommit(t)
      PROVE  \A i \in Item : items[i] # 0 => items'[i] = items[i]
  BY <1>0, <1>1 DEF AttachCommit
<1>2. ASSUME NEW j \in Item, EditItem(j)
      PROVE  \A i \in Item : items[i] # 0 => items'[i] # 0 /\ items'[i] >= items[i]
  BY <1>0, <1>2 DEF EditItem
<1>3. \/ UNCHANGED items
      \/ \E t \in Thread : AttachCommit(t)
      \/ \E i \in Item : EditItem(i)
  BY DEF Next, Step, vars, ReceiveAttach, AttachDuplicate, Refresh, QueryManifest,
     RecordAttached, RecordManifest, ReportRow, ReportItems, ReportEvents, Abort, EditRow
<1> QED
  BY <1>0, <1>1, <1>2, <1>3

LEMMA TamperStep == TypeInv /\ NoManifestAhead /\ TamperInv /\ [Next]_vars => TamperInv'
<1> SUFFICES ASSUME TypeInv, NoManifestAhead, TamperInv, [Next]_vars PROVE TamperInv'
  OBVIOUS
<1>0. /\ view \in [Thread -> Views] /\ pc \in [Thread -> Places]
      /\ items \in [Item -> Nat] /\ items' \in [Item -> Nat]
      /\ \A t \in Thread : view[t].items \in [Item -> Nat]
  BY TypeStep DEF TypeInv, TypeOK, Manifests, Views
<1>a. TypeInv'
  BY TypeStep
<1>1. ASSUME NEW t \in Thread, NEW i \in Item, ReceiveAttach(t, i) PROVE TamperInv'
  <2>1. ~tampered' /\ \A s \in Thread : ~view'[s].tampered
    BY <1>0, <1>1 DEF ReceiveAttach, Views
  <2> QED
    BY <2>1 DEF TamperInv
<1>2. ASSUME \A t \in Thread, i \in Item : ~ReceiveAttach(t, i) PROVE TamperInv'
  <2>1. ASSUME tampered
        PROVE  \E i \in Item : items'[i] # 0 /\ Unlisted(i, items[i])'
    <3>1. PICK i \in Item : items[i] # 0 /\ Unlisted(i, items[i])
      BY <2>1 DEF TamperInv
    <3>2. PICK v \in Nat : v = items[i]
      BY <1>0
    <3>3. PICK w \in Nat : w = items'[i]
      BY <1>0
    <3>4. Unlisted(i, v)
      BY <3>1, <3>2 DEF Unlisted
    <3>5. Unlisted(i, v)'
      BY <1>2, <3>1, <3>4, UnlistedStays
    <3>6. w >= v /\ w # 0
      BY <3>1, <3>2, <3>3, ItemsGrow
    <3>7. Unlisted(i, w)'
      BY <1>a, <3>5, <3>6, UnlistedLater
    <3> QED
      BY <3>3, <3>6, <3>7 DEF Unlisted
  \* The edited item is stored in a version that nobody has read.
  <2>2. ASSUME NEW i \in Item, EditItem(i), \A t \in Thread : ~WillRead(t, i)
        PROVE  items'[i] # 0 /\ Unlisted(i, items[i])'
    <3>1. /\ UNCHANGED <<manifests, manifest, pc, on, own>>
          /\ items'[i] = items[i] + 1 /\ items[i] \in Nat
      BY <1>0, <2>2 DEF EditItem
    <3>2. /\ \A n \in 1..Len(manifests) : manifests[n][i] \in Nat /\ manifests[n][i] <= items[i]
          /\ \A t \in Thread : manifest[t][i] \in Nat /\ manifest[t][i] <= items[i]
      BY DEF NoManifestAhead, TypeInv, TypeOK, Manifests
    <3>3. ASSUME NEW t \in Thread, pc[t] = "query" PROVE own[t] \in Nat /\ own[t] <= items[i]
      <4>1. on[t] = i
        BY <2>2, <3>3 DEF WillRead
      <4> QED
        BY <3>3, <4>1 DEF NoManifestAhead, TypeInv, TypeOK
    <3>4. \A t \in Thread : ~WillRead(t, i)'
      BY <2>2, <3>1 DEF WillRead
    <3> QED
      BY <3>1, <3>2, <3>3, <3>4 DEF Unlisted
  <2>3. tampered' => \E i \in Item : items'[i] # 0 /\ Unlisted(i, items[i])'
    <3>1. \/ UNCHANGED tampered
          \/ \E i \in Item : EditItem(i) /\ (tampered' => tampered \/ \A t \in Thread : ~WillRead(t, i))
      BY <1>2 DEF Next, Step, vars, AttachCommit, AttachDuplicate, Refresh, QueryManifest,
         RecordAttached, RecordManifest, ReportRow, ReportItems, ReportEvents, Abort, EditItem, EditRow
    <3> QED
      BY <2>1, <2>2, <3>1
  <2>4. tampered => tampered'
    BY <1>2 DEF Next, Step, vars, AttachCommit, AttachDuplicate, Refresh, QueryManifest,
       RecordAttached, RecordManifest, ReportRow, ReportItems, ReportEvents, Abort, EditItem, EditRow
  <2>5. ASSUME NEW t \in Thread
        PROVE  /\ view'[t].tampered => tampered
               /\ pc'[t] = "events" /\ view'[t].tampered =>
                    \/ pc[t] = "events" /\ view[t].tampered /\ view'[t].items = view[t].items
                    \/ view'[t].items = items /\ UNCHANGED items
    <3>1. ASSUME NEW s \in Thread, ReportRow(s) PROVE
               /\ view'[t].tampered => tampered
               /\ pc'[t] = "events" /\ view'[t].tampered =>
                    pc[t] = "events" /\ view[t].tampered /\ view'[t].items = view[t].items
      BY <1>0, <3>1 DEF ReportRow, TamperInv
    <3>2. ASSUME NEW s \in Thread, ReportItems(s) PROVE
               /\ view'[t].tampered => tampered
               /\ pc'[t] = "events" /\ view'[t].tampered =>
                    \/ pc[t] = "events" /\ view[t].tampered /\ view'[t].items = view[t].items
                    \/ view'[t].items = items /\ UNCHANGED items
      BY <1>0, <3>2 DEF ReportItems, TamperInv, Views
    <3>3. ASSUME NEW s \in Thread, Return(s) PROVE
               /\ view'[t].tampered => tampered
               /\ pc'[t] = "events" /\ view'[t].tampered =>
                    pc[t] = "events" /\ view[t].tampered /\ view'[t].items = view[t].items
      BY <1>0, <3>3 DEF Return, TamperInv, NoView
    <3>4. ASSUME NEW s \in Thread,
                 AttachCommit(s) \/ Refresh(s) \/ QueryManifest(s) \/ RecordAttached(s)
          PROVE
               /\ view'[t].tampered => tampered
               /\ pc'[t] = "events" /\ view'[t].tampered =>
                    pc[t] = "events" /\ view[t].tampered /\ view'[t].items = view[t].items
      BY <1>0, <3>4 DEF AttachCommit, Refresh, QueryManifest, RecordAttached, TamperInv
    <3>5. CASE UNCHANGED <<pc, view>>
      BY <3>5 DEF TamperInv
    <3> QED
      BY <1>2, <3>1, <3>2, <3>3, <3>4, <3>5 DEF Next, Step, vars, AttachDuplicate, RecordManifest,
         ReportEvents, Abort, EditItem, EditRow
  <2>6. ASSUME NEW t \in Thread, pc[t] = "events", view[t].tampered, view'[t].items = view[t].items
        PROVE  \E i \in Item : items'[i] # 0 /\ Unlisted(i, view[t].items[i])'
    <3>1. PICK i \in Item : items[i] # 0 /\ Unlisted(i, view[t].items[i])
      BY <2>6 DEF TamperInv
    <3>2. PICK v \in Nat : v = view[t].items[i]
      BY <1>0
    <3>3. Unlisted(i, v)
      BY <3>1, <3>2 DEF Unlisted
    <3>4. Unlisted(i, v)' /\ items'[i] # 0
      BY <1>2, <3>1, <3>3, UnlistedStays, ItemsGrow
    <3>5. view'[t].items[i] = v
      BY <2>6, <3>2
    <3> QED
      BY <3>4, <3>5 DEF Unlisted
  <2>7. ASSUME NEW t \in Thread, tampered, view'[t].items = items, UNCHANGED items
        PROVE  \E i \in Item : items'[i] # 0 /\ Unlisted(i, view[t].items[i])'
    <3>1. PICK i \in Item : items'[i] # 0 /\ Unlisted(i, items[i])'
      BY <2>1, <2>7
    <3>2. view'[t].items[i] = items'[i]
      BY <2>7
    <3> QED
      BY <3>1, <3>2 DEF Unlisted
  <2>8. \A t \in Thread : view'[t].tampered => tampered'
    BY <2>4, <2>5
  <2>9. \A t \in Thread : pc'[t] = "events" /\ view'[t].tampered =>
          \E i \in Item : items'[i] # 0 /\ Unlisted(i, view[t].items[i])'
    BY <2>5, <2>6, <2>7
  <2> QED
    BY <2>3, <2>8, <2>9 DEF TamperInv
<1> QED
  BY <1>1, <1>2

LEMMA RowStep == TypeInv /\ RowInv /\ [Next]_vars => RowInv'
<1> SUFFICES ASSUME TypeInv, RowInv, [Next]_vars PROVE RowInv'
  OBVIOUS
<1>0. /\ view \in [Thread -> Views] /\ pc \in [Thread -> Places] /\ row \in Rows
  BY DEF TypeInv, TypeOK
<1>1. ASSUME UNCHANGED captured, row' \in Rows, row'.version >= row.version,
             \A t \in Thread : pc'[t] \in {"items", "events"} =>
               \/ pc[t] \in {"items", "events"} /\ view'[t].row = view[t].row
               \/ view'[t].row = row
      PROVE  RowInv'
  BY <1>0, <1>1 DEF RowInv, Rows, Views
<1>2. UNCHANGED captured /\ row' \in Rows /\ row'.version >= row.version
  <2>1. CASE \E t \in Thread : RecordAttached(t) \/ RecordManifest(t)
    <3>1. UNCHANGED captured /\ row' = [row EXCEPT !.anchor = @ + 1]
      BY <2>1 DEF RecordAttached, RecordManifest
    <3> QED
      BY ONLY <3>1, <1>0 DEF Rows
  <2>2. CASE EditRow
    <3>1. UNCHANGED captured /\ row' = [row EXCEPT !.version = @ + 1]
      BY <2>2 DEF EditRow
    <3> QED
      BY ONLY <3>1, <1>0 DEF Rows
  <2>3. CASE UNCHANGED <<row, captured>>
    BY <2>3, <1>0 DEF Rows
  <2> QED
    BY <2>1, <2>2, <2>3 DEF Next, Step, ReceiveAttach, AttachCommit, AttachDuplicate, Refresh,
       QueryManifest, ReportRow, ReportItems, ReportEvents, Abort, EditItem, vars
<1>3. ASSUME NEW t \in Thread, pc'[t] \in {"items", "events"}
      PROVE  \/ pc[t] \in {"items", "events"} /\ view'[t].row = view[t].row
             \/ view'[t].row = row
  <2>1. ASSUME NEW s \in Thread, ReportRow(s) \/ ReportItems(s)
        PROVE  \/ pc[t] \in {"items", "events"} /\ view'[t].row = view[t].row
               \/ view'[t].row = row
    BY <1>0, <1>3, <2>1 DEF ReportRow, ReportItems, Views
  <2>2. ASSUME NEW s \in Thread, NEW i \in Item, ReceiveAttach(s, i)
        PROVE  pc[t] \in {"items", "events"} /\ view'[t].row = view[t].row
    BY <1>0, <1>3, <2>2 DEF ReceiveAttach, Views
  <2>3. ASSUME NEW s \in Thread, Return(s)
        PROVE  pc[t] \in {"items", "events"} /\ view'[t].row = view[t].row
    BY <1>0, <1>3, <2>3 DEF Return
  <2>4. ASSUME NEW s \in Thread,
               AttachCommit(s) \/ Refresh(s) \/ QueryManifest(s) \/ RecordAttached(s)
        PROVE  pc[t] \in {"items", "events"} /\ view'[t].row = view[t].row
    BY <1>0, <1>3, <2>4 DEF AttachCommit, Refresh, QueryManifest, RecordAttached
  <2>5. CASE UNCHANGED <<pc, view>>
    BY <1>3, <2>5
  <2> QED
    BY <2>1, <2>2, <2>3, <2>4, <2>5 DEF Next, Step, AttachDuplicate, RecordManifest,
       ReportEvents, Abort, EditItem, EditRow, vars
<1> QED
  BY <1>1, <1>2, <1>3

\* Edits of the request, and edits of an item that no attach call has still to read,
\* are noticed by the reports that follow.
THEOREM EditsAreNoticed == Spec => EditIsNoticed
<1> DEFINE Inv == TypeInv /\ NoManifestAhead /\ TamperInv /\ RowInv
<1>1. Spec => []Inv
  <2>1. Init => Inv
    BY TypeInit, EditInit
  <2>2. Inv /\ [Next]_vars => Inv'
    BY TypeStep, NoManifestAheadStep, TamperStep, RowStep
  <2> QED
    BY <2>1, <2>2, PTL DEF Spec
<1>2. Inv /\ [Next]_vars
        => [\A t \in Thread : AnswersVerified(t) =>
              view[t].row.version = 1 /\ ~view[t].tampered]_vars
  <2> SUFFICES ASSUME Inv, NEW t \in Thread, AnswersVerified(t)
               PROVE  view[t].row.version = 1 /\ ~view[t].tampered
    OBVIOUS
  <2>1. /\ pc[t] = "events" /\ view[t].items = LatestManifest
        /\ captured = Snapshot(view[t].row)
    BY DEF AnswersVerified, ReportVerifies, Manifest
  <2>2. view[t].row.version = 1
    <3>1. view[t].row \in Rows /\ view[t].row.version >= 1
      BY <2>1 DEF TypeInv, TypeOK, Views, Rows, RowInv
    <3>2. captured.version = view[t].row.version
      BY <2>1, <3>1, SnapshotType
    <3> QED
      BY <3>1, <3>2 DEF RowInv, NoSnapshot, Rows
  <2>3. \A i \in Item : ~Unlisted(i, LatestManifest[i])
    <3>1. CASE manifests = <<>>
      BY <3>1 DEF LatestManifest, NoManifest, Unlisted
    <3>2. CASE manifests # <<>>
      <4>1. Len(manifests) \in 1..Len(manifests) /\ LatestManifest = manifests[Len(manifests)]
        BY <3>2 DEF TypeInv, TypeOK, LatestManifest
      <4>2. \A i \in Item : LatestManifest[i] \in Nat
        BY <4>1 DEF TypeInv, TypeOK, Manifests
      <4> QED
        BY <4>1, <4>2 DEF Unlisted
    <3> QED
      BY <3>1, <3>2
  <2> QED
    BY <2>1, <2>2, <2>3 DEF TamperInv
<1> QED
  BY <1>1, <1>2, PTL DEF Spec, EditIsNoticed

-----------------------------------------------------------------------------
(* The report of an untouched request.  While attach calls run alone, the  *)
(* one in progress works on the items that are stored, and when none is in *)
(* progress the last manifest lists them.                                  *)

AloneInv ==
  /\ ~overlapped => \A s, t \in Thread :
       pc[s] \in Attaching /\ pc[t] \in Attaching => s = t
  /\ \A t \in Thread : view[t].quiet => ~AttachInProgress

CurrentInv ==
  Untouched =>
    /\ ~AttachInProgress => items = LatestManifest
    /\ \A t \in Thread :
         /\ pc[t] = "attach" => items = LatestManifest
         /\ pc[t] = "query" => own[t] = items[on[t]]
         /\ pc[t] \in {"note", "capture"} => manifest[t] = items
         /\ pc[t] = "events" /\ view[t].quiet => view[t].items = items

LEMMA CurrentInit == Init => AloneInv /\ CurrentInv
BY DEF Init, AloneInv, CurrentInv, AttachInProgress, Attaching, NoView, LatestManifest

\* Only ReceiveAttach starts an attach call.
LEMMA AttachingStep ==
  ASSUME TypeInv, [Next]_vars,
         ~\E t \in Thread, i \in Item : ReceiveAttach(t, i)
  PROVE  \A s \in Thread : pc'[s] \in Attaching => pc[s] \in Attaching
<1>0. pc \in [Thread -> Places]
  BY DEF TypeInv, TypeOK
<1>1. ASSUME NEW t \in Thread, Step(t) \/ Abort(t) \/ ReportRow(t)
      PROVE  \A s \in Thread : pc'[s] \in Attaching => pc[s] \in Attaching
  BY <1>0, <1>1 DEF Step, AttachCommit, AttachDuplicate, Refresh, QueryManifest, RecordAttached,
     RecordManifest, ReportRow, ReportItems, ReportEvents, Abort, Return, Attaching
<1>2. CASE UNCHANGED pc
  BY <1>2
<1> QED
  BY <1>1, <1>2 DEF Next, EditItem, EditRow, vars

LEMMA AloneStep == TypeInv /\ AloneInv /\ [Next]_vars => AloneInv'
<1> SUFFICES ASSUME TypeInv, AloneInv, [Next]_vars PROVE AloneInv'
  OBVIOUS
<1>0. pc \in [Thread -> Places] /\ view \in [Thread -> Views]
  BY DEF TypeInv, TypeOK
<1>1. ASSUME NEW t \in Thread, NEW i \in Item, ReceiveAttach(t, i) PROVE AloneInv'
  <2>1. /\ overlapped' = (overlapped \/ AttachInProgress)
        /\ pc' = [pc EXCEPT ![t] = "attach"]
    BY <1>1 DEF ReceiveAttach
  <2>2. \A s \in Thread : ~view'[s].quiet
    BY <1>0, <1>1 DEF ReceiveAttach, Views
  <2>3. ~overlapped' => \A s \in Thread : pc[s] \notin Attaching
    BY <2>1 DEF AttachInProgress
  <2> QED
    BY <1>0, <2>1, <2>2, <2>3 DEF AloneInv
<1>2. CASE ~\E t \in Thread, i \in Item : ReceiveAttach(t, i)
  <2>1. \A s \in Thread : pc'[s] \in Attaching => pc[s] \in Attaching
    BY <1>2, AttachingStep
  <2>2. UNCHANGED overlapped
    BY <1>2 DEF Next, Step, AttachCommit, AttachDuplicate, Refresh, QueryManifest, RecordAttached,
       RecordManifest, ReportRow, ReportItems, ReportEvents, Abort, EditItem, EditRow, vars
  <2>3. AttachInProgress' => AttachInProgress
    BY <2>1 DEF AttachInProgress
  <2>4. ASSUME NEW s \in Thread, view'[s].quiet PROVE ~AttachInProgress
    <3>1. ASSUME NEW t \in Thread, ReportRow(t) PROVE ~AttachInProgress
      <4>1. /\ view'[t].quiet = ~AttachInProgress
            /\ \A r \in Thread \ {t} : view'[r] = view[r]
        BY <1>0, <3>1 DEF ReportRow
      <4> QED
        BY <2>4, <4>1 DEF AloneInv
    <3>2. ASSUME NEW t \in Thread, ReportItems(t) PROVE ~AttachInProgress
      BY <1>0, <2>4, <3>2 DEF ReportItems, Views, AloneInv
    <3>3. ASSUME NEW t \in Thread, Return(t) PROVE ~AttachInProgress
      <4>1. \A r \in Thread : view'[r] = view[r] \/ ~view'[r].quiet
        BY <1>0, <3>3 DEF Return, NoView
      <4> QED
        BY <2>4, <4>1 DEF AloneInv
    <3>4. CASE UNCHANGED view
      BY <2>4, <3>4 DEF AloneInv
    <3> QED
      BY <1>2, <3>1, <3>2, <3>3, <3>4 DEF Next, Step, AttachCommit, AttachDuplicate, Refresh,
         QueryManifest, RecordAttached, RecordManifest, ReportEvents, Abort, EditItem, EditRow, vars
  <2> QED
    BY <2>1, <2>2, <2>3, <2>4 DEF AloneInv
<1> QED
  BY <1>1, <1>2

\* What is untouched after a step was untouched before it.
LEMMA UntouchedBefore ==
  ASSUME TypeInv, RowInv, [Next]_vars, Untouched'
  PROVE  Untouched /\ row'.version = row.version
<1>0. row \in Rows /\ items \in [Item -> Nat]
  BY DEF TypeInv, TypeOK, Manifests
<1>1. row'.version = 1 /\ (\A i \in Item : items'[i] <= 1) /\ ~overlapped' /\ ~killed'
  BY DEF Untouched
<1>2. ~overlapped /\ ~killed
  <2>1. ASSUME NEW t \in Thread, NEW i \in Item, ReceiveAttach(t, i) PROVE ~overlapped /\ ~killed
    BY <1>1, <2>1 DEF ReceiveAttach
  <2>2. ASSUME NEW t \in Thread, Abort(t) PROVE ~overlapped /\ ~killed
    BY <1>1, <2>2 DEF Abort
  <2>3. CASE UNCHANGED overlapped /\ UNCHANGED killed
    BY <1>1, <2>3
  <2> QED
    BY <2>1, <2>2, <2>3 DEF Next, Step, AttachCommit, AttachDuplicate, Refresh, QueryManifest,
       RecordAttached, RecordManifest, ReportRow, ReportItems, ReportEvents, EditItem, EditRow, vars
<1>3. row.version = 1
  <2>1. CASE EditRow
    <3>1. row' = [row EXCEPT !.version = @ + 1]
      BY <2>1 DEF EditRow
    <3>2. row'.version = row.version + 1
      BY ONLY <3>1, <1>0 DEF Rows
    <3> QED
      BY <1>0, <1>1, <3>2 DEF RowInv, Rows
  <2>2. CASE \E t \in Thread : RecordAttached(t) \/ RecordManifest(t)
    <3>1. row' = [row EXCEPT !.anchor = @ + 1]
      BY <2>2 DEF RecordAttached, RecordManifest
    <3>2. row'.version = row.version
      BY ONLY <3>1, <1>0 DEF Rows
    <3> QED
      BY <1>1, <3>2
  <2>3. CASE UNCHANGED row
    BY <1>1, <2>3
  <2> QED
    BY <2>1, <2>2, <2>3 DEF Next, Step, ReceiveAttach, AttachCommit, AttachDuplicate, Refresh,
       QueryManifest, ReportRow, ReportItems, ReportEvents, Abort, EditItem, vars
<1>4. \A i \in Item : items[i] <= 1
  <2>1. ASSUME NEW t \in Thread, AttachCommit(t) PROVE \A i \in Item : items[i] <= 1
    BY <1>0, <1>1, <2>1 DEF AttachCommit
  <2>2. ASSUME NEW j \in Item, EditItem(j) PROVE \A i \in Item : items[i] <= 1
    BY <1>0, <1>1, <2>2 DEF EditItem
  <2>3. CASE UNCHANGED items
    BY <1>1, <2>3
  <2> QED
    BY <2>1, <2>2, <2>3 DEF Next, Step, ReceiveAttach, AttachDuplicate, Refresh, QueryManifest,
       RecordAttached, RecordManifest, ReportRow, ReportItems, ReportEvents, Abort, EditRow, vars
<1> QED
  BY <1>1, <1>2, <1>3, <1>4 DEF Untouched

LEMMA CurrentStep ==
  TypeInv /\ RowInv /\ AloneInv /\ CurrentInv /\ [Next]_vars => CurrentInv'
<1> SUFFICES ASSUME TypeInv, RowInv, AloneInv, CurrentInv, [Next]_vars, Untouched'
             PROVE  /\ ~AttachInProgress' => items' = LatestManifest'
                    /\ \A s \in Thread :
                         /\ pc'[s] = "attach" => items' = LatestManifest'
                         /\ pc'[s] = "query" => own'[s] = items'[on'[s]]
                         /\ pc'[s] \in {"note", "capture"} => manifest'[s] = items'
                         /\ pc'[s] = "events" /\ view'[s].quiet => view'[s].items = items'
  BY DEF CurrentInv
<1> DEFINE Goal == /\ ~AttachInProgress' => items' = LatestManifest'
                   /\ \A s \in Thread :
                        /\ pc'[s] = "attach" => items' = LatestManifest'
                        /\ pc'[s] = "query" => own'[s] = items'[on'[s]]
                        /\ pc'[s] \in {"note", "capture"} => manifest'[s] = items'
                        /\ pc'[s] = "events" /\ view'[s].quiet => view'[s].items = items'
<1>0. /\ view \in [Thread -> Views] /\ pc \in [Thread -> Places]
      /\ on \in [Thread -> Item \cup {NoItem}] /\ own \in [Thread -> Nat]
      /\ manifest \in [Thread -> Manifests] /\ items \in [Item -> Nat]
      /\ manifests \in Seq(Manifests)
  BY DEF TypeInv, TypeOK, Manifests
<1>a. Untouched /\ ~overlapped'
  BY UntouchedBefore DEF Untouched
<1>b. ~overlapped
  BY <1>a DEF Untouched
<1>c. ASSUME NEW t \in Thread, pc[t] \in Attaching
      PROVE  /\ \A s \in Thread \ {t} : pc[s] \notin Attaching
             /\ \A s \in Thread : ~view[s].quiet
  BY <1>b, <1>c DEF AloneInv, AttachInProgress
<1>d. /\ ~AttachInProgress => items = LatestManifest
      /\ \A s \in Thread :
           /\ pc[s] = "attach" => items = LatestManifest
           /\ pc[s] = "query" => own[s] = items[on[s]]
           /\ pc[s] \in {"note", "capture"} => manifest[s] = items
           /\ pc[s] = "events" /\ view[s].quiet => view[s].items = items
  BY <1>a DEF CurrentInv
<1>1. ASSUME NEW t \in Thread, NEW i \in Item, ReceiveAttach(t, i) PROVE Goal
  <2>1. ~AttachInProgress
    BY <1>a, <1>1 DEF ReceiveAttach
  <2>2. \A s \in Thread : ~view'[s].quiet
    BY <1>0, <1>1 DEF ReceiveAttach, Views
  <2>3. \A s \in Thread : pc[s] \notin Attaching
    BY <2>1 DEF AttachInProgress
  <2>4. /\ items' = items /\ LatestManifest' = LatestManifest
        /\ pc' = [pc EXCEPT ![t] = "attach"]
    BY <1>1 DEF ReceiveAttach, LatestManifest
  <2> QED
    BY <1>0, <1>d, <2>1, <2>2, <2>3, <2>4 DEF Attaching
<1>2. ASSUME NEW t \in Thread, AttachCommit(t) PROVE Goal
  <2>1. /\ pc' = [pc EXCEPT ![t] = "refresh"] /\ view' = view
    BY <1>2 DEF AttachCommit
  <2>2. AttachInProgress'
    BY <1>0, <2>1 DEF AttachInProgress, Attaching
  <2> QED
    BY <1>0, <1>2, <1>c, <2>1, <2>2 DEF AttachCommit, Attaching
<1>3. ASSUME NEW t \in Thread, AttachDuplicate(t) PROVE Goal
  <2>1. /\ pc[t] = "attach" /\ items' = items /\ LatestManifest' = LatestManifest
    BY <1>3 DEF AttachDuplicate, LatestManifest
  <2>2. /\ pc'[t] = "idle" /\ ~view'[t].quiet
        /\ \A s \in Thread \ {t} : pc'[s] = pc[s] /\ view'[s] = view[s]
    BY <1>0, <1>3 DEF AttachDuplicate, Return, NoView
  <2> QED
    BY <1>c, <1>d, <2>1, <2>2 DEF Attaching
<1>4. ASSUME NEW t \in Thread, Refresh(t) PROVE Goal
  <2>1. /\ pc' = [pc EXCEPT ![t] = "query"] /\ own' = [own EXCEPT ![t] = items[on[t]]]
        /\ UNCHANGED <<view, items, on>>
    BY <1>4 DEF Refresh
  <2>2. AttachInProgress'
    BY <1>0, <2>1 DEF AttachInProgress, Attaching
  <2> QED
    BY <1>0, <1>4, <1>c, <2>1, <2>2 DEF Refresh, Attaching
<1>5. ASSUME NEW t \in Thread, QueryManifest(t) PROVE Goal
  <2>1. /\ pc[t] = "query" /\ pc' = [pc EXCEPT ![t] = "note"]
        /\ manifest' = [manifest EXCEPT ![t] = Manifest(SessionItems(on[t], own[t]))]
        /\ UNCHANGED <<view, items, on>>
    BY <1>5 DEF QueryManifest
  <2>2. AttachInProgress'
    BY <1>0, <2>1 DEF AttachInProgress, Attaching
  <2>3. Manifest(SessionItems(on[t], own[t])) = items
    BY <1>0, <1>d, <2>1 DEF Manifest, SessionItems
  <2> QED
    BY <1>0, <1>c, <2>1, <2>2, <2>3 DEF Attaching
<1>6. ASSUME NEW t \in Thread, RecordAttached(t) PROVE Goal
  <2>1. /\ pc[t] = "note" /\ pc' = [pc EXCEPT ![t] = "capture"]
        /\ UNCHANGED <<view, items, manifest>>
    BY <1>6 DEF RecordAttached
  <2>2. AttachInProgress'
    BY <1>0, <2>1 DEF AttachInProgress, Attaching
  <2> QED
    BY <1>0, <1>c, <1>d, <2>1, <2>2 DEF Attaching
<1>7. ASSUME NEW t \in Thread, RecordManifest(t) PROVE Goal
  <2>1. /\ pc[t] = "capture" /\ items' = items
        /\ manifests' = Append(manifests, manifest[t])
    BY <1>7 DEF RecordManifest
  <2>2. LatestManifest' = manifest[t]
    BY <1>0, <2>1 DEF LatestManifest
  <2>3. /\ pc'[t] = "idle" /\ ~view'[t].quiet
        /\ \A s \in Thread \ {t} : pc'[s] = pc[s] /\ view'[s] = view[s]
    BY <1>0, <1>7 DEF RecordManifest, Return, NoView
  <2> QED
    BY <1>c, <1>d, <2>1, <2>2, <2>3 DEF Attaching
<1>8. ASSUME NEW t \in Thread, ReportRow(t) PROVE Goal
  <2>1. /\ pc' = [pc EXCEPT ![t] = "items"] /\ pc[t] = "idle"
        /\ \A s \in Thread \ {t} : view'[s] = view[s]
        /\ UNCHANGED <<items, on, own, manifest>> /\ LatestManifest' = LatestManifest
    BY <1>0, <1>8 DEF ReportRow, LatestManifest
  <2>2. AttachInProgress => AttachInProgress'
    BY <1>0, <2>1 DEF AttachInProgress, Attaching
  <2> QED
    BY <1>0, <1>d, <2>1, <2>2
<1>9. ASSUME NEW t \in Thread, ReportItems(t) PROVE Goal
  <2>1. /\ pc' = [pc EXCEPT ![t] = "events"] /\ pc[t] = "items"
        /\ view'[t].items = items
        /\ \A s \in Thread \ {t} : view'[s] = view[s]
        /\ UNCHANGED <<items, on, own, manifest>> /\ LatestManifest' = LatestManifest
    BY <1>0, <1>9 DEF ReportItems, LatestManifest, Views
  <2>2. AttachInProgress => AttachInProgress'
    BY <1>0, <2>1 DEF AttachInProgress, Attaching
  <2> QED
    BY <1>0, <1>d, <2>1, <2>2
<1>10. ASSUME NEW t \in Thread, Return(t), pc[t] \notin Attaching,
              UNCHANGED <<items, manifests>>
       PROVE  Goal
  <2>1. /\ pc'[t] = "idle"
        /\ \A s \in Thread \ {t} : /\ pc'[s] = pc[s] /\ view'[s] = view[s] /\ own'[s] = own[s]
                                   /\ on'[s] = on[s] /\ manifest'[s] = manifest[s]
        /\ LatestManifest' = LatestManifest
    BY <1>0, <1>10 DEF Return, LatestManifest
  <2>2. AttachInProgress => AttachInProgress'
    BY <1>10, <2>1 DEF AttachInProgress
  <2> QED
    BY <1>10, <1>d, <2>1, <2>2
<1>11. ASSUME NEW t \in Thread, Abort(t) PROVE Goal
  <2>1. pc[t] \notin Attaching
    BY <1>11 DEF Abort, Untouched
  <2> QED
    BY <1>10, <1>11, <2>1 DEF Abort
<1>12. ASSUME NEW i \in Item, EditItem(i) PROVE FALSE
  <2>1. items'[i] = items[i] + 1 /\ items[i] \in Nat /\ items[i] >= 1
    BY <1>0, <1>12 DEF EditItem
  <2>2. items'[i] <= 1
    BY DEF Untouched
  <2> QED
    BY <2>1, <2>2
<1>13. CASE EditRow \/ UNCHANGED vars
  <2>1. UNCHANGED <<items, on, own, manifest, manifests, pc, view>>
    BY <1>13 DEF EditRow, vars
  <2> QED
    BY <1>d, <2>1 DEF LatestManifest, AttachInProgress
<1> QED
  BY <1>1, <1>2, <1>3, <1>4, <1>5, <1>6, <1>7, <1>8, <1>9, <1>10, <1>11, <1>12, <1>13
     DEF Next, Step, ReportEvents, Attaching

\* A report answers VERIFIED about a request that is evaluated and untouched if
\* no attach call was in progress while it read.
THEOREM UntouchedIsVerified == Spec => UntouchedVerifies
<1> DEFINE Inv == TypeInv /\ RowInv /\ AloneInv /\ CurrentInv
<1>1. Spec => []Inv
  <2>1. Init => Inv
    BY TypeInit, EditInit, CurrentInit
  <2>2. Inv /\ [Next]_vars => Inv'
    BY TypeStep, RowStep, AloneStep, CurrentStep
  <2> QED
    BY <2>1, <2>2, PTL DEF Spec
<1>2. Inv => \A t \in Thread :
        (pc[t] = "events" /\ view[t].quiet /\ Untouched /\ captured # NoSnapshot)
          => ReportVerifies(view[t])
  <2> SUFFICES ASSUME Inv, NEW t \in Thread, pc[t] = "events", view[t].quiet,
                      Untouched, captured # NoSnapshot
               PROVE  ReportVerifies(view[t])
    OBVIOUS
  <2>1. view[t].items = LatestManifest
    BY DEF AloneInv, CurrentInv
  <2>2. view[t].row \in Rows /\ view[t].row.version = 1
    BY DEF TypeInv, TypeOK, Views, Rows, RowInv, Untouched
  <2>3. captured = Snapshot(view[t].row)
    BY <2>2, SnapshotType DEF RowInv
  <2> QED
    BY <2>1, <2>3 DEF ReportVerifies, Manifest
<1> QED
  BY <1>1, <1>2, PTL DEF UntouchedVerifies
-----------------------------------------------------------------------------
(* What an attach call owes.  From its commit on, an item is on record or   *)
(* a call that is still in progress is going to put it there: its session   *)
(* has the item in the manifest it queries even if an edit falls between,   *)
(* because it reads its own item from its refresh.                          *)

WillNote(t, i) == on[t] = i /\ pc[t] \in {"refresh", "query", "note"}
WillList(t, i) ==
  /\ on[t] = i
  /\ \/ pc[t] \in {"refresh", "query"}
     \/ pc[t] \in {"note", "capture"} /\ manifest[t][i] # 0

OwnIsStored(t) ==
  /\ pc[t] \in {"refresh", "query", "note", "capture"} => items[on[t]] # 0
  /\ pc[t] = "query" => own[t] # 0

CaptureInv ==
  /\ \A t \in Thread : OwnIsStored(t)
  /\ ~killed => \A i \in Item : items[i] # 0 =>
       /\ i \in noted \/ \E t \in Thread : WillNote(t, i)
       /\ i \in Listed \/ \E t \in Thread : WillList(t, i)

\* Once every attach call has answered, and none has died, the audit ledger has
\* an evidence_attached event and a captured manifest for every stored item.
CapturedWhenAnswered ==
  (~killed /\ ~AttachInProgress) => \A i \in Item : items[i] # 0 => i \in noted /\ i \in Listed

LEMMA ListedGrows ==
  ASSUME TypeOK, NEW t \in Thread, RecordManifest(t)
  PROVE  /\ Listed \subseteq Listed'
         /\ \A i \in Item : manifest[t][i] # 0 => i \in Listed'
<1>1. /\ manifests \in Seq(Manifests) /\ manifest[t] \in Manifests
      /\ manifests' = Append(manifests, manifest[t])
  BY DEF TypeOK, RecordManifest
<1>2. /\ Len(manifests') = Len(manifests) + 1 /\ Len(manifests) \in Nat
      /\ \A n \in 1..Len(manifests) : manifests'[n] = manifests[n]
      /\ manifests'[Len(manifests) + 1] = manifest[t]
  BY <1>1
<1>3. \A n \in 1..Len(manifests) : n \in 1..Len(manifests')
  BY <1>2
<1>4. Len(manifests) + 1 \in 1..Len(manifests')
  BY <1>2
<1> QED
  BY <1>2, <1>3, <1>4 DEF Listed

\* A step of one session keeps what every other session owes; it may not drop
\* what its own owes, and an item it stores it owes in full.
LEMMA SessionKeepsCapture ==
  ASSUME TypeInv, CaptureInv, NEW t \in Thread, killed' = killed,
         \A u \in Thread \ {t} :
           pc'[u] = pc[u] /\ on'[u] = on[u] /\ own'[u] = own[u] /\ manifest'[u] = manifest[u],
         \A i \in Item : items[i] # 0 => items'[i] # 0,
         noted \subseteq noted', Listed \subseteq Listed',
         OwnIsStored(t)',
         \A i \in Item : WillNote(t, i) => WillNote(t, i)' \/ i \in noted',
         \A i \in Item : WillList(t, i) => WillList(t, i)' \/ i \in Listed',
         \A i \in Item : items'[i] # 0 =>
           items[i] # 0 \/ (WillNote(t, i)' /\ WillList(t, i)')
  PROVE  CaptureInv'
<1>1. ASSUME NEW u \in Thread PROVE OwnIsStored(u)'
  BY <1>1 DEF CaptureInv, OwnIsStored, TypeInv, AttachHasItem, Attaching
<1>2. ASSUME NEW i \in Item, NEW u \in Thread, WillNote(u, i)
      PROVE  i \in noted' \/ \E v \in Thread : WillNote(v, i)'
  BY <1>2 DEF WillNote
<1>3. ASSUME NEW i \in Item, NEW u \in Thread, WillList(u, i)
      PROVE  i \in Listed' \/ \E v \in Thread : WillList(v, i)'
  BY <1>3 DEF WillList
<1>4. ASSUME ~killed, NEW i \in Item, items'[i] # 0
      PROVE  /\ i \in noted' \/ \E v \in Thread : WillNote(v, i)'
             /\ i \in Listed' \/ \E v \in Thread : WillList(v, i)'
  BY <1>2, <1>3, <1>4 DEF CaptureInv
<1> QED
  BY <1>1, <1>4 DEF CaptureInv

LEMMA CaptureStep == TypeInv /\ CaptureInv /\ [Next]_vars => CaptureInv'
<1> SUFFICES ASSUME TypeInv, CaptureInv, [Next]_vars PROVE CaptureInv'
  OBVIOUS
<1>0. /\ pc \in [Thread -> Places] /\ on \in [Thread -> Item \cup {NoItem}]
      /\ own \in [Thread -> Nat] /\ manifest \in [Thread -> Manifests]
      /\ items \in [Item -> Nat]
      /\ \A t \in Thread : OwnIsStored(t)
      /\ \A t \in Thread : pc[t] \in Attaching => on[t] \in Item
  BY DEF TypeInv, TypeOK, Manifests, CaptureInv, AttachHasItem
<1>1. ASSUME NEW t \in Thread,
             (\E i \in Item : ReceiveAttach(t, i)) \/ ReportRow(t) \/ ReportItems(t)
      PROVE  CaptureInv'
  <2>1. /\ UNCHANGED <<items, noted, manifests, own, manifest, killed>>
        /\ pc[t] \in {"idle", "items"}
        /\ \E place \in {"attach", "items", "events"} : pc' = [pc EXCEPT ![t] = place]
        /\ \A u \in Thread \ {t} : on'[u] = on[u]
    BY <1>0, <1>1 DEF ReceiveAttach, ReportRow, ReportItems
  <2>2. OwnIsStored(t)' /\ Listed' = Listed
    BY <1>0, <2>1 DEF OwnIsStored, Listed
  <2> QED
    BY <1>0, <2>1, <2>2, SessionKeepsCapture DEF WillNote, WillList
<1>2. ASSUME NEW t \in Thread, AttachCommit(t) PROVE CaptureInv'
  <2>1. /\ UNCHANGED <<noted, manifests, on, own, manifest, killed>>
        /\ pc[t] = "attach" /\ pc' = [pc EXCEPT ![t] = "refresh"]
        /\ items' = [items EXCEPT ![on[t]] = 1] /\ on[t] \in Item
    BY <1>0, <1>2 DEF AttachCommit, Attaching
  <2>2. OwnIsStored(t)' /\ Listed' = Listed
    BY <1>0, <2>1 DEF OwnIsStored, Listed
  <2>3. \A i \in Item : /\ items[i] # 0 => items'[i] # 0
                        /\ items'[i] # 0 => items[i] # 0 \/ i = on[t]
    BY <1>0, <2>1
  <2> QED
    BY <1>0, <2>1, <2>2, <2>3, SessionKeepsCapture DEF WillNote, WillList
<1>3. ASSUME NEW t \in Thread, AttachDuplicate(t) \/ ReportEvents(t) PROVE CaptureInv'
  <2>1. /\ UNCHANGED <<items, noted, manifests, killed>>
        /\ pc[t] \in {"attach", "events"} /\ pc' = [pc EXCEPT ![t] = "idle"]
        /\ \A u \in Thread \ {t} :
             on'[u] = on[u] /\ own'[u] = own[u] /\ manifest'[u] = manifest[u]
    BY <1>0, <1>3 DEF AttachDuplicate, ReportEvents, Return
  <2>2. OwnIsStored(t)' /\ Listed' = Listed
    BY <1>0, <2>1 DEF OwnIsStored, Listed
  <2> QED
    BY <1>0, <2>1, <2>2, SessionKeepsCapture DEF WillNote, WillList
<1>4. ASSUME NEW t \in Thread, Refresh(t) PROVE CaptureInv'
  <2>1. /\ UNCHANGED <<items, noted, manifests, on, manifest, killed>>
        /\ pc[t] = "refresh" /\ pc' = [pc EXCEPT ![t] = "query"]
        /\ own' = [own EXCEPT ![t] = items[on[t]]]
    BY <1>4 DEF Refresh
  <2>2. OwnIsStored(t)' /\ Listed' = Listed
    BY <1>0, <2>1 DEF OwnIsStored, Listed
  <2> QED
    BY <1>0, <2>1, <2>2, SessionKeepsCapture DEF WillNote, WillList
<1>5. ASSUME NEW t \in Thread, QueryManifest(t) PROVE CaptureInv'
  <2> DEFINE queried == Manifest(SessionItems(on[t], own[t]))
  <2>1. /\ UNCHANGED <<items, noted, manifests, on, own, killed>>
        /\ pc[t] = "query" /\ pc' = [pc EXCEPT ![t] = "note"]
        /\ manifest' = [manifest EXCEPT ![t] = queried]
    BY <1>5 DEF QueryManifest
  <2>2. queried[on[t]] # 0
    BY <1>0, <2>1 DEF Manifest, SessionItems, OwnIsStored, Attaching
  <2> HIDE DEF queried
  <2>3. OwnIsStored(t)' /\ Listed' = Listed
    BY <1>0, <2>1 DEF OwnIsStored, Listed
  <2>4. \A i \in Item : WillList(t, i) => WillList(t, i)'
    BY <1>0, <2>1, <2>2 DEF WillList
  <2> QED
    BY <1>0, <2>1, <2>3, <2>4, SessionKeepsCapture DEF WillNote
<1>6. ASSUME NEW t \in Thread, RecordAttached(t) PROVE CaptureInv'
  <2>1. /\ UNCHANGED <<items, manifests, on, own, manifest, killed>>
        /\ pc[t] = "note" /\ pc' = [pc EXCEPT ![t] = "capture"]
        /\ noted' = noted \cup {on[t]}
    BY <1>6 DEF RecordAttached
  <2>2. OwnIsStored(t)' /\ Listed' = Listed
    BY <1>0, <2>1 DEF OwnIsStored, Listed
  <2> QED
    BY <1>0, <2>1, <2>2, SessionKeepsCapture DEF WillNote, WillList
<1>7. ASSUME NEW t \in Thread, RecordManifest(t) PROVE CaptureInv'
  <2>1. /\ UNCHANGED <<items, noted, killed>>
        /\ pc[t] = "capture" /\ pc' = [pc EXCEPT ![t] = "idle"]
        /\ \A u \in Thread \ {t} :
             on'[u] = on[u] /\ own'[u] = own[u] /\ manifest'[u] = manifest[u]
    BY <1>0, <1>7 DEF RecordManifest, Return
  <2>2. /\ Listed \subseteq Listed'
        /\ \A i \in Item : manifest[t][i] # 0 => i \in Listed'
    BY <1>7, ListedGrows DEF TypeInv
  <2>3. OwnIsStored(t)'
    BY <1>0, <2>1 DEF OwnIsStored
  <2> QED
    BY <1>0, <2>1, <2>2, <2>3, SessionKeepsCapture DEF WillNote, WillList
<1>8. ASSUME NEW t \in Thread, Abort(t) PROVE CaptureInv'
  <2>1. /\ UNCHANGED <<items, noted, manifests>>
        /\ killed' = (killed \/ pc[t] \in Attaching)
        /\ pc' = [pc EXCEPT ![t] = "idle"]
        /\ \A u \in Thread \ {t} :
             on'[u] = on[u] /\ own'[u] = own[u] /\ manifest'[u] = manifest[u]
    BY <1>0, <1>8 DEF Abort, Return
  <2>2. \A u \in Thread : OwnIsStored(u)' 
    BY <1>0, <2>1 DEF OwnIsStored
  <2>3. CASE pc[t] \in Attaching
    BY <2>1, <2>2, <2>3 DEF CaptureInv
  <2>4. CASE pc[t] \notin Attaching
    <3>1. killed' = killed
      BY <2>1, <2>4, Zenon DEF TypeInv, TypeOK
    <3>2. Listed' = Listed
      BY <2>1 DEF Listed
    <3> QED
      BY <1>0, <2>1, <2>2, <2>4, <3>1, <3>2, SessionKeepsCapture DEF WillNote, WillList, Attaching
  <2> QED
    BY <2>3, <2>4
<1>9. ASSUME NEW i \in Item, EditItem(i) PROVE CaptureInv'
  <2>1. /\ UNCHANGED <<noted, manifests, pc, on, own, manifest, killed>>
        /\ items[i] # 0 /\ items' = [items EXCEPT ![i] = @ + 1]
    BY <1>9 DEF EditItem
  <2>2. \A j \in Item : items'[j] # 0 <=> items[j] # 0
    BY <1>0, <2>1
  <2>3. \A t \in Thread : OwnIsStored(t)'
    BY <1>0, <2>1, <2>2 DEF OwnIsStored, Attaching
  <2>4. /\ Listed' = Listed
        /\ \A t \in Thread, j \in Item :
             (WillNote(t, j)' <=> WillNote(t, j)) /\ (WillList(t, j)' <=> WillList(t, j))
    BY <2>1 DEF Listed, WillNote, WillList
  <2> QED
    BY <2>1, <2>2, <2>3, <2>4 DEF CaptureInv
<1>10. CASE EditRow \/ UNCHANGED vars
  BY <1>10 DEF EditRow, vars, CaptureInv, OwnIsStored, WillNote, WillList, Listed
<1> QED
  BY <1>1, <1>2, <1>3, <1>4, <1>5, <1>6, <1>7, <1>8, <1>9, <1>10 DEF Next, Step

\* The safety half of EvidenceIsCaptured: when no attach call has died and none
\* is in progress, every stored item is on record, whatever was edited meanwhile.
THEOREM AnsweredIsCaptured == Spec => []CapturedWhenAnswered
<1>1. Init => CaptureInv
  BY DEF Init, CaptureInv, OwnIsStored, NoManifest
<1>2. TypeInv /\ CaptureInv /\ [Next]_vars => CaptureInv'
  BY CaptureStep
<1>3. CaptureInv => CapturedWhenAnswered
  BY DEF CaptureInv, CapturedWhenAnswered, WillNote, WillList, AttachInProgress, Attaching
<1> QED
  BY <1>1, <1>2, <1>3, TypeInit, TypeStep, PTL DEF Spec
=============================================================================
