--------------------------- MODULE ProofStoreProofs ---------------------------
(***************************************************************************)
(* What ProofStore guarantees for every number of exporters and attaching  *)
(* threads, every set of key settings and every size of the pieces in      *)
(* which the file is written and read.                                     *)
(***************************************************************************)
EXTENDS ProofStore, SequenceTheorems, TLAPS

DBP == INSTANCE EvidenceManifestProofs

-----------------------------------------------------------------------------
(* The database is that of EvidenceManifest, whose invariants carry over.  *)

LEMMA DatabaseAssumption == DBP!EvidenceAssumption
BY ProofStoreAssumption DEF DBP!EvidenceAssumption

LEMMA DatabaseInit == Init => DBP!Init
BY DEF Init, DB!Init, DBP!Init, DB!Snapshot, DBP!Snapshot, DB!NoSnapshot, DBP!NoSnapshot,
       DB!NoManifest, DBP!NoManifest, DB!NoView, DBP!NoView

LEMMA AttachingSame ==
  /\ DB!AttachInProgress = DBP!AttachInProgress
  /\ \A t \in Thread : DB!Return(t) <=> DBP!Return(t)
BY DEF DB!AttachInProgress, DBP!AttachInProgress, DB!Attaching, DBP!Attaching,
       DB!Return, DBP!Return, DB!NoManifest, DBP!NoManifest, DB!NoView, DBP!NoView,
       DB!NoSnapshot, DBP!NoSnapshot

LEMMA DatabaseStep == [Next]_vars => [DBP!Next]_(DBP!vars)
<1>1. ASSUME NEW t \in Thread, NEW i \in Item, DB!ReceiveAttach(t, i) PROVE DBP!Next
  BY <1>1, AttachingSame DEF DB!ReceiveAttach, DBP!ReceiveAttach, DBP!Next
<1>2. ASSUME NEW t \in Thread,
             DB!AttachCommit(t) \/ DB!AttachDuplicate(t) \/ DB!Refresh(t) \/ DB!RecordAttached(t)
      PROVE  DBP!Next
  BY <1>2, AttachingSame
     DEF DB!AttachCommit, DBP!AttachCommit, DB!AttachDuplicate, DBP!AttachDuplicate, DB!Refresh,
         DBP!Refresh, DB!RecordAttached, DBP!RecordAttached, DBP!Next, DBP!Step
<1>3. ASSUME NEW t \in Thread, DB!QueryManifest(t) PROVE DBP!Next
  BY <1>3 DEF DB!QueryManifest, DBP!QueryManifest, DB!Manifest, DBP!Manifest, DB!SessionItems,
              DBP!SessionItems, DBP!Next, DBP!Step
<1>4. ASSUME NEW t \in Thread, DB!RecordManifest(t) \/ DB!Abort(t) PROVE DBP!Next
  BY <1>4, AttachingSame DEF DB!RecordManifest, DBP!RecordManifest, DB!Abort, DBP!Abort,
     DB!Attaching, DBP!Attaching, DBP!Next, DBP!Step
<1>5. ASSUME NEW i \in Item, DB!EditItem(i) PROVE DBP!Next
  BY <1>5 DEF DB!EditItem, DBP!EditItem, DB!WillRead, DBP!WillRead, DBP!Next
<1>6. CASE DB!EditRow
  BY <1>6 DEF DB!EditRow, DBP!EditRow, DBP!Next
<1>7. CASE UNCHANGED database
  BY <1>7 DEF database, DBP!vars
<1>8. CASE Database
  BY <1>8, <1>1, <1>2, <1>3, <1>4, <1>5, <1>6 DEF Database
<1> QED
  BY <1>7, <1>8 DEF Next, vars, ExportRow, ExportItems, ExportEvents, OpenFile, WriteBlocks,
     ExporterDies, ReadBlocks, ReadEnds, Deploy

\* Exports, writes, reads and restarts leave the database alone: what the proof
\* store does to it is what EvidenceManifest allows, step by step.
THEOREM StoreImplementsEvidence == Spec => DB!Spec
<1>1. Init => DB!Init
  BY DEF Init
<1>2. [Next]_vars => [DB!Next]_(DB!vars)
  <2>1. Database => DB!Next
    BY DEF Database, DB!Next, DB!Step
  <2>2. UNCHANGED database => UNCHANGED DB!vars
    BY DEF database, DB!vars
  <2> QED
    BY <2>1, <2>2 DEF Next, vars, ExportRow, ExportItems, ExportEvents, OpenFile, WriteBlocks,
       ExporterDies, ReadBlocks, ReadEnds, Deploy
<1> QED
  BY <1>1, <1>2, PTL DEF Spec, DB!Spec

\* An evaluated request has recorded two events.
AnchorInv == captured # DB!NoSnapshot => row.anchor >= 2

DatabaseInv == DBP!TypeInv /\ DBP!NoManifestAhead /\ DBP!RowInv /\ AnchorInv

LEMMA DatabaseTypes ==
  ASSUME DatabaseInv
  PROVE  /\ row \in DB!Rows /\ captured \in DB!Rows
         /\ items \in DB!Manifests /\ manifests \in Seq(DB!Manifests)
         /\ DB!TypeOK
BY DEF DatabaseInv, DBP!TypeInv, DBP!TypeOK, DB!TypeOK, DB!Rows, DBP!Rows, DB!Manifests,
       DBP!Manifests, DB!Views, DBP!Views, DB!Places, DBP!Places, DB!Attaching, DBP!Attaching

\* A step of the database keeps the snapshot, adds to the anchor and to the items,
\* and records a manifest only with an event.
LEMMA DatabaseMoves ==
  ASSUME DatabaseInv, [Next]_vars
  PROVE  /\ captured' = captured
         /\ row'.version >= row.version
         /\ row'.anchor >= row.anchor
         /\ \A i \in Item : items'[i] >= items[i]
         /\ row'.anchor = row.anchor => manifests' = manifests
<1> DEFINE Goal == /\ captured' = captured
                   /\ row'.version >= row.version
                   /\ row'.anchor >= row.anchor
                   /\ \A i \in Item : items'[i] >= items[i]
                   /\ row'.anchor = row.anchor => manifests' = manifests
<1>0. /\ row \in DB!Rows /\ items \in DB!Manifests /\ manifests \in Seq(DB!Manifests)
  BY DatabaseTypes
<1>a. /\ row.version \in Nat /\ row.anchor \in Nat
      /\ \A i \in Item : items[i] \in Nat
  BY <1>0 DEF DB!Rows, DB!Manifests
<1>1. CASE UNCHANGED <<row, captured, items, manifests>>
  BY <1>1, <1>a
<1>2. ASSUME NEW t \in Thread, DB!AttachCommit(t) PROVE Goal
  <2>1. UNCHANGED <<row, captured, manifests>>
    BY <1>2 DEF DB!AttachCommit
  <2>2. items' = [items EXCEPT ![on[t]] = 1] /\ items[on[t]] = 0
    BY <1>2 DEF DB!AttachCommit
  <2>3. \A i \in Item : items'[i] >= items[i]
    BY <2>2, <1>0, <1>a DEF DB!Manifests
  <2> QED
    BY <2>1, <2>3, <1>a
<1>3. ASSUME NEW t \in Thread, DB!RecordAttached(t) \/ DB!RecordManifest(t) PROVE Goal
  <2>1. UNCHANGED <<captured, items>> /\ row' = [row EXCEPT !.anchor = @ + 1]
    BY <1>3 DEF DB!RecordAttached, DB!RecordManifest
  <2>2. row'.anchor = row.anchor + 1 /\ row'.version = row.version
    BY <2>1, <1>0 DEF DB!Rows
  <2> QED
    BY <2>1, <2>2, <1>a
<1>4. ASSUME NEW i \in Item, DB!EditItem(i) PROVE Goal
  <2>1. UNCHANGED <<row, captured, manifests>> /\ items' = [items EXCEPT ![i] = @ + 1]
    BY <1>4 DEF DB!EditItem
  <2>2. \A j \in Item : items'[j] >= items[j]
    BY <2>1, <1>0, <1>a DEF DB!Manifests
  <2> QED
    BY <2>1, <2>2, <1>a
<1>5. CASE DB!EditRow
  <2>1. UNCHANGED <<captured, items, manifests>> /\ row' = [row EXCEPT !.version = @ + 1]
    BY <1>5 DEF DB!EditRow
  <2>2. row'.version = row.version + 1 /\ row'.anchor = row.anchor
    BY <2>1, <1>0 DEF DB!Rows
  <2> QED
    BY <2>1, <2>2, <1>a
<1>6. CASE Database
  BY <1>6, <1>1, <1>2, <1>3, <1>4, <1>5 DEF Database, DB!ReceiveAttach, DB!AttachDuplicate,
     DB!Refresh, DB!QueryManifest, DB!Abort
<1>7. CASE UNCHANGED database
  BY <1>7, <1>1 DEF database
<1> QED
  BY <1>6, <1>7 DEF Next, vars, ExportRow, ExportItems, ExportEvents, OpenFile, WriteBlocks,
     ExporterDies, ReadBlocks, ReadEnds, Deploy

LEMMA DatabaseInvInit == Init => DatabaseInv
<1> SUFFICES ASSUME Init PROVE DatabaseInv
  OBVIOUS
<1>1. DBP!TypeInv /\ DBP!NoManifestAhead /\ DBP!RowInv
  BY DatabaseAssumption, DatabaseInit, DBP!TypeInit, DBP!EditInit
<1>2. AnchorInv
  BY DEF Init, DB!Init, AnchorInv
<1> QED
  BY <1>1, <1>2 DEF DatabaseInv

LEMMA DatabaseInvStep == DatabaseInv /\ [Next]_vars => DatabaseInv'
<1> SUFFICES ASSUME DatabaseInv, [Next]_vars PROVE DatabaseInv'
  OBVIOUS
<1>1. DBP!TypeInv' /\ DBP!NoManifestAhead' /\ DBP!RowInv'
  BY DatabaseAssumption, DatabaseStep, DBP!TypeStep, DBP!NoManifestAheadStep, DBP!RowStep DEF DatabaseInv
<1>2. row.anchor \in Nat /\ row'.anchor \in Nat
  BY <1>1, DatabaseTypes DEF DB!Rows, DBP!TypeInv, DBP!TypeOK, DBP!Rows
<1>3. AnchorInv'
  BY <1>2, DatabaseMoves DEF DatabaseInv, AnchorInv, DB!NoSnapshot
<1> QED
  BY <1>1, <1>3 DEF DatabaseInv

-----------------------------------------------------------------------------
(* Sequences and bundles.                                                  *)

LEMMA FrontLastAppend ==
  ASSUME NEW S, NEW s \in Seq(S), NEW x \in S
  PROVE  Front(Append(s, x)) = s /\ Last(Append(s, x)) = x
<1>1. /\ Append(s, x) \in Seq(S) /\ Len(Append(s, x)) = Len(s) + 1 /\ Len(s) \in Nat
      /\ \A i \in 1..Len(s) : Append(s, x)[i] = s[i]
      /\ Append(s, x)[Len(s) + 1] = x
  BY AppendProperties
<1>2. /\ SubSeq(Append(s, x), 1, Len(s)) \in Seq(S)
      /\ Len(SubSeq(Append(s, x), 1, Len(s))) = Len(s)
      /\ \A i \in 1..Len(s) : SubSeq(Append(s, x), 1, Len(s))[i] = s[i]
  BY <1>1, SubSeqProperties
<1>3. SubSeq(Append(s, x), 1, Len(s)) = s
  BY <1>2, SeqEqual
<1> QED
  BY <1>1, <1>3 DEF Front, Last

LEMMA AppendFrontLast ==
  ASSUME NEW S, NEW s \in Seq(S), s # <<>>
  PROVE  /\ Front(s) \in Seq(S) /\ Last(s) \in S
         /\ s = Append(Front(s), Last(s))
         /\ Len(Front(s)) = Len(s) - 1
<1>1. PICK r \in Seq(S), x \in S : s = Append(r, x)
  BY SequenceEmptyOrAppend
<1>2. Front(s) = r /\ Last(s) = x
  BY <1>1, FrontLastAppend
<1> QED
  BY <1>1, <1>2, AppendProperties

LEMMA PairExtremes ==
  ASSUME NEW m \in Nat, NEW n \in Nat
  PROVE  /\ Min({m, n}) = IF m <= n THEN m ELSE n
         /\ Max({m, n}) = IF m <= n THEN n ELSE m
BY DEF Min, Max

\* What a bundle of `count' events and the answers f says, and the bundle that a pair
\* of key id and secret seals.
Body(count, f)         == Append([n \in 1..count |-> Event(n)], Findings(f))
Sealed(count, f, pair) == Append(Body(count, f), Seal(Body(count, f), pair))

LEMMA BodyParts ==
  ASSUME NEW count \in Nat, NEW f \in Answers
  PROVE  LET body == Body(count, f)
         IN  /\ body \in Seq(BodyBlocks) /\ Len(body) = count + 1
             /\ Front(body) = [n \in 1..count |-> Event(n)]
             /\ Last(body) = Findings(f)
             /\ \A n \in 1..count : body[n] = Event(n)
             /\ body[count + 1] = Findings(f)
<1> DEFINE events == [n \in 1..count |-> Event(n)]
<1>1. /\ \A n \in 1..count : Event(n) \in BodyBlocks
      /\ Findings(f) \in BodyBlocks
  BY DEF Event, Findings, BodyBlocks
<1>2. /\ events \in Seq(BodyBlocks) /\ Len(events) = count
      /\ \A n \in 1..count : events[n] = Event(n)
  BY <1>1
<1>3. Body(count, f) = Append(events, Findings(f))
  BY DEF Body
<1> HIDE DEF events
<1>4. Front(Body(count, f)) = events /\ Last(Body(count, f)) = Findings(f)
  BY <1>1, <1>2, <1>3, FrontLastAppend
<1>5. /\ Body(count, f) \in Seq(BodyBlocks) /\ Len(Body(count, f)) = Len(events) + 1
      /\ \A n \in 1..Len(events) : Body(count, f)[n] = events[n]
      /\ Body(count, f)[Len(events) + 1] = Findings(f)
  BY <1>1, <1>2, <1>3, AppendProperties
<1> QED
  BY <1>2, <1>4, <1>5 DEF events

LEMMA SealedParts ==
  ASSUME NEW count \in Nat, NEW f \in Answers, NEW pair \in Pairs
  PROVE  LET b == Sealed(count, f, pair)
         IN  /\ b \in Seq(Blocks) /\ Len(b) = count + 2
             /\ Front(b) = Body(count, f)
             /\ Last(b) = Seal(Body(count, f), pair)
             /\ \A n \in 1..count : b[n] = Event(n)
             /\ b[count + 1] = Findings(f)
             /\ b[count + 2] = Seal(Body(count, f), pair)
<1> DEFINE body == Body(count, f)
           seal == Seal(body, pair)
<1>1. /\ body \in Seq(BodyBlocks) /\ Len(body) = count + 1
      /\ \A n \in 1..count : body[n] = Event(n)
      /\ body[count + 1] = Findings(f)
  BY BodyParts
<1>2. Sealed(count, f, pair) = Append(body, seal)
  BY DEF Sealed
<1> HIDE DEF body
<1>3. seal \in Blocks
  <2>1. pair.id \in STRING /\ pair.secret \in STRING
    BY DEF Pairs
  <2>2. seal = [seal |-> [hash |-> body, id |-> pair.id, signature |-> <<pair.secret, body>>]]
    BY DEF Seal, Hashed
  <2>3. seal \in SealBlocks
    BY <2>1, <2>2, <1>1 DEF SealBlocks
  <2> QED
    BY <2>3 DEF Blocks
<1>4. body \in Seq(Blocks)
  BY <1>1, SeqMonotonic DEF Blocks
<1> HIDE DEF seal
<1>5. /\ Append(body, seal) \in Seq(Blocks) /\ Len(Append(body, seal)) = count + 2
      /\ Front(Append(body, seal)) = body /\ Last(Append(body, seal)) = seal
      /\ \A n \in 1..(count + 1) : Append(body, seal)[n] = body[n]
      /\ Append(body, seal)[count + 2] = seal
  BY <1>1, <1>3, <1>4, AppendProperties, FrontLastAppend
<1> QED
  BY <1>1, <1>2, <1>5 DEF body, seal

-----------------------------------------------------------------------------
(* Type correctness, and what every bundle that was built looks like.      *)

IsBuilt(b, count, f, pair) ==
  /\ b = Sealed(count, f, pair)
  /\ f.receipt = Receipt(f.row, pair)

BuiltInv == \A b \in built : \E count \in Nat, f \in Answers, pair \in Pairs : IsBuilt(b, count, f, pair)

\* Exporters have a bundle from their last read until they leave.
HasText(e) ==
  /\ at[e] \notin {"open", "write"} => text[e] = <<>> /\ offset[e] = 0
  /\ at[e] = "open" => text[e] \in built /\ offset[e] = 0
  /\ at[e] = "write" => text[e] \in built /\ offset[e] < Len(text[e])

TextInv == \A e \in Exporter : HasText(e)

TypeInv == DatabaseInv /\ TypeOK /\ BuiltInv /\ TextInv /\ ValidSetting(setting)

LEMMA TypeInit == Init => TypeInv
<1> SUFFICES ASSUME Init PROVE TypeInv
  OBVIOUS
<1>1. DatabaseInv
  BY DatabaseInvInit
<1>2. /\ DB!NoManifest \in DB!Manifests
      /\ Nothing \in FoundSets
  BY DEF DB!NoManifest, DB!Manifests, Nothing, FoundSets, DB!NoSnapshot, DB!Rows
<1>3. TypeOK
  BY <1>1, <1>2, DatabaseTypes, ProofStoreAssumption DEF Init, TypeOK
<1>4. BuiltInv /\ TextInv /\ ValidSetting(setting)
  BY FirstSettingAssumption DEF Init, BuiltInv, TextInv, HasText
<1> QED
  BY <1>1, <1>3, <1>4 DEF TypeInv

\* The bundle of the last read.
LEMMA ExportBuilds ==
  ASSUME TypeInv, NEW e \in Exporter, ExportEvents(e)
  PROVE  \E f \in Answers :
           /\ IsBuilt(text'[e], row.anchor, f, setting.current)
           /\ f.row = found[e].row /\ f.items = found[e].items
           /\ f.snapshotMatch => captured = DB!Snapshot(f.row)
           /\ f.manifestMatch => DB!Manifest(f.items) = DB!LatestManifest
           /\ text' = [text EXCEPT ![e] = Sealed(row.anchor, f, setting.current)]
           /\ built' = built \cup {Sealed(row.anchor, f, setting.current)}
<1>1. /\ found[e].row \in DB!Rows /\ found[e].items \in DB!Manifests
      /\ setting.current \in Pairs /\ text \in [Exporter -> Seq(Blocks)]
  BY DEF TypeInv, TypeOK, FoundSets
<1>2. PICK second \in Second :
        LET f == [row           |-> found[e].row,
                  items         |-> found[e].items,
                  receipt       |-> Receipt(found[e].row, setting.current),
                  snapshotMatch |-> captured = DB!Snapshot(found[e].row),
                  manifestMatch |-> DB!Manifest(found[e].items) = DB!LatestManifest,
                  created       |-> second]
        IN  /\ text'  = [text EXCEPT ![e] = Bundle(row.anchor, f)]
            /\ built' = built \cup {Bundle(row.anchor, f)}
  BY Zenon DEF ExportEvents
<1> DEFINE f == [row           |-> found[e].row,
                 items         |-> found[e].items,
                 receipt       |-> Receipt(found[e].row, setting.current),
                 snapshotMatch |-> captured = DB!Snapshot(found[e].row),
                 manifestMatch |-> DB!Manifest(found[e].items) = DB!LatestManifest,
                 created       |-> second]
<1>3. Receipt(found[e].row, setting.current) \in Receipts
  BY <1>1 DEF Receipt, Receipts, Pairs, DB!Rows
<1>4. f \in Answers
  <2>1. (captured = DB!Snapshot(found[e].row)) \in BOOLEAN
        /\ (DB!Manifest(found[e].items) = DB!LatestManifest) \in BOOLEAN
    OBVIOUS
  <2> QED
    BY <1>1, <1>3, <2>1, Zenon DEF Answers
<1>5. /\ f.row = found[e].row /\ f.items = found[e].items
      /\ f.receipt = Receipt(f.row, setting.current)
  OBVIOUS
<1>6. /\ f.snapshotMatch => captured = DB!Snapshot(f.row)
      /\ f.manifestMatch => DB!Manifest(f.items) = DB!LatestManifest
  BY Zenon
<1>7. /\ text'  = [text EXCEPT ![e] = Bundle(row.anchor, f)]
      /\ built' = built \cup {Bundle(row.anchor, f)}
  BY <1>2
<1> HIDE DEF f
<1>8. Bundle(row.anchor, f) = Sealed(row.anchor, f, setting.current)
  BY DEF Bundle, Sealed, Body
<1> QED
  BY <1>1, <1>4, <1>5, <1>6, <1>7, <1>8 DEF IsBuilt

LEMMA OverwrittenParts ==
  ASSUME NEW b \in Seq(Blocks), file \in Seq(Blocks), NEW m \in Nat \ {0}, NEW n \in m..Len(b)
  PROVE  LET after == Overwritten(b, m, n)
             top   == IF n <= Len(file) THEN Len(file) ELSE n
         IN  /\ after \in Seq(Blocks) /\ Len(after) = top
             /\ \A k \in 1..Len(after) : after[k] = IF k \in m..n THEN b[k]
                                             ELSE IF k <= Len(file) THEN file[k] ELSE Hole
<1> DEFINE top     == IF n <= Len(file) THEN Len(file) ELSE n
           at_(k)  == IF k \in m..n THEN b[k] ELSE IF k <= Len(file) THEN file[k] ELSE Hole
<1>0. n \in Nat /\ Len(file) \in Nat
  BY LenProperties
<1>1. Max({n, Len(file)}) = top /\ top \in Nat /\ n \in Nat /\ Len(file) \in Nat
  BY <1>0, PairExtremes
<1>2. Overwritten(b, m, n) = [k \in 1..top |-> at_(k)]
  BY <1>1 DEF Overwritten
<1>3. \A k \in 1..top : at_(k) \in Blocks
  <2>1. \A k \in m..n : b[k] \in Blocks
    BY <1>1, ElementOfSeq
  <2>2. \A k \in 1..Len(file) : file[k] \in Blocks
    BY ElementOfSeq
  <2>3. Hole \in Blocks
    BY DEF Blocks
  <2> QED
    BY <1>1, <2>1, <2>2, <2>3
<1> HIDE DEF top, at_
<1>4. [k \in 1..top |-> at_(k)] \in Seq(Blocks) /\ Len([k \in 1..top |-> at_(k)]) = top
  BY <1>1, <1>3
<1> QED
  BY <1>2, <1>4 DEF top, at_

\* What WriteBlocks writes.
LEMMA WriteParts ==
  ASSUME TypeInv, NEW e \in Exporter, Writing(e)
  PROVE  LET n == Min({offset[e] + WriteSize, Len(text[e])})
         IN  /\ text[e] \in Seq(Blocks) /\ offset[e] \in Nat
             /\ n \in (offset[e] + 1)..Len(text[e])
             /\ Overwritten(text[e], offset[e] + 1, n) \in Seq(Blocks)
<1>1. /\ text[e] \in Seq(Blocks) /\ offset[e] \in Nat /\ file \in Seq(Blocks)
      /\ offset[e] < Len(text[e]) /\ Len(text[e]) \in Nat
  BY DEF TypeInv, TypeOK, TextInv, HasText, Writing
<1>0. WriteSize \in Nat \ {0} /\ offset[e] + WriteSize \in Nat
  BY <1>1, ProofStoreAssumption
<1>2. Min({offset[e] + WriteSize, Len(text[e])}) \in (offset[e] + 1)..Len(text[e])
  <2>1. Min({offset[e] + WriteSize, Len(text[e])})
          = IF offset[e] + WriteSize <= Len(text[e]) THEN offset[e] + WriteSize ELSE Len(text[e])
    BY <1>0, <1>1, PairExtremes
  <2> QED
    BY <1>0, <1>1, <2>1
<1> QED
  BY <1>1, <1>2, OverwrittenParts

\* An exporter that leaves keeps the others as they were.
LEMMA LeaveKeeps ==
  ASSUME TypeInv, NEW e \in Exporter, Leave(e), UNCHANGED built
  PROVE  /\ at'        \in [Exporter -> {"idle", "items", "events", "open", "write"}]
         /\ found'     \in [Exporter -> FoundSets]
         /\ text'      \in [Exporter -> Seq(Blocks)]
         /\ offset'    \in [Exporter -> Nat]
         /\ itemsThen' \in [Exporter -> DB!Manifests]
         /\ crowded'   \in [Exporter -> BOOLEAN]
         /\ TextInv'
<1>1. /\ DB!NoManifest \in DB!Manifests
      /\ Nothing \in FoundSets
  BY DEF DB!NoManifest, DB!Manifests, Nothing, FoundSets, DB!NoSnapshot, DB!Rows
<1>2. /\ at' \in [Exporter -> {"idle", "items", "events", "open", "write"}]
      /\ found' \in [Exporter -> FoundSets]
      /\ text' \in [Exporter -> Seq(Blocks)]
      /\ offset' \in [Exporter -> Nat]
      /\ itemsThen' \in [Exporter -> DB!Manifests]
      /\ crowded' \in [Exporter -> BOOLEAN]
  BY <1>1 DEF Leave, TypeInv, TypeOK
<1>3. TextInv'
  BY <1>2 DEF Leave, TypeInv, TypeOK, TextInv, HasText
<1> QED
  BY <1>2, <1>3

\* The blocks that one read returns.
LEMMA NextRead ==
  ASSUME TypeInv, Len(reading) < Len(file)
  PROVE  LET m    == Min({Len(reading) + ReadSize, Len(file)})
             next == SubSeq(file, Len(reading) + 1, m)
         IN  /\ next \in Seq(Blocks) /\ reading \o next \in Seq(Blocks)
             /\ Len(next) = m - Len(reading) /\ m \in (Len(reading) + 1)..Len(file)
             /\ \A k \in 1..Len(next) : next[k] = file[Len(reading) + k]
<1> DEFINE m    == Min({Len(reading) + ReadSize, Len(file)})
           next == SubSeq(file, Len(reading) + 1, m)
<1>1. /\ reading \in Seq(Blocks) /\ file \in Seq(Blocks)
      /\ Len(reading) \in Nat /\ Len(file) \in Nat
      /\ ReadSize \in Nat \ {0} /\ Len(reading) + ReadSize \in Nat
  BY ProofStoreAssumption DEF TypeInv, TypeOK
<1>2. m = IF Len(reading) + ReadSize <= Len(file) THEN Len(reading) + ReadSize ELSE Len(file)
  BY <1>1, PairExtremes
<1>3. m \in (Len(reading) + 1)..Len(file)
  BY <1>1, <1>2
<1> HIDE DEF m
<1>4. \A k \in (Len(reading) + 1)..m : file[k] \in Blocks
  BY <1>1, <1>3, ElementOfSeq
<1>5. /\ next \in Seq(Blocks) /\ Len(next) = m - Len(reading)
      /\ \A k \in 1..(m - Len(reading)) : next[k] = file[Len(reading) + k]
  BY <1>1, <1>3, <1>4, SubSeqProperties
<1>6. reading \o next \in Seq(Blocks)
  BY <1>1, <1>5, ConcatProperties
<1> QED
  BY <1>3, <1>5, <1>6 DEF m

LEMMA TypeStep == TypeInv /\ [Next]_vars => TypeInv'
<1> SUFFICES ASSUME TypeInv, [Next]_vars PROVE TypeInv'
  OBVIOUS
<1>0. DatabaseInv' /\ DB!TypeOK'
  <2>1. DatabaseInv'
    BY DatabaseInvStep DEF TypeInv
  <2> QED
    BY <2>1, DatabaseTypes, PTL
<1> DEFINE Others == /\ TypeOK' /\ BuiltInv' /\ TextInv' /\ ValidSetting(setting)'
<1> USE DEF TypeInv, TypeOK
<1>1. ASSUME NEW e \in Exporter, ExportRow(e) PROVE Others
  <2>1. found' \in [Exporter -> FoundSets] /\ itemsThen' \in [Exporter -> DB!Manifests]
    <3>1. row \in DB!Rows /\ items \in DB!Manifests
      BY DatabaseTypes
    <3> QED
      BY <1>1, <3>1 DEF ExportRow, FoundSets
  <2> QED
    BY <1>0, <1>1, <2>1 DEF ExportRow, TextInv, HasText, BuiltInv, ValidSetting
<1>2. ASSUME NEW e \in Exporter, ExportItems(e) PROVE Others
  <2>1. found' \in [Exporter -> FoundSets]
    <3>1. items \in DB!Manifests
      BY DatabaseTypes
    <3> QED
      BY <1>2, <3>1 DEF ExportItems, FoundSets
  <2> QED
    BY <1>0, <1>2, <2>1 DEF ExportItems, TextInv, HasText, BuiltInv, ValidSetting
<1>3. ASSUME NEW e \in Exporter, ExportEvents(e) PROVE Others
  <2>1. row.anchor \in Nat /\ setting.current \in Pairs
    BY DatabaseTypes DEF DB!Rows
  <2>2. PICK f \in Answers :
          /\ IsBuilt(text'[e], row.anchor, f, setting.current)
          /\ text' = [text EXCEPT ![e] = Sealed(row.anchor, f, setting.current)]
          /\ built' = built \cup {Sealed(row.anchor, f, setting.current)}
    BY <1>3, ExportBuilds
  <2> DEFINE b == Sealed(row.anchor, f, setting.current)
  <2>3. b \in Seq(Blocks)
    BY <2>1, SealedParts
  <2>4. /\ at' = [at EXCEPT ![e] = "open"] /\ at[e] = "events"
        /\ UNCHANGED <<found, offset, itemsThen, crowded, file, reading, setting, exports,
                       deploys, settled>>
    BY <1>3 DEF ExportEvents
  <2> HIDE DEF b
  <2>5. TextInv'
    BY <2>2, <2>4 DEF TextInv, HasText, b
  <2>6. BuiltInv'
    BY <2>1, <2>2 DEF BuiltInv, IsBuilt
  <2>7. text' \in [Exporter -> Seq(Blocks)] /\ built' \in SUBSET Seq(Blocks)
    BY <2>2, <2>3 DEF b
  <2> QED
    BY <1>0, <2>4, <2>5, <2>6, <2>7 DEF ValidSetting
<1>4. ASSUME NEW e \in Exporter, OpenFile(e) PROVE Others
  <2>1. /\ at' = [at EXCEPT ![e] = "write"] /\ at[e] = "open"
        /\ file' = <<>> /\ settled' = <<>>
        /\ UNCHANGED <<found, text, offset, itemsThen, reading, setting, exports, deploys, built>>
    BY <1>4 DEF OpenFile, Opened
  <2>2. crowded' \in [Exporter -> BOOLEAN]
    BY <1>4, Zenon DEF OpenFile
  <2>3. 0 < Len(text[e])
    <3>1. PICK count \in Nat, f \in Answers, pair \in Pairs : text[e] = Sealed(count, f, pair)
      BY <2>1 DEF TextInv, HasText, BuiltInv, IsBuilt
    <3> QED
      BY <3>1, SealedParts
  <2>5. text[e] \in built /\ offset[e] = 0 /\ at \in [Exporter -> {"idle", "items", "events", "open", "write"}]
    BY <2>1 DEF TextInv, HasText
  <2>6. UNCHANGED <<text, offset, built>> /\ TextInv
    BY <2>1
  <2>4. TextInv'
    <3> SUFFICES ASSUME NEW y \in Exporter PROVE HasText(y)'
      BY Zenon DEF TextInv
    <3>1. CASE y = e
      BY ONLY <2>1, <2>3, <2>5, <2>6, <3>1 DEF HasText
    <3>2. CASE y # e
      <4>1. at'[y] = at[y]
        BY ONLY <2>1, <2>5, <3>2
      <4> QED
        BY ONLY <4>1, <2>6 DEF TextInv, HasText
    <3> QED
      BY <3>1, <3>2, Zenon
  <2>7. TypeOK'
    <3>1. at' \in [Exporter -> {"idle", "items", "events", "open", "write"}]
      BY <2>1, <2>5
    <3>2. file' \in Seq(Blocks) /\ settled' \in Seq(Blocks)
      BY <2>1
    <3> QED
      BY <1>0, <2>1, <2>2, <3>1, <3>2
  <2>8. BuiltInv' /\ ValidSetting(setting)'
    BY <2>1 DEF BuiltInv, ValidSetting
  <2> QED
    BY <2>4, <2>7, <2>8
<1>5. ASSUME NEW e \in Exporter, WriteBlocks(e) PROVE Others
  <2> DEFINE n == Min({offset[e] + WriteSize, Len(text[e])})
  <2>1. /\ Writing(e) /\ at[e] = "write"
        /\ file' = Overwritten(text[e], offset[e] + 1, n)
        /\ UNCHANGED <<reading, setting, exports, deploys, built>>
    BY <1>5 DEF WriteBlocks, Writing
  <2>2. n \in (offset[e] + 1)..Len(text[e]) /\ file' \in Seq(Blocks) /\ offset[e] \in Nat
    BY <2>1, WriteParts
  <2>3. CASE n < Len(text[e])
    <3>1. /\ offset' = [offset EXCEPT ![e] = n]
          /\ UNCHANGED <<at, found, text, itemsThen, crowded, settled>>
      BY <1>5, <2>3 DEF WriteBlocks
    <3> HIDE DEF n
    <3>2. TextInv'
      BY <2>1, <2>2, <2>3, <3>1 DEF TextInv, HasText
    <3> QED
      BY <1>0, <2>1, <2>2, <3>1, <3>2 DEF BuiltInv, ValidSetting
  <2>4. CASE ~(n < Len(text[e]))
    <3>1. Leave(e) /\ settled' = IF crowded[e] THEN settled ELSE text[e]
      BY <1>5, <2>4 DEF WriteBlocks
    <3>2. settled' \in Seq(Blocks)
      BY <3>1
    <3> QED
      BY <1>0, <2>1, <2>2, <3>1, <3>2, LeaveKeeps DEF BuiltInv, ValidSetting
  <2> QED
    BY <2>3, <2>4
<1>6. ASSUME NEW e \in Exporter, ExporterDies(e) PROVE Others
  BY <1>0, <1>6, LeaveKeeps DEF ExporterDies, BuiltInv, ValidSetting
<1>7. CASE ReadBlocks
  <2>1. reading' \in Seq(Blocks)
    BY <1>7, NextRead DEF ReadBlocks
  <2> QED
    BY <1>0, <1>7, <2>1 DEF ReadBlocks, exporting, TextInv, HasText, BuiltInv, ValidSetting
<1>8. CASE ReadEnds
  BY <1>0, <1>8 DEF ReadEnds, exporting, TextInv, HasText, BuiltInv, ValidSetting
<1>9. ASSUME NEW s \in Settings, Deploy(s) PROVE Others
  <2>1. setting' \in [current : Pairs, previous : Seq(Pairs)] /\ ValidSetting(setting)'
    BY <1>9, ProofStoreAssumption DEF Deploy, ValidSetting
  <2> QED
    BY <1>0, <1>9, <2>1 DEF Deploy, exporting, TextInv, HasText, BuiltInv
<1>10. CASE Database
  BY <1>0, <1>10 DEF Database, exporting, TextInv, HasText, BuiltInv, ValidSetting
<1>11. CASE UNCHANGED vars
  BY <1>0, <1>11 DEF vars, exporting, TextInv, HasText, BuiltInv, ValidSetting
<1> QED
  BY <1>0, <1>1, <1>2, <1>3, <1>4, <1>5, <1>6, <1>7, <1>8, <1>9, <1>10, <1>11 DEF Next

\* Every variable keeps its type.
THEOREM TypeCorrect == Spec => []TypeOK
<1>1. Spec => []TypeInv
  BY TypeInit, TypeStep, PTL DEF Spec
<1>2. TypeInv => TypeOK
  BY DEF TypeInv
<1> QED
  BY <1>1, <1>2, PTL

-----------------------------------------------------------------------------
(* What verifies was built.  The seal of every block that ever gets into   *)
(* the file, or to a reader, seals a bundle that was built.                *)

SealsBuilt(blocks) ==
  \A k \in 1..Len(blocks) :
    "seal" \in DOMAIN blocks[k] => Append(blocks[k].seal.hash, blocks[k]) \in built

SealInv == SealsBuilt(file) /\ SealsBuilt(reading)

LEMMA BuiltIsSealed ==
  ASSUME TypeInv, NEW b \in built
  PROVE  b \in Seq(Blocks) /\ SealsBuilt(b)
<1>1. PICK count \in Nat, f \in Answers, pair \in Pairs : b = Sealed(count, f, pair)
  BY DEF TypeInv, BuiltInv, IsBuilt
<1> DEFINE body == Body(count, f)
<1>2. /\ b \in Seq(Blocks) /\ Len(b) = count + 2
      /\ \A n \in 1..count : b[n] = Event(n)
      /\ b[count + 1] = Findings(f)
      /\ b[count + 2] = Seal(body, pair)
  BY <1>1, SealedParts
<1>3. b = Append(body, Seal(body, pair))
  BY <1>1 DEF Sealed
<1> HIDE DEF body
<1>4. \A k \in 1..(count + 1) : "seal" \notin DOMAIN b[k]
  <2>1. \A n \in 1..count : "seal" \notin DOMAIN b[n]
    <3>1. \A n \in 1..count : DOMAIN Event(n) = {"event"}
      BY DEF Event
    <3> QED
      BY <1>2, <3>1
  <2>2. "seal" \notin DOMAIN b[count + 1]
    BY <1>2 DEF Findings
  <2> QED
    BY <2>1, <2>2
<1>5. b[count + 2].seal.hash = body
  BY <1>2 DEF Seal, Hashed
<1>6. Append(b[count + 2].seal.hash, b[count + 2]) = b
  BY <1>2, <1>3, <1>5
<1>7. \A k \in 1..Len(b) : k \in 1..(count + 1) \/ k = count + 2
  BY <1>2
<1> QED
  BY <1>2, <1>4, <1>6, <1>7 DEF SealsBuilt

LEMMA SealStep == TypeInv /\ SealInv /\ [Next]_vars => SealInv'
<1> SUFFICES ASSUME TypeInv, SealInv, [Next]_vars PROVE SealInv'
  OBVIOUS
<1>0. file \in Seq(Blocks) /\ reading \in Seq(Blocks)
  BY DEF TypeInv, TypeOK
<1>1. CASE UNCHANGED <<file, reading, built>>
  BY <1>1 DEF SealInv, SealsBuilt
<1>2. ASSUME NEW e \in Exporter, ExportEvents(e) PROVE SealInv'
  <2>1. built \subseteq built' /\ UNCHANGED <<file, reading>>
    BY <1>2 DEF ExportEvents
  <2> QED
    BY <2>1 DEF SealInv, SealsBuilt
<1>3. ASSUME NEW e \in Exporter, OpenFile(e) PROVE SealInv'
  BY <1>3 DEF OpenFile, Opened, SealInv, SealsBuilt
<1>4. ASSUME NEW e \in Exporter, WriteBlocks(e) PROVE SealInv'
  <2> DEFINE n == Min({offset[e] + WriteSize, Len(text[e])})
  <2>1. /\ Writing(e) /\ file' = Overwritten(text[e], offset[e] + 1, n)
        /\ UNCHANGED <<reading, built>>
    BY <1>4 DEF WriteBlocks
  <2>2. /\ n \in (offset[e] + 1)..Len(text[e]) /\ offset[e] \in Nat /\ text[e] \in Seq(Blocks)
        /\ SealsBuilt(text[e])
    BY <2>1, WriteParts, BuiltIsSealed DEF TypeInv, TextInv, HasText, Writing
  <2> HIDE DEF n
  <2>3. \A k \in 1..Len(file') : \/ k \in 1..Len(text[e]) /\ file'[k] = text[e][k]
                                 \/ k \in 1..Len(file) /\ file'[k] = file[k]
                                 \/ file'[k] = Hole
    <3>1. offset[e] + 1 \in Nat \ {0} /\ Len(text[e]) \in Nat /\ Len(file) \in Nat
      BY <1>0, <2>2
    <3>2. \A k \in 1..Len(file') :
            file'[k] = IF k \in (offset[e] + 1)..n THEN text[e][k]
                       ELSE IF k <= Len(file) THEN file[k] ELSE Hole
      <4> DEFINE m == offset[e] + 1
      <4>1. /\ m \in Nat \ {0} /\ n \in m..Len(text[e])
            /\ file' = Overwritten(text[e], m, n)
        BY <2>1, <2>2, <3>1
      <4> HIDE DEF m
      <4>2. \A k \in 1..Len(Overwritten(text[e], m, n)) :
              Overwritten(text[e], m, n)[k]
                = IF k \in m..n THEN text[e][k] ELSE IF k <= Len(file) THEN file[k] ELSE Hole
        BY <1>0, <2>2, <4>1, OverwrittenParts
      <4> QED
        BY <4>1, <4>2 DEF m
    <3>3. Len(file') \in Nat
      BY <2>1, WriteParts DEF n
    <3> QED
      BY <2>2, <3>1, <3>2, <3>3
  <2>4. "seal" \notin DOMAIN Hole
    BY DEF Hole
  <2> QED
    BY <2>1, <2>2, <2>3, <2>4 DEF SealInv, SealsBuilt
<1>5. CASE ReadBlocks
  <2> DEFINE m    == Min({Len(reading) + ReadSize, Len(file)})
             next == SubSeq(file, Len(reading) + 1, m)
  <2>1. /\ reading' = reading \o next /\ Len(reading) < Len(file)
        /\ UNCHANGED <<file, built>>
    BY <1>5 DEF ReadBlocks
  <2>2. /\ next \in Seq(Blocks) /\ Len(next) = m - Len(reading)
        /\ m \in (Len(reading) + 1)..Len(file)
        /\ \A k \in 1..Len(next) : next[k] = file[Len(reading) + k]
    BY <2>1, NextRead
  <2> HIDE DEF next, m
  <2>3. /\ Len(reading') = Len(reading) + Len(next)
        /\ \A k \in 1..(Len(reading) + Len(next)) :
             reading'[k] = IF k <= Len(reading) THEN reading[k] ELSE next[k - Len(reading)]
    BY <1>0, <2>1, <2>2, ConcatProperties
  <2>4. \A k \in 1..Len(reading') : \/ k \in 1..Len(reading) /\ reading'[k] = reading[k]
                                    \/ k \in 1..Len(file) /\ reading'[k] = file[k]
    <3>1. Len(reading) \in Nat /\ Len(file) \in Nat /\ Len(next) \in Nat
      BY <1>0, <2>2
    <3> SUFFICES ASSUME NEW k \in 1..Len(reading')
                 PROVE  \/ k \in 1..Len(reading) /\ reading'[k] = reading[k]
                        \/ k \in 1..Len(file) /\ reading'[k] = file[k]
      OBVIOUS
    <3>2. CASE k <= Len(reading)
      BY <2>3, <3>1, <3>2
    <3>3. CASE ~(k <= Len(reading))
      <4>1. k - Len(reading) \in 1..Len(next) /\ reading'[k] = next[k - Len(reading)]
        BY <2>3, <3>1, <3>3
      <4>2. Len(reading) + (k - Len(reading)) = k
        BY <2>3, <3>1
      <4> QED
        BY <2>2, <2>3, <3>1, <4>1, <4>2
    <3> QED
      BY <3>2, <3>3
  <2> QED
    BY <2>1, <2>4 DEF SealInv, SealsBuilt
<1>6. CASE ReadEnds
  BY <1>6 DEF ReadEnds, SealInv, SealsBuilt
<1> QED
  BY <1>1, <1>2, <1>3, <1>4, <1>5, <1>6 DEF Next, vars, ExportRow, ExportItems, ExporterDies,
     Deploy, Database

\* Whatever the exporters do to the file while it is read, a reader only verifies
\* a bundle that was built, whole.
THEOREM VerifiedReadsAreBundles == Spec => []VerifiedReadIsABundle
<1>1. Init => SealInv
  BY DEF Init, SealInv, SealsBuilt
<1>2. Spec => [](TypeInv /\ SealInv)
  BY <1>1, TypeInit, TypeStep, SealStep, PTL DEF Spec
<1>3. TypeInv /\ SealInv => VerifiedReadIsABundle
  <2> SUFFICES ASSUME TypeInv, SealInv, Verifies(reading) PROVE reading \in built
    BY DEF VerifiedReadIsABundle
  <2>1. reading \in Seq(Blocks) /\ Len(reading) \in Nat
    BY DEF TypeInv, TypeOK
  <2>2. /\ Len(reading) >= 2 /\ "seal" \in DOMAIN reading[Len(reading)]
        /\ Last(reading).seal.hash = Front(reading)
    BY DEF Verifies, Parses, Hashed
  <2>3. Append(Front(reading), Last(reading)) \in built
    BY <2>1, <2>2 DEF SealInv, SealsBuilt, Last
  <2>4. reading # <<>>
    BY <2>1, <2>2, EmptySeq
  <2> QED
    BY <2>1, <2>3, <2>4, AppendFrontLast
<1> QED
  BY <1>2, <1>3, PTL

-----------------------------------------------------------------------------
(* The last export stands.  An exporter that no other has crowded writes   *)
(* alone, and the file is what it has written so far.                      *)

WritesAlone(e) ==
  at[e] = "write" /\ ~crowded[e] =>
    /\ \A x \in Exporter : at[x] = "write" => x = e
    /\ file = SubSeq(text[e], 1, offset[e])

Stands ==
  settled # <<>> => (\A x \in Exporter : at[x] # "write") /\ file = settled

WriterInv == (\A e \in Exporter : WritesAlone(e)) /\ Stands

\* The piece that an exporter which writes alone adds.
LEMMA WritesPrefix ==
  ASSUME TypeInv, NEW e \in Exporter, Writing(e), file = SubSeq(text[e], 1, offset[e]),
         NEW n \in (offset[e] + 1)..Len(text[e])
  PROVE  Overwritten(text[e], offset[e] + 1, n) = SubSeq(text[e], 1, n)
<1> DEFINE b     == text[e]
           m     == offset[e] + 1
           after == Overwritten(b, m, n)
<1>1. /\ b \in Seq(Blocks) /\ file \in Seq(Blocks)
      /\ offset[e] \in Nat /\ offset[e] < Len(b) /\ Len(b) \in Nat
  BY DEF TypeInv, TypeOK, TextInv, HasText, Writing
<1>2. m \in Nat \ {0} /\ n \in m..Len(b) /\ n \in Nat
  BY <1>1
<1> HIDE DEF m
<1>3. /\ after \in Seq(Blocks)
      /\ Len(after) = IF n <= Len(file) THEN Len(file) ELSE n
      /\ \A k \in 1..Len(after) : after[k] = IF k \in m..n THEN b[k]
                                             ELSE IF k <= Len(file) THEN file[k] ELSE Hole
  BY <1>1, <1>2, OverwrittenParts
<1> HIDE DEF b, after
<1>4. \A k \in 1..Len(b) : b[k] \in Blocks
  BY <1>1, ElementOfSeq
<1>5. /\ Len(file) = offset[e]
      /\ \A k \in 1..offset[e] : file[k] = b[k]
  <2>1. \A k \in 1..offset[e] : b[k] \in Blocks
    BY <1>1, <1>4
  <2>2. file = SubSeq(b, 1, offset[e])
    BY DEF b
  <2> QED
    BY <1>1, <2>1, <2>2, SubSeqProperties
<1>6. /\ SubSeq(b, 1, n) \in Seq(Blocks) /\ Len(SubSeq(b, 1, n)) = n
      /\ \A k \in 1..n : SubSeq(b, 1, n)[k] = b[k]
  <2>1. \A k \in 1..n : b[k] \in Blocks
    BY <1>1, <1>2, <1>4
  <2> QED
    BY <1>1, <1>2, <2>1, SubSeqProperties
<1>7. Len(after) = n
  BY <1>1, <1>2, <1>3, <1>5 DEF m
<1>8. \A k \in 1..n : after[k] = b[k]
  BY <1>1, <1>2, <1>3, <1>5, <1>7 DEF m
<1>9. after = SubSeq(b, 1, n)
  BY <1>3, <1>6, <1>7, <1>8, SeqEqual
<1> QED
  BY <1>9 DEF after, b, m

LEMMA WriterStep == TypeInv /\ WriterInv /\ [Next]_vars => WriterInv'
<1> SUFFICES ASSUME TypeInv, WriterInv, [Next]_vars PROVE WriterInv'
  OBVIOUS
<1>0. /\ at \in [Exporter -> {"idle", "items", "events", "open", "write"}]
      /\ text \in [Exporter -> Seq(Blocks)] /\ offset \in [Exporter -> Nat]
      /\ crowded \in [Exporter -> BOOLEAN]
  BY DEF TypeInv, TypeOK
\* A step that lets nobody begin to write, and touches neither the file nor a writer.
<1>1. ASSUME UNCHANGED <<file, settled>>,
             \A x \in Exporter : at'[x] = "write" =>
               /\ at[x] = "write" /\ text'[x] = text[x] /\ offset'[x] = offset[x]
               /\ crowded'[x] = crowded[x]
      PROVE  WriterInv'
  BY <1>1 DEF WriterInv, WritesAlone, Stands
<1>2. ASSUME NEW e \in Exporter, ExportRow(e) \/ ExportItems(e) \/ ExportEvents(e)
      PROVE  WriterInv'
  <2>1. /\ UNCHANGED <<file, settled, offset, crowded>>
        /\ \E place \in {"items", "events", "open"} : at' = [at EXCEPT ![e] = place]
        /\ \A x \in Exporter \ {e} : text'[x] = text[x]
    BY <1>0, <1>2 DEF ExportRow, ExportItems, ExportEvents
  <2> QED
    BY <1>0, <1>1, <2>1
<1>3. ASSUME NEW e \in Exporter, OpenFile(e) PROVE WriterInv'
  <2>1. /\ at[e] = "open" /\ at' = [at EXCEPT ![e] = "write"]
        /\ file' = <<>> /\ settled' = <<>> /\ UNCHANGED <<text, offset>>
        /\ crowded' = [x \in Exporter |-> IF x = e THEN \E y \in Exporter : Writing(y)
                                          ELSE crowded[x] \/ Writing(x)]
    BY <1>3 DEF OpenFile, Opened
  <2>2. ASSUME NEW x \in Exporter, x # e, at'[x] = "write" PROVE crowded'[x]
    BY <1>0, <2>1, <2>2, Zenon DEF Writing
  <2>3. ~crowded'[e] => \A x \in Exporter : at'[x] = "write" => x = e
    <3>1. crowded'[e] <=> \E y \in Exporter : at[y] = "write"
      BY <2>1, Zenon DEF Writing
    <3> QED
      BY <1>0, <2>1, <3>1
  <2>4. file' = SubSeq(text'[e], 1, offset'[e])
    <3>1. offset[e] = 0
      BY <2>1 DEF TypeInv, TextInv, HasText
    <3> QED
      BY <2>1, <3>1, SubSeqEmpty
  <2> QED
    BY <2>1, <2>2, <2>3, <2>4 DEF WriterInv, WritesAlone, Stands
<1>4. ASSUME NEW e \in Exporter, ExporterDies(e) PROVE WriterInv'
  <2>1. /\ UNCHANGED <<file, settled>> /\ Leave(e)
    BY <1>4 DEF ExporterDies
  <2> QED
    BY <1>0, <1>1, <2>1 DEF Leave
<1>5. ASSUME NEW e \in Exporter, WriteBlocks(e) PROVE WriterInv'
  <2> DEFINE n == Min({offset[e] + WriteSize, Len(text[e])})
  <2>1. /\ Writing(e) /\ at[e] = "write"
        /\ file' = Overwritten(text[e], offset[e] + 1, n)
    BY <1>5 DEF WriteBlocks, Writing
  <2>2. n \in (offset[e] + 1)..Len(text[e]) /\ text[e] \in Seq(Blocks)
    BY <2>1, WriteParts
  <2>3. settled = <<>>
    BY <2>1 DEF WriterInv, Stands
  <2>4. \A x \in Exporter : x # e /\ at[x] = "write" => crowded[x]
    BY <2>1 DEF WriterInv, WritesAlone
  <2>5. ~crowded[e] => /\ \A x \in Exporter : at[x] = "write" => x = e
                       /\ file' = SubSeq(text[e], 1, n)
    BY <2>1, <2>2, WritesPrefix DEF WriterInv, WritesAlone
  <2>6. CASE n < Len(text[e])
    <3>1. /\ offset' = [offset EXCEPT ![e] = n]
          /\ UNCHANGED <<at, text, crowded, settled>>
      BY <1>5, <2>6 DEF WriteBlocks
    <3> HIDE DEF n
    <3> QED
      BY <1>0, <2>3, <2>4, <2>5, <3>1 DEF WriterInv, WritesAlone, Stands
  <2>7. CASE ~(n < Len(text[e]))
    <3>1. Leave(e) /\ settled' = IF crowded[e] THEN settled ELSE text[e]
      BY <1>5, <2>7 DEF WriteBlocks
    <3>2. n = Len(text[e])
      BY <2>2, <2>7
    <3> HIDE DEF n
    <3>3. ~crowded[e] => file' = text[e]
      BY <2>2, <2>5, <3>2, SubSeqFull
    <3>4. \A x \in Exporter : at'[x] = "write" =>
            x # e /\ at[x] = "write" /\ crowded'[x] = crowded[x]
      BY <1>0, <3>1 DEF Leave
    <3>5. \A x \in Exporter : WritesAlone(x)'
      BY <2>4, <3>4 DEF WritesAlone
    <3>6. Stands'
      BY <2>3, <2>5, <3>1, <3>3, <3>4 DEF Stands
    <3> QED
      BY <3>5, <3>6 DEF WriterInv
  <2> QED
    BY <2>6, <2>7
<1>6. CASE ReadBlocks \/ ReadEnds \/ Database \/ (\E s \in Settings : Deploy(s)) \/ UNCHANGED vars
  BY <1>1, <1>6 DEF ReadBlocks, ReadEnds, Database, Deploy, vars, exporting
<1> QED
  BY <1>2, <1>3, <1>4, <1>5, <1>6 DEF Next

\* An exporter that writes the file alone leaves exactly its bundle in it.
THEOREM LastExportsStand == Spec => []LastExportStands
<1>1. Init => WriterInv
  BY DEF Init, WriterInv, WritesAlone, Stands
<1>2. Spec => []WriterInv
  BY <1>1, TypeInit, TypeStep, WriterStep, PTL DEF Spec
<1>3. WriterInv => LastExportStands
  BY DEF WriterInv, Stands, LastExportStands
<1> QED
  BY <1>2, <1>3, PTL

-----------------------------------------------------------------------------
(* What verifies.                                                          *)

\* A bundle that was built is one of which every part can be told.
LEMMA SealedParses ==
  ASSUME NEW count \in Nat, NEW f \in Answers, NEW pair \in Pairs
  PROVE  LET b == Sealed(count, f, pair)
         IN  /\ Parses(b)
             /\ Front(b) = Body(count, f)
             /\ Last(b).seal = [hash |-> Body(count, f), id |-> pair.id,
                                signature |-> <<pair.secret, Body(count, f)>>]
             /\ Last(Front(b)).findings = f
             /\ Front(Front(b)) = [n \in 1..count |-> Event(n)]
<1> DEFINE b    == Sealed(count, f, pair)
           body == Body(count, f)
<1>1. /\ Len(b) = count + 2 /\ Front(b) = body
      /\ Last(b) = Seal(body, pair)
      /\ \A n \in 1..count : b[n] = Event(n)
      /\ b[count + 1] = Findings(f)
      /\ b[count + 2] = Seal(body, pair)
  BY SealedParts
<1>2. Front(body) = [n \in 1..count |-> Event(n)] /\ Last(body) = Findings(f)
  BY BodyParts
<1> HIDE DEF b, body
<1>3. Last(b).seal = [hash |-> body, id |-> pair.id, signature |-> <<pair.secret, body>>]
  BY <1>1 DEF Seal, Hashed
<1>4. Last(Front(b)).findings = f
  BY <1>1, <1>2 DEF Findings
<1>5. Parses(b)
  <2>1. Len(b) >= 2 /\ Len(b) - 2 = count /\ Len(b) - 1 = count + 1
    BY <1>1
  <2>2. \A n \in 1..count : "event" \in DOMAIN b[n]
    <3>1. \A n \in 1..count : DOMAIN Event(n) = {"event"}
      BY DEF Event
    <3> QED
      BY <1>1, <3>1
  <2>3. "findings" \in DOMAIN b[count + 1]
    BY <1>1 DEF Findings
  <2>4. "seal" \in DOMAIN b[count + 2]
    BY <1>1 DEF Seal
  <2> QED
    BY <1>1, <2>1, <2>2, <2>3, <2>4 DEF Parses
<1> QED
  BY <1>1, <1>2, <1>3, <1>4, <1>5 DEF b, body

\* An accepted setting signs and verifies with the same secret under every listed id.
LEMMA ListedSecrets ==
  ASSUME setting \in [current : Pairs, previous : Seq(Pairs)], ValidSetting(setting),
         NEW id, NEW secret, [id |-> id, secret |-> secret] \in Listed
  PROVE  secret \in SecretsFor(id)
<1>1. CASE [id |-> id, secret |-> secret] = setting.current
  <2>1. id = setting.current.id /\ secret = setting.current.secret
    BY <1>1
  <2> QED
    BY <2>1 DEF SecretsFor
<1>2. CASE \E n \in DOMAIN setting.previous : [id |-> id, secret |-> secret] = setting.previous[n]
  <2>1. PICK n \in DOMAIN setting.previous : [id |-> id, secret |-> secret] = setting.previous[n]
    BY <1>2
  <2>2. id = setting.previous[n].id /\ secret = setting.previous[n].secret
    BY <2>1
  <2>3. id # setting.current.id
    BY <2>2 DEF ValidSetting
  <2>4. n \in LastEntry(id)
    <3>1. \A m \in DOMAIN setting.previous : setting.previous[m].id = id => m = n
      BY <2>2 DEF ValidSetting
    <3>2. n \in Nat
      OBVIOUS
    <3> QED
      BY <2>2, <3>1, <3>2 DEF LastEntry
  <2> QED
    BY <2>2, <2>3, <2>4 DEF SecretsFor
<1> QED
  BY <1>1, <1>2 DEF Listed

\* Whatever keys the server was restarted with meanwhile, a bundle verifies as long as
\* the pair that signed it is listed.
THEOREM ListedKeysSuffice == Spec => []ListedKeysVerify
<1>1. TypeInv => ListedKeysVerify
  <2> SUFFICES ASSUME TypeInv, NEW b \in built,
                      LET seal == Last(b).seal
                          f    == Last(Front(b)).findings
                      IN  /\ [id |-> seal.id, secret |-> seal.signature[1]] \in Listed
                          /\ f.snapshotMatch /\ f.manifestMatch
                          /\ EventsVerify(Front(Front(b)), f.row.anchor)
               PROVE  Verifies(b)
    BY Zenon DEF ListedKeysVerify
  <2>1. PICK count \in Nat, f \in Answers, pair \in Pairs : IsBuilt(b, count, f, pair)
    BY DEF TypeInv, BuiltInv
  <2>2. b = Sealed(count, f, pair) /\ f.receipt = Receipt(f.row, pair)
    BY <2>1 DEF IsBuilt
  <2> DEFINE body == Body(count, f)
  <2>3. /\ Parses(b) /\ Front(b) = body
        /\ Last(b).seal = [hash |-> body, id |-> pair.id, signature |-> <<pair.secret, body>>]
        /\ Last(Front(b)).findings = f
    BY <2>2, SealedParses
  <2> HIDE DEF body
  <2>4. /\ Last(b).seal.hash = body /\ Last(b).seal.id = pair.id
        /\ Last(b).seal.signature = <<pair.secret, body>>
        /\ Last(b).seal.signature[1] = pair.secret
    BY <2>3
  <2>5. pair.secret \in SecretsFor(pair.id)
    <3>1. [id |-> pair.id, secret |-> pair.secret] \in Listed
      BY <2>4
    <3> QED
      BY <3>1, ListedSecrets DEF TypeInv, TypeOK
  <2>6. SignatureValid(Last(b).seal.signature, body, Last(b).seal.id)
    BY <2>4, <2>5 DEF SignatureValid
  <2>7. ReceiptValid(f.receipt)
    BY <2>2, <2>5 DEF Receipt, ReceiptValid, SignatureValid
  <2>8. /\ f.snapshotMatch /\ f.manifestMatch
        /\ EventsVerify(Front(body), f.row.anchor)
    BY <2>3
  <2> QED
    BY <2>3, <2>4, <2>6, <2>7, <2>8 DEF Verifies, Hashed
<1> QED
  BY <1>1, TypeInit, TypeStep, PTL DEF Spec

-----------------------------------------------------------------------------
(* A verified bundle shows one moment.  Versions and the anchor only grow, *)
(* and no manifest is ahead of the items, so what matches at the last read *)
(* cannot have changed since the first one.                                *)

ReadsAgree(e) ==
  at[e] \in {"items", "events"} =>
    /\ found[e].row.version >= 1
    /\ captured # DB!NoSnapshot => found[e].row.anchor >= 2
    /\ found[e].row.anchor <= row.anchor
    /\ \A i \in Item : itemsThen[e][i] <= items[i]
    /\ found[e].row.anchor = row.anchor => \A i \in Item : DB!LatestManifest[i] <= itemsThen[e][i]
    /\ at[e] = "events" => \A i \in Item : itemsThen[e][i] <= found[e].items[i]

\* What the answers f of a bundle with `count' events show, if they let it verify.
OneMoment(e, count, f) ==
  f.snapshotMatch /\ f.manifestMatch /\ (f.row.anchor # 0 => f.row.anchor = count) =>
    /\ f.row.version = 1
    /\ f.items = itemsThen[e]
    /\ f.row.anchor = count

TextAgrees(e) ==
  at[e] \in {"open", "write"} =>
    \E count \in Nat, f \in Answers, pair \in Pairs :
      text[e] = Sealed(count, f, pair) /\ OneMoment(e, count, f)

MomentInv == \A e \in Exporter : ReadsAgree(e) /\ TextAgrees(e)

LEMMA LatestNotAhead ==
  ASSUME DatabaseInv
  PROVE  /\ DB!LatestManifest \in DB!Manifests
         /\ \A i \in Item : DB!LatestManifest[i] <= items[i]
<1>1. /\ manifests \in Seq(DB!Manifests) /\ items \in DB!Manifests
  BY DatabaseTypes
<1>2. CASE manifests = <<>>
  <2>1. DB!LatestManifest = DB!NoManifest
    BY <1>2 DEF DB!LatestManifest
  <2> QED
    BY <1>1, <2>1 DEF DB!NoManifest, DB!Manifests
<1>3. CASE manifests # <<>>
  <2>1. Len(manifests) \in 1..Len(manifests)
    BY <1>1, <1>3, EmptySeq
  <2>2. DB!LatestManifest = manifests[Len(manifests)]
    BY <1>3 DEF DB!LatestManifest
  <2> QED
    BY <1>1, <2>1, <2>2 DEF DatabaseInv, DBP!NoManifestAhead
<1> QED
  BY <1>2, <1>3

\* A step of others keeps what holds of an exporter.
LEMMA AgreeKeeps ==
  ASSUME TypeInv, MomentInv, [Next]_vars, NEW e \in Exporter,
         at'[e] = at[e], found'[e] = found[e], text'[e] = text[e], itemsThen'[e] = itemsThen[e]
  PROVE  ReadsAgree(e)' /\ TextAgrees(e)'
<1>1. TextAgrees(e)'
  BY DEF MomentInv, TextAgrees, OneMoment
<1>2. /\ DatabaseInv /\ DatabaseInv'
  BY DatabaseInvStep DEF TypeInv
<1>3. /\ row.anchor \in Nat /\ row'.anchor \in Nat
      /\ \A i \in Item : items[i] \in Nat /\ items'[i] \in Nat
  BY <1>2, DatabaseTypes DEF DB!Rows, DB!Manifests, DatabaseInv, DBP!TypeInv, DBP!TypeOK, DBP!Rows,
     DBP!Manifests
<1>4. /\ captured' = captured /\ row'.anchor >= row.anchor
      /\ \A i \in Item : items'[i] >= items[i]
      /\ row'.anchor = row.anchor => manifests' = manifests
  BY <1>2, DatabaseMoves
<1>5. /\ found[e].row.anchor \in Nat /\ \A i \in Item : itemsThen[e][i] \in Nat
  BY DEF TypeInv, TypeOK, FoundSets, DB!Rows, DB!Manifests
<1>6. ASSUME at[e] \in {"items", "events"}
      PROVE  /\ found[e].row.anchor <= row'.anchor
             /\ \A i \in Item : itemsThen[e][i] <= items'[i]
             /\ found[e].row.anchor = row'.anchor =>
                  \A i \in Item : DB!LatestManifest'[i] <= itemsThen[e][i]
  <2>1. /\ found[e].row.anchor <= row.anchor
        /\ \A i \in Item : itemsThen[e][i] <= items[i]
        /\ found[e].row.anchor = row.anchor =>
             \A i \in Item : DB!LatestManifest[i] <= itemsThen[e][i]
    BY <1>6 DEF MomentInv, ReadsAgree
  <2>2. found[e].row.anchor = row'.anchor =>
          found[e].row.anchor = row.anchor /\ DB!LatestManifest' = DB!LatestManifest
    BY <1>3, <1>4, <1>5, <2>1 DEF DB!LatestManifest, DB!NoManifest
  <2> QED
    BY <1>3, <1>4, <1>5, <2>1, <2>2
<1>7. ReadsAgree(e)'
  BY <1>4, <1>6 DEF MomentInv, ReadsAgree
<1> QED
  BY <1>1, <1>7

LEMMA MomentStep == TypeInv /\ MomentInv /\ [Next]_vars => MomentInv'
<1> SUFFICES ASSUME TypeInv, MomentInv, [Next]_vars PROVE MomentInv'
  OBVIOUS
<1>0. /\ at \in [Exporter -> {"idle", "items", "events", "open", "write"}]
      /\ found \in [Exporter -> FoundSets] /\ text \in [Exporter -> Seq(Blocks)]
      /\ itemsThen \in [Exporter -> DB!Manifests] /\ DatabaseInv
      /\ row \in DB!Rows /\ items \in DB!Manifests
  BY DatabaseTypes DEF TypeInv, TypeOK
\* A step of one exporter.
<1>1. ASSUME NEW e \in Exporter, ReadsAgree(e)', TextAgrees(e)',
             \A x \in Exporter \ {e} : /\ at'[x] = at[x] /\ found'[x] = found[x]
                                       /\ text'[x] = text[x] /\ itemsThen'[x] = itemsThen[x]
      PROVE  MomentInv'
  BY <1>1, AgreeKeeps DEF MomentInv
<1>2. CASE UNCHANGED <<at, found, text, itemsThen>>
  BY <1>2, AgreeKeeps DEF MomentInv
<1>3. ASSUME NEW e \in Exporter, ExportRow(e) PROVE MomentInv'
  <2>1. /\ at' = [at EXCEPT ![e] = "items"]
        /\ found' = [found EXCEPT ![e].row = row]
        /\ itemsThen' = [itemsThen EXCEPT ![e] = items]
        /\ UNCHANGED <<text, row, captured, items, manifests>>
    BY <1>3 DEF ExportRow, database
  <2>2. /\ at'[e] = "items" /\ found'[e].row = row /\ itemsThen'[e] = items
    BY <1>0, <2>1 DEF FoundSets
  <2>3. /\ row.version >= 1 /\ row.anchor \in Nat
        /\ captured # DB!NoSnapshot => row.anchor >= 2
        /\ \A i \in Item : items[i] \in Nat /\ DB!LatestManifest[i] <= items[i]
    BY <1>0, LatestNotAhead DEF DatabaseInv, DBP!RowInv, AnchorInv, DB!Rows, DB!Manifests
  <2>4. DB!LatestManifest' = DB!LatestManifest
    BY <2>1 DEF DB!LatestManifest, DB!NoManifest
  <2>5. ReadsAgree(e)'
    BY <2>1, <2>2, <2>3, <2>4 DEF ReadsAgree
  <2>6. TextAgrees(e)'
    BY <2>2 DEF TextAgrees
  <2> QED
    BY <1>0, <1>1, <2>1, <2>5, <2>6
<1>4. ASSUME NEW e \in Exporter, ExportItems(e) PROVE MomentInv'
  <2>1. /\ at[e] = "items" /\ at' = [at EXCEPT ![e] = "events"]
        /\ found' = [found EXCEPT ![e].items = items]
        /\ UNCHANGED <<text, itemsThen, row, captured, items, manifests>>
    BY <1>4 DEF ExportItems, database
  <2>2. /\ at'[e] = "events" /\ found'[e].row = found[e].row /\ found'[e].items = items
    BY <1>0, <2>1 DEF FoundSets
  <2>3. DB!LatestManifest' = DB!LatestManifest
    BY <2>1 DEF DB!LatestManifest, DB!NoManifest
  <2>4. ReadsAgree(e)'
    BY <2>1, <2>2, <2>3 DEF MomentInv, ReadsAgree
  <2>5. TextAgrees(e)'
    BY <2>2 DEF TextAgrees
  <2> QED
    BY <1>0, <1>1, <2>1, <2>4, <2>5
<1>5. ASSUME NEW e \in Exporter, ExportEvents(e) PROVE MomentInv'
  <2>1. PICK f \in Answers :
          /\ f.row = found[e].row /\ f.items = found[e].items
          /\ f.snapshotMatch => captured = DB!Snapshot(f.row)
          /\ f.manifestMatch => DB!Manifest(f.items) = DB!LatestManifest
          /\ text' = [text EXCEPT ![e] = Sealed(row.anchor, f, setting.current)]
    BY <1>5, ExportBuilds
  <2>2. /\ at[e] = "events" /\ at' = [at EXCEPT ![e] = "open"] /\ UNCHANGED <<found, itemsThen>>
    BY <1>5 DEF ExportEvents
  <2>3. /\ row.anchor \in Nat /\ setting.current \in Pairs
        /\ text'[e] = Sealed(row.anchor, f, setting.current)
    BY <1>0, <2>1 DEF DB!Rows, TypeInv, TypeOK
  <2>4. ASSUME f.snapshotMatch, f.manifestMatch, f.row.anchor # 0 => f.row.anchor = row.anchor
        PROVE  f.row.version = 1 /\ f.items = itemsThen[e] /\ f.row.anchor = row.anchor
    <3>1. /\ f.row.version >= 1 /\ f.row \in DB!Rows
          /\ captured # DB!NoSnapshot => f.row.anchor >= 2
      BY <1>0, <2>1, <2>2 DEF MomentInv, ReadsAgree, FoundSets
    <3>2. captured = [version |-> f.row.version, anchor |-> 0]
      BY <2>1, <2>4, <3>1 DEF DB!Snapshot, DB!Rows
    <3>3. captured # DB!NoSnapshot
      BY <3>1, <3>2 DEF DB!NoSnapshot, DB!Rows
    <3>4. f.row.version = 1
      BY <1>0, <3>2, <3>3 DEF DatabaseInv, DBP!RowInv, DBP!NoSnapshot, DB!NoSnapshot
    <3>5. f.row.anchor = row.anchor
      BY <2>4, <3>1, <3>3 DEF DB!Rows
    <3>6. \A i \in Item : /\ DB!LatestManifest[i] <= itemsThen[e][i]
                          /\ itemsThen[e][i] <= f.items[i]
      BY <2>1, <2>2, <3>5 DEF MomentInv, ReadsAgree
    <3>7. f.items = DB!LatestManifest
      BY <2>1, <2>4 DEF DB!Manifest
    <3>8. f.items \in [Item -> Nat] /\ itemsThen[e] \in [Item -> Nat]
      BY <1>0, <2>1 DEF FoundSets, DB!Manifests
    <3>9. \A i \in Item : f.items[i] = itemsThen[e][i]
      BY <3>6, <3>7, <3>8
    <3> QED
      BY <3>4, <3>5, <3>8, <3>9
  <2>5. TextAgrees(e)'
    <3>1. PICK count \in Nat, pair \in Pairs : count = row.anchor /\ pair = setting.current
      BY <2>3
    <3>2. text'[e] = Sealed(count, f, pair)
      BY <2>3, <3>1
    <3>3. OneMoment(e, count, f)'
      BY <2>2, <2>4, <3>1 DEF OneMoment
    <3> QED
      BY <3>2, <3>3 DEF TextAgrees
  <2>6. ReadsAgree(e)'
    BY <1>0, <2>2 DEF ReadsAgree
  <2> QED
    BY <1>0, <1>1, <2>1, <2>2, <2>5, <2>6
<1>6. ASSUME NEW e \in Exporter, OpenFile(e) PROVE MomentInv'
  <2>1. /\ at[e] = "open" /\ at' = [at EXCEPT ![e] = "write"]
        /\ UNCHANGED <<found, text, itemsThen>>
    BY <1>6 DEF OpenFile
  <2>2. TextAgrees(e)'
    BY <2>1 DEF MomentInv, TextAgrees, OneMoment
  <2>3. ReadsAgree(e)'
    BY <1>0, <2>1 DEF ReadsAgree
  <2> QED
    BY <1>0, <1>1, <2>1, <2>2, <2>3
<1>7. ASSUME NEW e \in Exporter, Leave(e) PROVE MomentInv'
  <2>1. at'[e] = "idle"
    BY <1>0, <1>7 DEF Leave
  <2>2. ReadsAgree(e)' /\ TextAgrees(e)'
    BY <2>1 DEF ReadsAgree, TextAgrees
  <2> QED
    BY <1>0, <1>1, <1>7, <2>2 DEF Leave
<1>8. ASSUME NEW e \in Exporter, WriteBlocks(e) \/ ExporterDies(e) PROVE MomentInv'
  BY <1>2, <1>7, <1>8 DEF WriteBlocks, ExporterDies
<1>9. CASE ReadBlocks \/ ReadEnds \/ Database \/ (\E s \in Settings : Deploy(s)) \/ UNCHANGED vars
  BY <1>2, <1>9 DEF ReadBlocks, ReadEnds, Database, Deploy, vars, exporting
<1> QED
  BY <1>3, <1>4, <1>5, <1>6, <1>8, <1>9 DEF Next

\* However the reads of an export interleave with attach calls and edits, its bundle
\* verifies only if it shows the request as it was when the row was read.
THEOREM VerifiedShowsOneMoment == Spec => []VerifiedIsOneMoment
<1>1. Init => MomentInv
  BY DEF Init, MomentInv, ReadsAgree, TextAgrees
<1>2. Spec => [](TypeInv /\ MomentInv)
  BY <1>1, TypeInit, TypeStep, MomentStep, PTL DEF Spec
<1>3. TypeInv /\ MomentInv => VerifiedIsOneMoment
  <2> SUFFICES ASSUME TypeInv, MomentInv, NEW e \in Exporter, text[e] # <<>>, Verifies(text[e])
               PROVE  LET f == Last(Front(text[e])).findings IN
                      /\ f.row.version = 1
                      /\ f.items = itemsThen[e]
                      /\ f.row.anchor = Len(text[e]) - 2
    BY DEF VerifiedIsOneMoment
  <2>1. at[e] \in {"open", "write"}
    BY DEF TypeInv, TextInv, HasText
  <2>2. PICK count \in Nat, f \in Answers, pair \in Pairs :
          text[e] = Sealed(count, f, pair) /\ OneMoment(e, count, f)
    BY <2>1 DEF MomentInv, TextAgrees
  <2>3. /\ Last(Front(text[e])).findings = f
        /\ Front(Front(text[e])) = [n \in 1..count |-> Event(n)]
        /\ Len(text[e]) = count + 2
    <3>1. /\ Last(Front(Sealed(count, f, pair))).findings = f
          /\ Front(Front(Sealed(count, f, pair))) = [n \in 1..count |-> Event(n)]
      BY ONLY SealedParses, count \in Nat, f \in Answers, pair \in Pairs
    <3>2. Len(Sealed(count, f, pair)) = count + 2
      BY ONLY SealedParts, count \in Nat, f \in Answers, pair \in Pairs
    <3> QED
      BY <2>2, <3>1, <3>2, Zenon
  <2>4. /\ f.snapshotMatch /\ f.manifestMatch
        /\ EventsVerify([n \in 1..count |-> Event(n)], f.row.anchor)
    BY <2>3 DEF Verifies
  <2>5. Len([n \in 1..count |-> Event(n)]) = count
    OBVIOUS
  <2>6. f.row.anchor # 0 => f.row.anchor = count
    BY <2>4, <2>5 DEF EventsVerify
  <2>7. /\ f.row.version = 1 /\ f.items = itemsThen[e] /\ f.row.anchor = count
    BY <2>2, <2>4, <2>6 DEF OneMoment
  <2> QED
    BY <2>3, <2>7
<1> QED
  BY <1>2, <1>3, PTL
=============================================================================
