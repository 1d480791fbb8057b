------------------------------ MODULE ProofStore ------------------------------
(***************************************************************************)
(* The proof bundle of one request: POST .../proof-bundle reads the row,   *)
(* the evidence and the events in three statements, builds and signs a     *)
(* bundle and overwrites the request's one file with it; GET               *)
(* .../proof-bundle/verify and scripts/verify_proof_bundle.py read the     *)
(* file and verify it on its own.  Meanwhile evidence is attached and      *)
(* edited (EvidenceManifest, whose variables these are), and the server is *)
(* restarted with other signing keys.                                      *)
(*                                                                         *)
(* A hash is what it is computed from, a signature the secret with the     *)
(* hash it signs.  The file is a sequence of blocks: one per audit event,  *)
(* so that a later bundle is longer, one for what the export found, and    *)
(* the seal.                                                               *)
(***************************************************************************)
EXTENDS Naturals, Sequences, FiniteSetsExt, SequencesExt

CONSTANTS
  Thread, Item, NoItem, MaxVersion, MaxCalls, \* of EvidenceManifest
  Exporter,   \* handler threads that export
  Second,     \* values of created_at, which has no fraction
  Settings,   \* key settings the operators try, well-formed or not
  FirstSetting,
  WriteSize,  \* blocks that one write to the file takes
  ReadSize,   \* blocks that one read of the file returns
  MaxExports, \* bound: exports begun in one behaviour
  MaxDeploys, \* bound: restarts with other settings
  MaxEdits    \* bound: edits of the database behind the API

Pairs == [id : STRING, secret : STRING]

ASSUME ProofStoreAssumption ==
  /\ NoItem \notin Item /\ MaxVersion \in Nat /\ MaxCalls \in Nat
  /\ FirstSetting \in [current : Pairs, previous : Seq(Pairs)]
  /\ Settings \subseteq [current : Pairs, previous : Seq(Pairs)]
  /\ WriteSize \in Nat \ {0} /\ ReadSize \in Nat \ {0}
  /\ MaxExports \in Nat /\ MaxDeploys \in Nat /\ MaxEdits \in Nat

VARIABLES
  row, captured, items, noted, manifests, pc, on, own, manifest, view, calls,
  tampered, overlapped, killed, \* of EvidenceManifest
  at,        \* where each exporter stands
  found,     \* what its reads have found so far
  text,      \* the bundle it has to write
  offset,    \*   and how much of it is written
  file,      \* the blocks of the request's file; none, or no file yet
  reading,   \* the blocks that the reader of the file has read
  setting,   \* the receipt signing keys of the running server
  exports,   \* exports begun
  deploys,   \* restarts with other settings
  itemsThen, \* history: the evidence when the exporter read the row
  built,     \* history: every bundle that was built
  crowded,   \* history: another exporter has written while this one does
  settled    \* history: the last bundle, if it was written by one exporter alone

DB == INSTANCE EvidenceManifest

database  == <<row, captured, items, noted, manifests, pc, on, own, manifest, view, calls,
               tampered, overlapped, killed>>
exporting == <<at, found, text, offset, itemsThen, crowded>>
vars      == <<database, exporting, file, reading, setting, exports, deploys, built, settled>>

-----------------------------------------------------------------------------
(* Keys.                                                                   *)

\* The entries of one id among the previous keys, of which the last one counts.
LastEntry(id) ==
  {n \in DOMAIN setting.previous :
     /\ setting.previous[n].id = id
     /\ \A m \in DOMAIN setting.previous : setting.previous[m].id = id => m <= n}

\* receipt_secret_for_key_id: the current id before previous ones, or no secret.
SecretsFor(id) ==
  IF id = setting.current.id
  THEN {setting.current.secret}
  ELSE {setting.previous[n].secret : n \in LastEntry(id)}

\* Mutated form: repeated ids among the previous keys are accepted.
ValidSettingRepeats(s) ==
  \A n \in DOMAIN s.previous : s.previous[n].id # s.current.id

\* validate_key_settings, which keeps a production server from starting; ids and
\* secrets that are empty, short or default are not among those considered here.
ValidSetting(s) ==
  /\ \A n \in DOMAIN s.previous : s.previous[n].id # s.current.id
  /\ \A m, n \in DOMAIN s.previous : s.previous[m].id = s.previous[n].id => m = n

ASSUME FirstSettingAssumption == ValidSetting(FirstSetting)

\* verify_public_hash_signature.
SignatureValid(signature, hash, id) ==
  \E secret \in SecretsFor(id) : signature = <<secret, hash>>

\* receipt_verification_keys.
Listed == {setting.current} \cup {setting.previous[n] : n \in DOMAIN setting.previous}

-----------------------------------------------------------------------------
(* Bundles.                                                                *)

\* build_receipt: the receipt of the decision, rebuilt from the row r as it was read;
\* the row's version stands for the fields that both it and its hash take from r.
Receipt(r, pair) ==
  [version |-> r.version, id |-> pair.id, signature |-> <<pair.secret, r.version>>]

\* verify_receipt_signature: the hash is computed from the receipt's own fields.
ReceiptValid(receipt) == SignatureValid(receipt.signature, receipt.version, receipt.id)

Event(n)    == [event |-> n]
Findings(f) == [findings |-> f]

\* Mutated form: what the export found is not hashed.
HashedEventsOnly(body) == Front(body)

\* _proof_hash_body: all but the hash and the signature.
Hashed(body) == body

Seal(body, pair) ==
  [seal |-> [hash |-> Hashed(body), id |-> pair.id,
             signature |-> <<pair.secret, Hashed(body)>>]]

\* The bundle that build_proof_bundle returns, for `count' events.
Bundle(count, f) ==
  LET body == Append([n \in 1..count |-> Event(n)], Findings(f))
  IN  Append(body, Seal(body, setting.current))

\* json.loads takes the blocks for a bundle.
Parses(blocks) ==
  /\ Len(blocks) >= 2
  /\ \A n \in 1..(Len(blocks) - 2) : "event" \in DOMAIN blocks[n]
  /\ "findings" \in DOMAIN blocks[Len(blocks) - 1]
  /\ "seal" \in DOMAIN blocks[Len(blocks)]

\* Mutated form: the events are verified as a chain, without the anchor.
EventsVerifyChain(events, anchor) == \A n \in 1..Len(events) : events[n] = Event(n)

\* _verify_audit_events: the chain from the genesis hash, and the anchor's count
\* and head if there is an anchor.
EventsVerify(events, anchor) ==
  /\ \A n \in 1..Len(events) : events[n] = Event(n)
  /\ anchor # 0 => anchor = Len(events)

\* verify_proof_bundle: the bundle alone, and the keys of the verifying process.
\* The replay and the receipt's token tell the edited rows from the captured
\* ones less finely than the snapshot does, so they refuse nothing more.
Verifies(blocks) ==
  /\ Parses(blocks)
  /\ LET body == Front(blocks)
         seal == Last(blocks).seal
         f    == Last(body).findings
     IN  /\ seal.hash = Hashed(body)
         /\ SignatureValid(seal.signature, Hashed(body), seal.id)
         /\ ReceiptValid(f.receipt)
         /\ EventsVerify(Front(body), f.row.anchor)
         /\ f.snapshotMatch
         /\ f.manifestMatch

-----------------------------------------------------------------------------
(* POST /requests/{id}/proof-bundle.                                       *)

Nothing == [row |-> DB!NoSnapshot, items |-> DB!NoManifest]

\* The tenant guard's copy of the row is dropped; this is the read that counts.
ExportRow(e) ==
  /\ at[e] = "idle"
  /\ exports < MaxExports
  /\ exports'   = exports + 1
  /\ at'        = [at EXCEPT ![e] = "items"]
  /\ found'     = [found EXCEPT ![e].row = row]
  /\ itemsThen' = [itemsThen EXCEPT ![e] = items]
  /\ UNCHANGED <<database, text, offset, crowded, file, reading, setting, deploys, built, settled>>

ExportItems(e) ==
  /\ at[e] = "items"
  /\ found' = [found EXCEPT ![e].items = items]
  /\ at'    = [at EXCEPT ![e] = "events"]
  /\ UNCHANGED <<database, text, offset, itemsThen, crowded, file, reading, setting, exports, deploys, built, settled>>

\* The last read, and the bundle built from all of them.
ExportEvents(e) ==
  /\ at[e] = "events"
  /\ \E second \in Second :
       LET f == found[e]
           b == Bundle(row.anchor,
                  [row           |-> f.row,
                   items         |-> f.items,
                   receipt       |-> Receipt(f.row, setting.current),
                   snapshotMatch |-> captured = DB!Snapshot(f.row),
                   manifestMatch |-> DB!Manifest(f.items) = DB!LatestManifest,
                   created       |-> second])
       IN  /\ text'  = [text EXCEPT ![e] = b]
           /\ built' = built \cup {b}
  /\ at' = [at EXCEPT ![e] = "open"]
  /\ UNCHANGED <<database, found, offset, itemsThen, crowded, file, reading, setting, exports, deploys, settled>>

Writing(e) == at[e] = "write"

\* Mutated form: the file is opened without truncating it.
OpenedAsIs == file

\* What open(path, "w") leaves of the file.
Opened == <<>>

\* persist_proof_bundle opens the file,
OpenFile(e) ==
  /\ at[e] = "open"
  /\ at'   = [at EXCEPT ![e] = "write"]
  /\ file' = Opened
  /\ settled' = <<>>
  /\ crowded' = [x \in Exporter |->
       IF x = e THEN \E y \in Exporter : Writing(y) ELSE crowded[x] \/ Writing(x)]
  /\ UNCHANGED <<database, found, text, offset, itemsThen, reading, setting, exports, deploys, built>>

Hole == [hole |-> 0]

\* The file after blocks m..n of a bundle are written at their place, which may lie
\* past the file's end.
Overwritten(bundle, m, n) ==
  [k \in 1..Max({n, Len(file)}) |->
     IF k \in m..n THEN bundle[k] ELSE IF k <= Len(file) THEN file[k] ELSE Hole]

Leave(e) ==
  /\ at'        = [at EXCEPT ![e] = "idle"]
  /\ found'     = [found EXCEPT ![e] = Nothing]
  /\ text'      = [text EXCEPT ![e] = <<>>]
  /\ offset'    = [offset EXCEPT ![e] = 0]
  /\ itemsThen' = [itemsThen EXCEPT ![e] = DB!NoManifest]
  /\ crowded'   = [crowded EXCEPT ![e] = FALSE]

\*   and writes it; with the last block the call returns.
WriteBlocks(e) ==
  LET n == Min({offset[e] + WriteSize, Len(text[e])}) IN
  /\ Writing(e)
  /\ file' = Overwritten(text[e], offset[e] + 1, n)
  /\ IF n < Len(text[e])
     THEN /\ offset' = [offset EXCEPT ![e] = n]
          /\ UNCHANGED <<at, found, text, itemsThen, crowded, settled>>
     ELSE /\ settled' = IF crowded[e] THEN settled ELSE text[e]
          /\ Leave(e)
  /\ UNCHANGED <<database, reading, setting, exports, deploys, built>>

\* The handler dies, or a statement or the file system fails it.
ExporterDies(e) ==
  /\ at[e] # "idle"
  /\ Leave(e)
  /\ UNCHANGED <<database, file, reading, setting, exports, deploys, built, settled>>

-----------------------------------------------------------------------------
(* Reading the file.                                                       *)

\* One of the reads that read_text makes until it meets the end of the file.
ReadBlocks ==
  /\ Len(reading) < Len(file)
  /\ reading' = reading \o SubSeq(file, Len(reading) + 1, Min({Len(reading) + ReadSize, Len(file)}))
  /\ UNCHANGED <<database, exporting, file, setting, exports, deploys, built, settled>>

\* The end of the file, where the answer is given, or the reader's death.
ReadEnds ==
  /\ reading # <<>>
  /\ reading' = <<>>
  /\ UNCHANGED <<database, exporting, file, setting, exports, deploys, built, settled>>

-----------------------------------------------------------------------------
(* The environment.                                                        *)

\* A restart with other keys; calls in progress have died before it.
Deploy(s) ==
  /\ deploys < MaxDeploys
  /\ ValidSetting(s)
  /\ s # setting
  /\ reading = <<>>
  /\ \A e \in Exporter : at[e] = "idle"
  /\ \A t \in Thread : pc[t] = "idle"
  /\ setting' = s
  /\ deploys' = deploys + 1
  /\ UNCHANGED <<database, exporting, file, reading, exports, built, settled>>

Edits == (row.version - 1) + Quantify(Item, LAMBDA i : items[i] > 1)

\* Attach calls, and edits behind the API.
Database ==
  /\ \/ \E t \in Thread :
          \/ \E i \in Item : DB!ReceiveAttach(t, i)
          \/ DB!AttachCommit(t) \/ DB!AttachDuplicate(t) \/ DB!Refresh(t)
          \/ DB!QueryManifest(t) \/ DB!RecordAttached(t) \/ DB!RecordManifest(t)
          \/ DB!Abort(t)
     \/ Edits < MaxEdits /\ ((\E i \in Item : DB!EditItem(i)) \/ DB!EditRow)
  /\ UNCHANGED <<exporting, file, reading, setting, exports, deploys, built, settled>>

-----------------------------------------------------------------------------
Init ==
  /\ DB!Init
  /\ at        = [e \in Exporter |-> "idle"]
  /\ found     = [e \in Exporter |-> Nothing]
  /\ text      = [e \in Exporter |-> <<>>]
  /\ offset    = [e \in Exporter |-> 0]
  /\ itemsThen = [e \in Exporter |-> DB!NoManifest]
  /\ crowded   = [e \in Exporter |-> FALSE]
  /\ file      = <<>>
  /\ reading   = <<>>
  /\ setting   = FirstSetting
  /\ exports   = 0
  /\ deploys   = 0
  /\ built     = {}
  /\ settled   = <<>>

Next ==
  \/ \E e \in Exporter :
       \/ ExportRow(e) \/ ExportItems(e) \/ ExportEvents(e)
       \/ OpenFile(e) \/ WriteBlocks(e) \/ ExporterDies(e)
  \/ ReadBlocks \/ ReadEnds
  \/ \E s \in Settings : Deploy(s)
  \/ Database

Spec == Init /\ [][Next]_vars

-----------------------------------------------------------------------------
(* Correctness.                                                            *)

FoundSets  == [row : DB!Rows, items : DB!Manifests]
Receipts   == [version : Nat, id : STRING, signature : STRING \X Nat]
Answers    == [row : DB!Rows, items : DB!Manifests, receipt : Receipts,
               snapshotMatch : BOOLEAN, manifestMatch : BOOLEAN, created : Second]
BodyBlocks == [event : Nat] \cup [findings : Answers]
SealBlocks == [seal : [hash : Seq(BodyBlocks), id : STRING,
                       signature : STRING \X Seq(BodyBlocks)]]
Blocks     == BodyBlocks \cup SealBlocks \cup {Hole}

TypeOK ==
  /\ DB!TypeOK
  /\ at        \in [Exporter -> {"idle", "items", "events", "open", "write"}]
  /\ found     \in [Exporter -> FoundSets]
  /\ text      \in [Exporter -> Seq(Blocks)]
  /\ offset    \in [Exporter -> Nat]
  /\ itemsThen \in [Exporter -> DB!Manifests]
  /\ crowded   \in [Exporter -> BOOLEAN]
  /\ file      \in Seq(Blocks)
  /\ reading   \in Seq(Blocks)
  /\ settled   \in Seq(Blocks)
  /\ built     \in SUBSET Seq(Blocks)
  /\ setting   \in [current : Pairs, previous : Seq(Pairs)]
  /\ exports   \in Nat
  /\ deploys   \in Nat

\* VerifiedIsOneMoment: a bundle whose verification succeeds shows the unedited
\* request, its evidence and its events as they all were when the export read
\* the row, although the three were read one after the other while evidence was
\* attached and edited.
VerifiedIsOneMoment ==
  \A e \in Exporter :
    text[e] # <<>> /\ Verifies(text[e]) =>
      LET f == Last(Front(text[e])).findings IN
      /\ f.row.version = 1
      /\ f.items = itemsThen[e]
      /\ f.row.anchor = Len(text[e]) - 2

\* VerifiedReadIsABundle: what a reader has read verifies only if it is, block for
\* block, one bundle that was built, also while exporters overwrite the file, leave
\* it half written, or write it both at once.
VerifiedReadIsABundle == Verifies(reading) => reading \in built

\* LastExportStands: once an exporter has opened and written the file with no other
\* writing meanwhile, the file is exactly its bundle until the next export opens
\* it, whatever was in the file before, a longer bundle or the rest of one.
LastExportStands == settled # <<>> => file = settled

\* ListedKeysVerify: a bundle that verified when it was built verifies under every
\* later setting that the server accepts and that lists the pair it was signed with.
ListedKeysVerify ==
  \A b \in built :
    LET seal == Last(b).seal
        f    == Last(Front(b)).findings
    IN  /\ [id |-> seal.id, secret |-> seal.signature[1]] \in Listed
        /\ f.snapshotMatch /\ f.manifestMatch
        /\ EventsVerify(Front(Front(b)), f.row.anchor)
        => Verifies(b)
=============================================================================
