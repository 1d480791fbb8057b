-------------------------- MODULE AuditLedgerProofs --------------------------
(***************************************************************************)
(* What verification of the audit ledger shows for any number of events    *)
(* and of changes behind the API.                                          *)
(***************************************************************************)
EXTENDS AuditLedger, Integers, SequenceTheorems, FiniteSetTheorems, WellFoundedInduction, TLAPS

-----------------------------------------------------------------------------
(* Sequences.                                                              *)

Content(s) == {s[i] : i \in 1..Len(s)}
IsSeq(s)   == s \in Seq(Content(s))

LEMMA SeqIsSeq ==
  ASSUME NEW S, NEW s \in Seq(S)
  PROVE  IsSeq(s)
<1>1. Len(s) \in Nat /\ s = [i \in 1..Len(s) |-> s[i]]
  OBVIOUS
<1>2. s \in [1..Len(s) -> Content(s)]
  BY <1>1 DEF Content
<1> QED
  BY <1>1, <1>2 DEF IsSeq

LEMMA PartOfSeq ==
  ASSUME NEW S, NEW s \in Seq(S), NEW m \in 1..(Len(s) + 1), NEW n \in 0..Len(s), m <= n + 1
  PROVE  /\ SubSeq(s, m, n) \in Seq(S)
         /\ Len(SubSeq(s, m, n)) = n - m + 1
         /\ \A i \in 1..(n - m + 1) : SubSeq(s, m, n)[i] = s[m + i - 1]
<1>1. Len(s) \in Nat /\ m \in Int /\ n \in Int
  OBVIOUS
<1>2. \A i \in m..n : s[i] \in S
  BY <1>1
<1>3. /\ SubSeq(s, m, n) \in Seq(S)
      /\ Len(SubSeq(s, m, n)) = IF m <= n THEN n - m + 1 ELSE 0
      /\ \A i \in 1..(n - m + 1) : SubSeq(s, m, n)[i] = s[m + i - 1]
  BY ONLY <1>1, <1>2, SubSeqProperties
<1> QED
  BY <1>1, <1>3

\* t is s with e put in at p.
Inserted(t, s, p, e) ==
  /\ Len(t) = Len(s) + 1
  /\ \A i \in 1..(Len(s) + 1) :
       t[i] = IF i < p THEN s[i] ELSE IF i = p THEN e ELSE s[i - 1]

LEMMA InsertProperties ==
  ASSUME NEW S, NEW s \in Seq(S), NEW e \in S, NEW p \in 1..(Len(s) + 1)
  PROVE  InsertAt(s, p, e) \in Seq(S) /\ Inserted(InsertAt(s, p, e), s, p, e)
<1> DEFINE l == SubSeq(s, 1, p - 1)
           m == <<e>>
           r == SubSeq(s, p, Len(s))
<1>1. Len(s) \in Nat
  OBVIOUS
<1>2. /\ l \in Seq(S) /\ Len(l) = p - 1
      /\ \A i \in 1..(p - 1) : l[i] = s[i]
  <2>1. 1 \in 1..(Len(s) + 1) /\ p - 1 \in 0..Len(s) /\ 1 <= p - 1 + 1
    BY <1>1
  <2>2. /\ l \in Seq(S) /\ Len(l) = p - 1 - 1 + 1
        /\ \A i \in 1..(p - 1 - 1 + 1) : l[i] = s[1 + i - 1]
    BY <2>1, PartOfSeq
  <2> QED
    BY <2>2, <1>1
<1>3. /\ r \in Seq(S) /\ Len(r) = Len(s) - p + 1
      /\ \A i \in 1..(Len(s) - p + 1) : r[i] = s[p + i - 1]
  <2>1. Len(s) \in 0..Len(s) /\ p <= Len(s) + 1
    BY <1>1
  <2> QED
    BY <2>1, PartOfSeq
<1>4. m \in Seq(S) /\ Len(m) = 1 /\ m[1] = e
  OBVIOUS
<1> HIDE DEF l, m, r
<1>5. /\ l \o m \in Seq(S) /\ Len(l \o m) = p
      /\ \A i \in 1..p : (l \o m)[i] = IF i < p THEN s[i] ELSE e
  <2>1. /\ l \o m \in Seq(S) /\ Len(l \o m) = Len(l) + Len(m)
        /\ \A i \in 1..(Len(l) + Len(m)) :
             (l \o m)[i] = IF i <= Len(l) THEN l[i] ELSE m[i - Len(l)]
    BY <1>2, <1>4, ConcatProperties
  <2> QED
    BY <2>1, <1>1, <1>2, <1>4
<1> DEFINE lm == l \o m
<1>6. InsertAt(s, p, e) = lm \o r
  BY DEF InsertAt, l, m, r
<1>7. /\ lm \in Seq(S) /\ Len(lm) = p
      /\ \A i \in 1..p : lm[i] = IF i < p THEN s[i] ELSE e
  BY <1>5
<1> HIDE DEF lm
<1>8. /\ lm \o r \in Seq(S)
      /\ Len(lm \o r) = Len(lm) + Len(r)
      /\ \A i \in 1..(Len(lm) + Len(r)) :
           (lm \o r)[i] = IF i <= Len(lm) THEN lm[i] ELSE r[i - Len(lm)]
  BY <1>3, <1>7, ConcatProperties
<1>9. Len(lm \o r) = Len(s) + 1
  BY <1>1, <1>3, <1>7, <1>8
<1>10. ASSUME NEW i \in 1..(Len(s) + 1)
       PROVE  (lm \o r)[i] = IF i < p THEN s[i] ELSE IF i = p THEN e ELSE s[i - 1]
  <2>0. (lm \o r)[i] = IF i <= p THEN lm[i] ELSE r[i - p]
    BY <1>1, <1>3, <1>7, <1>8
  <2>1. CASE i <= p
    BY <2>0, <2>1, <1>1, <1>7
  <2>2. CASE i > p
    <3>1. i - p \in 1..(Len(s) - p + 1) /\ p + (i - p) - 1 = i - 1
      BY <2>2, <1>1
    <3>2. r[i - p] = s[i - 1]
      BY <3>1, <1>3
    <3> QED
      BY <2>0, <2>2, <3>2, <1>1
  <2>3. i <= p \/ i > p
    BY <1>1
  <2> QED
    BY <2>1, <2>2, <2>3
<1> QED
  BY <1>6, <1>8, <1>9, <1>10 DEF Inserted

\* t is s without its element p.
Removed(t, s, p) ==
  /\ Len(t) = Len(s) - 1
  /\ \A i \in 1..(Len(s) - 1) : t[i] = IF i < p THEN s[i] ELSE s[i + 1]

LEMMA RemoveProperties ==
  ASSUME NEW S, NEW s \in Seq(S), NEW p \in 1..Len(s)
  PROVE  RemoveAt(s, p) \in Seq(S) /\ Removed(RemoveAt(s, p), s, p)
<1> DEFINE l == SubSeq(s, 1, p - 1)
           r == SubSeq(s, p + 1, Len(s))
<1>1. Len(s) \in Nat
  OBVIOUS
<1>2. /\ l \in Seq(S) /\ Len(l) = p - 1
      /\ \A i \in 1..(p - 1) : l[i] = s[i]
  <2>1. 1 \in 1..(Len(s) + 1) /\ p - 1 \in 0..Len(s) /\ 1 <= p - 1 + 1
    BY <1>1
  <2>2. /\ l \in Seq(S) /\ Len(l) = p - 1 - 1 + 1
        /\ \A i \in 1..(p - 1 - 1 + 1) : l[i] = s[1 + i - 1]
    BY <2>1, PartOfSeq
  <2> QED
    BY <2>2, <1>1
<1>3. /\ r \in Seq(S) /\ Len(r) = Len(s) - p
      /\ \A i \in 1..(Len(s) - p) : r[i] = s[p + i]
  <2>1. p + 1 \in 1..(Len(s) + 1) /\ Len(s) \in 0..Len(s) /\ p + 1 <= Len(s) + 1
    BY <1>1
  <2>2. /\ r \in Seq(S) /\ Len(r) = Len(s) - (p + 1) + 1
        /\ \A i \in 1..(Len(s) - (p + 1) + 1) : r[i] = s[p + 1 + i - 1]
    BY <2>1, PartOfSeq
  <2> QED
    BY <2>2, <1>1
<1> HIDE DEF l, r
<1>4. /\ l \o r \in Seq(S)
      /\ Len(l \o r) = Len(l) + Len(r)
      /\ \A i \in 1..(Len(l) + Len(r)) :
           (l \o r)[i] = IF i <= Len(l) THEN l[i] ELSE r[i - Len(l)]
  BY <1>2, <1>3, ConcatProperties
<1>5. RemoveAt(s, p) = l \o r
  BY DEF RemoveAt, l, r
<1>6. ASSUME NEW i \in 1..(Len(s) - 1)
      PROVE  RemoveAt(s, p)[i] = IF i < p THEN s[i] ELSE s[i + 1]
  <2>0. RemoveAt(s, p)[i] = IF i <= p - 1 THEN l[i] ELSE r[i - (p - 1)]
    <3>1. i \in 1..(Len(l) + Len(r))
      BY <1>1, <1>2, <1>3
    <3>2. (l \o r)[i] = IF i <= Len(l) THEN l[i] ELSE r[i - Len(l)]
      BY <3>1, <1>4
    <3> QED
      BY <3>2, <1>2, <1>5
  <2>1. CASE i <= p - 1
    BY <2>0, <2>1, <1>1, <1>2
  <2>2. CASE i > p - 1
    <3>1. i - (p - 1) \in 1..(Len(s) - p) /\ p + (i - (p - 1)) = i + 1
      BY <2>2, <1>1
    <3>2. r[i - (p - 1)] = s[i + 1]
      BY <3>1, <1>3
    <3> QED
      BY <2>0, <2>2, <3>2, <1>1
  <2> QED
    BY <2>1, <2>2, <1>1
<1>7. Len(RemoveAt(s, p)) = Len(s) - 1
  <2>1. Len(l \o r) = Len(l) + Len(r) /\ Len(l) + Len(r) = Len(s) - 1
    BY <1>1, <1>2, <1>3, <1>4
  <2> QED
    BY <2>1, <1>5
<1> QED
  BY <1>4, <1>5, <1>6, <1>7 DEF Removed

\* Any non-empty set of numbers up to n has a greatest one.
LEMMA Least ==
  ASSUME NEW T \in SUBSET Nat, T # {}
  PROVE  \E x \in T : \A y \in T : x <= y
<1> DEFINE R == OpToRel(<, Nat)
<1>1. IsWellFoundedOn(R, Nat)
  BY NatLessThanWellFounded
<1>2. \A x, y \in Nat : x < y => <<x, y>> \in R
  BY DEF OpToRel
<1> HIDE DEF R
<1>3. PICK x \in T : \A y \in T : ~(<<y, x>> \in R)
  BY <1>1, WFMin
<1>4. \A y \in T : x \in Nat /\ y \in Nat /\ ~(y < x)
  BY <1>2, <1>3
<1>5. \A y \in T : x <= y
  BY <1>4
<1> QED
  BY <1>5

LEMMA Greatest ==
  ASSUME NEW n \in Nat, NEW T \in SUBSET (1..n), T # {}
  PROVE  \E x \in T : \A y \in T : y <= x
<1> DEFINE U == {i \in Nat : \E t \in T : i = n - t}
<1>1. U \in SUBSET Nat /\ U # {}
  <2>1. PICK t \in T : TRUE
    OBVIOUS
  <2>2. n - t \in U
    BY <2>1
  <2> QED
    BY <2>2
<1>2. PICK u \in U : \A v \in U : u <= v
  BY <1>1, Least
<1>3. PICK x \in T : u = n - x
  OBVIOUS
<1>4. ASSUME NEW y \in T PROVE y <= x
  <2>1. n - y \in U
    OBVIOUS
  <2>2. u <= n - y
    BY <1>2, <2>1
  <2> HIDE DEF U
  <2> QED
    BY <1>3, <2>2
<1> QED
  BY <1>4

-----------------------------------------------------------------------------
(* The inductive invariant: what an event links to is the event that was   *)
(* last when it was recorded, in the ledger and in every copy of it.       *)

EventOk(r, a) ==
  /\ r = [id |-> r.id, says |-> r.says, previous |-> r.previous, hash |-> r.hash]
  /\ r.id \in 1..Len(a)
  /\ r.hash = EventHash(r.id, "recorded", r.previous)
  /\ a[r.id] = 0 => r.previous = Genesis
  /\ a[r.id] # 0 => \E x : r.previous = EventHash(a[r.id], "recorded", x)

RowsOk(rows, a) == IsSeq(rows) /\ \A i \in 1..Len(rows) : EventOk(rows[i], a)

StandsIn(rows, a) ==
  \A i \in 1..Len(rows) :
    /\ rows[i].says = "recorded"
    /\ a[rows[i].id] = (IF i = 1 THEN 0 ELSE rows[i - 1].id)

LedgerInv ==
  /\ after \in Seq(Nat)
  /\ \A n \in 1..Len(after) : after[n] < n
  /\ RowsOk(ledger, after)
  /\ RowsOk(reader.rows, after)
  /\ RowsOk(verdict.rows, after)
  /\ verdict.answer = "valid" => StandsIn(verdict.rows, after)

LEMMA LinksTellOrder ==
  ASSUME NEW a \in Seq(Nat), NEW rows, RowsOk(rows, a), NEW head, Verifies(rows, head)
  PROVE  StandsIn(rows, a)
<1> SUFFICES ASSUME NEW i \in 1..Len(rows)
             PROVE  /\ rows[i].says = "recorded"
                    /\ a[rows[i].id] = (IF i = 1 THEN 0 ELSE rows[i - 1].id)
  BY DEF StandsIn
<1>1. Len(rows) \in Nat
  BY DEF RowsOk, IsSeq
<1>2. EventOk(rows[i], a) /\ Linked(rows, i)
  BY DEF RowsOk, Verifies
<1>3. rows[i].says = "recorded"
  BY <1>2 DEF EventOk, Linked, EventHash
<1>4. CASE i = 1
  BY <1>2, <1>3, <1>4 DEF EventOk, Linked, EventHash, Genesis
<1>5. CASE i # 1
  <2>1. i - 1 \in 1..Len(rows) /\ EventOk(rows[i - 1], a)
    BY <1>1, <1>5 DEF RowsOk
  <2>2. rows[i].previous = EventHash(rows[i - 1].id, "recorded", rows[i - 1].previous)
    BY <1>2, <1>5, <2>1 DEF EventOk, Linked
  <2>3. rows[i].previous # Genesis
    BY <2>2 DEF EventHash, Genesis
  <2>4. PICK x : rows[i].previous = EventHash(a[rows[i].id], "recorded", x)
    BY <1>2, <2>3 DEF EventOk
  <2>5. a[rows[i].id] = rows[i - 1].id
    BY <2>2, <2>4 DEF EventHash
  <2> QED
    BY <1>3, <1>5, <2>5
<1> QED
  BY <1>3, <1>4, <1>5

\* What is known of an event stays true when more are recorded.
LEMMA HistoryGrows ==
  ASSUME NEW a \in Seq(Nat), NEW n \in Nat, NEW rows, RowsOk(rows, a)
  PROVE  /\ RowsOk(rows, Append(a, n))
         /\ StandsIn(rows, a) => StandsIn(rows, Append(a, n))
<1>1. /\ Append(a, n) \in Seq(Nat) /\ Len(Append(a, n)) = Len(a) + 1 /\ Len(a) \in Nat
      /\ \A i \in 1..Len(a) : Append(a, n)[i] = a[i]
  BY AppendProperties
<1>2. ASSUME NEW i \in 1..Len(rows)
      PROVE  /\ EventOk(rows[i], Append(a, n))
             /\ Append(a, n)[rows[i].id] = a[rows[i].id]
  <2>1. EventOk(rows[i], a)
    BY DEF RowsOk
  <2>2. rows[i].id \in 1..Len(a) /\ rows[i].id \in 1..Len(Append(a, n))
    BY <2>1, <1>1 DEF EventOk
  <2> QED
    BY <2>1, <2>2, <1>1 DEF EventOk
<1> QED
  BY <1>2 DEF RowsOk, StandsIn

LEMMA RecordKeepsRows ==
  ASSUME LedgerInv, Record
  PROVE  /\ after' \in Seq(Nat) /\ RowsOk(ledger', after')
         /\ \A k \in 1..Len(after') : after'[k] < k
         /\ \A rows : RowsOk(rows, after)
              => /\ RowsOk(rows, after')
                 /\ StandsIn(rows, after) => StandsIn(rows, after')
<1> DEFINE n        == IF ledger = <<>> THEN 0 ELSE Last(ledger).id
           id       == Len(after) + 1
           previous == LatestEventHash(ledger)
           event    == [id |-> id, says |-> "recorded", previous |-> previous,
                        hash |-> EventHash(id, "recorded", previous)]
<1>1. PICK p \in 1..(Len(ledger) + 1) :
        ledger' = InsertAt(ledger, p, event) /\ after' = Append(after, n)
  BY DEF Record
<1>2. after \in Seq(Nat) /\ IsSeq(ledger) /\ Len(ledger) \in Nat /\ Len(after) \in Nat
      /\ \A i \in 1..Len(ledger) : EventOk(ledger[i], after)
  BY DEF LedgerInv, RowsOk, IsSeq
<1>3. /\ n \in Nat /\ n < id
      /\ n = 0 => previous = Genesis
      /\ n # 0 => \E x : previous = EventHash(n, "recorded", x)
  <2>1. CASE ledger = <<>>
    BY <2>1 DEF LatestEventHash
  <2>2. CASE ledger # <<>>
    <3>1. Len(ledger) \in 1..Len(ledger)
      BY <2>2, <1>2 DEF IsSeq
    <3>2. EventOk(Last(ledger), after)
      BY <3>1, <1>2 DEF Last
    <3>3. n = Last(ledger).id /\ previous = Last(ledger).hash
      BY <2>2 DEF LatestEventHash
    <3> QED
      BY <3>2, <3>3, <1>2 DEF EventOk
  <2> QED
    BY <2>1, <2>2
<1>4. /\ after' \in Seq(Nat) /\ Len(after') = Len(after) + 1 /\ after'[id] = n
  BY <1>1, <1>2, <1>3, AppendProperties
<1>5. EventOk(event, after')
  BY <1>2, <1>3, <1>4 DEF EventOk
<1>12. ASSUME NEW k \in 1..Len(after') PROVE after'[k] < k
  <2>1. CASE k = id
    BY <2>1, <1>3, <1>4
  <2>2. CASE k # id
    <3>1. k \in 1..Len(after) /\ after'[k] = after[k]
      BY <2>2, <1>1, <1>2, <1>3, <1>4, AppendProperties
    <3> QED
      BY <3>1 DEF LedgerInv
  <2> QED
    BY <2>1, <2>2
<1> HIDE DEF n, id, previous, event
<1>6. ASSUME NEW rows, RowsOk(rows, after)
      PROVE  /\ RowsOk(rows, after')
             /\ StandsIn(rows, after) => StandsIn(rows, after')
  BY <1>1, <1>2, <1>3, <1>6, HistoryGrows
<1>7. RowsOk(ledger, after')
  BY <1>6 DEF LedgerInv
<1> DEFINE S == Content(ledger) \cup {event}
<1>8. ledger \in Seq(S) /\ event \in S
  BY <1>2 DEF IsSeq
<1> HIDE DEF S
<1>9. ledger' \in Seq(S) /\ Inserted(ledger', ledger, p, event)
  BY <1>1, <1>8, InsertProperties
<1>10. IsSeq(ledger')
  BY <1>9, SeqIsSeq
<1>11. ASSUME NEW i \in 1..Len(ledger') PROVE EventOk(ledger'[i], after')
  <2>1. CASE i < p
    <3>1. i \in 1..Len(ledger) /\ ledger'[i] = ledger[i]
      BY <2>1, <1>2, <1>9 DEF Inserted
    <3> QED
      BY <3>1, <1>7 DEF RowsOk
  <2>2. CASE i = p
    BY <2>2, <1>5, <1>9 DEF Inserted
  <2>3. CASE i > p
    <3>1. i - 1 \in 1..Len(ledger) /\ ledger'[i] = ledger[i - 1]
      BY <2>3, <1>2, <1>9 DEF Inserted
    <3> QED
      BY <3>1, <1>7 DEF RowsOk
  <2> QED
    BY <2>1, <2>2, <2>3, <1>2, <1>9 DEF Inserted
<1> QED
  BY <1>4, <1>6, <1>10, <1>11, <1>12 DEF RowsOk

LEMMA TamperingKeepsRows ==
  ASSUME NEW a, NEW rows, RowsOk(rows, a), NEW i \in 1..Len(rows)
  PROVE  /\ RowsOk([rows EXCEPT ![i].says = "edited"], a)
         /\ RowsOk(RemoveAt(rows, i), a)
         /\ \A p \in 1..Len(rows) : RowsOk(InsertAt(RemoveAt(rows, i), p, rows[i]), a)
<1>1. /\ rows \in Seq(Content(rows)) /\ Len(rows) \in Nat
      /\ \A j \in 1..Len(rows) : EventOk(rows[j], a)
      /\ rows[i] \in Content(rows)
  BY DEF RowsOk, IsSeq, Content
<1>2. RowsOk([rows EXCEPT ![i].says = "edited"], a)
  <2> DEFINE new == [rows[i] EXCEPT !.says = "edited"]
             s   == [rows EXCEPT ![i] = new]
  <2>1. /\ rows[i] = [id |-> rows[i].id, says |-> rows[i].says,
                      previous |-> rows[i].previous, hash |-> rows[i].hash]
        /\ EventOk(rows[i], a)
    BY <1>1 DEF EventOk
  <2>2. new = [id |-> rows[i].id, says |-> "edited",
               previous |-> rows[i].previous, hash |-> rows[i].hash]
    BY <2>1
  <2>3. EventOk(new, a)
    BY <2>1, <2>2 DEF EventOk
  <2> HIDE DEF new
  <2>4. s \in Seq(Content(rows) \cup {new}) /\ Len(s) = Len(rows)
        /\ \A j \in 1..Len(rows) : s[j] = IF j = i THEN new ELSE rows[j]
    BY <1>1
  <2>5. IsSeq(s)
    BY <2>4, SeqIsSeq
  <2>6. RowsOk(s, a)
    BY <1>1, <2>3, <2>4, <2>5 DEF RowsOk
  <2> QED
    BY <2>6 DEF new
<1>3. /\ RemoveAt(rows, i) \in Seq(Content(rows))
      /\ Len(RemoveAt(rows, i)) = Len(rows) - 1
      /\ \A k \in 1..(Len(rows) - 1) : \E j \in 1..Len(rows) : RemoveAt(rows, i)[k] = rows[j]
  <2>1. RemoveAt(rows, i) \in Seq(Content(rows)) /\ Removed(RemoveAt(rows, i), rows, i)
    BY <1>1, RemoveProperties
  <2>2. ASSUME NEW k \in 1..(Len(rows) - 1)
        PROVE  \E j \in 1..Len(rows) : RemoveAt(rows, i)[k] = rows[j]
    <3>1. k \in 1..Len(rows) /\ k + 1 \in 1..Len(rows)
      BY <1>1
    <3> QED
      BY <2>1, <3>1 DEF Removed
  <2> QED
    BY <2>1, <2>2 DEF Removed
<1>4. RowsOk(RemoveAt(rows, i), a)
  <2>1. IsSeq(RemoveAt(rows, i))
    BY <1>3, SeqIsSeq
  <2> QED
    BY <1>1, <1>3, <2>1 DEF RowsOk
<1>5. ASSUME NEW p \in 1..Len(rows) PROVE RowsOk(InsertAt(RemoveAt(rows, i), p, rows[i]), a)
  <2> DEFINE s == RemoveAt(rows, i)
             t == InsertAt(s, p, rows[i])
  <2>1. s \in Seq(Content(rows)) /\ p \in 1..(Len(s) + 1) /\ Len(s) = Len(rows) - 1
    BY <1>1, <1>3
  <2>2. \A k \in 1..Len(s) : EventOk(s[k], a)
    BY <1>4 DEF RowsOk
  <2> HIDE DEF s
  <2>3. t \in Seq(Content(rows)) /\ Inserted(t, s, p, rows[i])
    BY <1>1, <2>1, InsertProperties
  <2>4. IsSeq(t)
    BY <2>3, SeqIsSeq
  <2> HIDE DEF t
  <2>5. ASSUME NEW k \in 1..Len(t) PROVE EventOk(t[k], a)
    <3>1. CASE k < p
      BY <3>1, <1>1, <2>1, <2>2, <2>3 DEF Inserted
    <3>2. CASE k = p
      BY <3>2, <1>1, <2>1, <2>3 DEF Inserted
    <3>3. CASE k > p
      <4>1. k - 1 \in 1..Len(s) /\ t[k] = s[k - 1]
        BY <3>3, <1>1, <2>1, <2>3 DEF Inserted
      <4> QED
        BY <4>1, <2>2
    <3> QED
      BY <3>1, <3>2, <3>3, <1>1, <2>1, <2>3 DEF Inserted
  <2>6. RowsOk(t, a)
    BY <2>4, <2>5 DEF RowsOk
  <2> QED
    BY <2>6 DEF t, s
<1> QED
  BY <1>2, <1>4, <1>5

LEMMA LedgerInvInit == Init => LedgerInv
<1>1. \A a : RowsOk(<<>>, a)
  BY DEF RowsOk, IsSeq, Content
<1> QED
  BY <1>1 DEF Init, LedgerInv, Idle, NoVerdict

\* A report keeps the invariant: it is valid only about rows that stand.
LEMMA ReportKeepsInv ==
  ASSUME LedgerInv, NEW rows, RowsOk(rows, after), NEW head, Report(rows, head)
  PROVE  LedgerInv'
<1>1. /\ verdict'.rows = rows /\ reader'.rows = <<>>
      /\ verdict'.answer = (IF Verifies(rows, head) THEN "valid" ELSE "invalid")
      /\ UNCHANGED <<ledger, after>>
  BY DEF Report, Idle
<1>2. RowsOk(<<>>, after)
  BY DEF RowsOk, IsSeq, Content
<1>3. verdict'.answer = "valid" => StandsIn(rows, after)
  BY <1>1, LinksTellOrder DEF LedgerInv
<1> QED
  BY <1>1, <1>2, <1>3 DEF LedgerInv

LEMMA LedgerInvStep == LedgerInv /\ [Next]_vars => LedgerInv'
<1> SUFFICES ASSUME LedgerInv, [Next]_vars PROVE LedgerInv'
  OBVIOUS
<1>1. CASE Record
  <2>1. UNCHANGED <<reader, verdict>>
    BY <1>1 DEF Record
  <2> QED
    BY <1>1, <2>1, RecordKeepsRows DEF LedgerInv
<1>2. ASSUME NEW i \in 1..Len(ledger),
             \/ EditEvent(i)
             \/ DeleteEvent(i)
             \/ \E p \in 1..Len(ledger) : RetimeEvent(i, p)
      PROVE  LedgerInv'
  <2>1. RowsOk(ledger', after)
    <3>1. /\ RowsOk([ledger EXCEPT ![i].says = "edited"], after)
          /\ RowsOk(RemoveAt(ledger, i), after)
          /\ \A p \in 1..Len(ledger) :
               RowsOk(InsertAt(RemoveAt(ledger, i), p, ledger[i]), after)
      BY TamperingKeepsRows DEF LedgerInv
    <3> QED
      BY <1>2, <3>1 DEF EditEvent, DeleteEvent, RetimeEvent
  <2>2. UNCHANGED <<after, reader, verdict>>
    BY <1>2 DEF EditEvent, DeleteEvent, RetimeEvent, Tamper
  <2> QED
    BY <2>1, <2>2 DEF LedgerInv
<1>8. ASSUME NEW e \in Executor, ExecuteRead(e) \/ ExecuteCommit(e) \/ ExecuteLeaves(e)
      PROVE  LedgerInv'
  BY <1>8 DEF ExecuteRead, ExecuteCommit, ExecuteLeaves, LedgerInv
<1>3. CASE RouteReadAnchor
  <2>1. reader'.rows = <<>> /\ RowsOk(<<>>, after) /\ UNCHANGED <<after, ledger, verdict>>
    BY <1>3 DEF RouteReadAnchor, FirstRead, RowsOk, IsSeq, Content
  <2> QED
    BY <2>1 DEF LedgerInv
<1>4. CASE RouteReport
  BY <1>4, ReportKeepsInv DEF RouteReport, LedgerInv
<1>5. CASE ScriptReadEvents
  <2>1. reader'.rows = ledger /\ UNCHANGED <<after, ledger, verdict>>
    BY <1>5 DEF ScriptReadEvents, FirstRead
  <2> QED
    BY <2>1 DEF LedgerInv
<1>6. CASE ScriptReport
  BY <1>6, ReportKeepsInv DEF ScriptReport, LedgerInv
<1>7. CASE UNCHANGED vars
  BY <1>7 DEF LedgerInv, vars
<1> QED
  BY <1>1, <1>2, <1>3, <1>4, <1>5, <1>6, <1>7, <1>8 DEF Next

-----------------------------------------------------------------------------
(* Whole ledgers.  The anchor knows how many events there were when the    *)
(* event it names was recorded.  Events of a ledger that stands have       *)
(* growing ids, so those of a ledger that ends with that event were all    *)
(* there then; as many as there were means all that were there.            *)

Distinct(rows) == \A i, j \in 1..Len(rows) : rows[i].id = rows[j].id => i = j

\* The rows are some of these events, each at most once.
Part(rows, ids) == Distinct(rows) /\ Ids(rows) \subseteq ids

\* An event there now was there when any later one that is there was recorded.
Placed(rows, pr) == Distinct(rows) /\ \A m, n \in Ids(rows) : m <= n => m \in pr[n]

\* The anchor is one that record_event has left, or none.
AnchorOk(a, pr) ==
  a.set => \E n \in 1..Len(pr) : /\ \E x : a.head = EventHash(n, "recorded", x)
                                 /\ a.count = Cardinality(pr[n])

PresentOk(pr) ==
  /\ pr \in Seq(SUBSET Nat)
  /\ \A n \in 1..Len(pr) : IsFiniteSet(pr[n])

WholeInv ==
  /\ PresentOk(present) /\ Len(present) = Len(after)
  /\ Placed(ledger, present) /\ Placed(reader.rows, present)
  /\ AnchorOk(anchor, present)
  /\ DOMAIN copies = Executor
  /\ \A e \in Executor : \A a \in copies[e] : AnchorOk(a, present)
  /\ AnchorOk(reader.anchor, present)
  /\ AnchorOk(verdict.anchor, present)
  /\ VerifiedIsWhole

LEMMA DistinctCount ==
  ASSUME NEW rows, IsSeq(rows), Distinct(rows)
  PROVE  IsFiniteSet(Ids(rows)) /\ Cardinality(Ids(rows)) = Len(rows)
<1> DEFINE f == [i \in 1..Len(rows) |-> rows[i].id]
<1>1. Len(rows) \in Nat
  BY DEF IsSeq
<1>2. IsFiniteSet(1..Len(rows)) /\ Cardinality(1..Len(rows)) = Len(rows)
  <2>1. /\ IsFiniteSet(1..Len(rows))
        /\ Cardinality(1..Len(rows)) = IF 1 > Len(rows) THEN 0 ELSE Len(rows) - 1 + 1
    <3>1. 1 \in Int /\ Len(rows) \in Int
      BY <1>1
    <3> QED
      BY ONLY <3>1, FS_Interval
  <2> QED
    BY <1>1, <2>1
<1>3. f \in Bijection(1..Len(rows), Ids(rows))
  BY DEF Bijection, Injection, Surjection, IsInjective, Ids, Distinct
<1> HIDE DEF f
<1>4. ExistsBijection(1..Len(rows), Ids(rows))
  BY <1>3 DEF ExistsBijection
<1> QED
  BY <1>2, <1>4, FS_Bijection

LEMMA RemovedIsPart ==
  ASSUME NEW S, NEW s \in Seq(S), NEW p \in 1..Len(s), NEW t, Removed(t, s, p), Distinct(s)
  PROVE  Distinct(t) /\ Ids(t) \subseteq Ids(s) \ {s[p].id}
<1>1. Len(s) \in Nat /\ Len(t) = Len(s) - 1
  BY DEF Removed
<1> DEFINE from(i) == IF i < p THEN i ELSE i + 1
<1>2. \A i \in 1..Len(t) : from(i) \in 1..Len(s) /\ from(i) # p /\ t[i] = s[from(i)]
  BY <1>1 DEF Removed
<1>3. \A i, j \in 1..Len(t) : from(i) = from(j) => i = j
  BY <1>1
<1> HIDE DEF from
<1>4. Distinct(t)
  BY <1>2, <1>3 DEF Distinct
<1>5. Ids(t) \subseteq Ids(s) \ {s[p].id}
  BY <1>2 DEF Ids, Distinct
<1> QED
  BY <1>4, <1>5

LEMMA InsertedIds ==
  ASSUME NEW S, NEW s \in Seq(S), NEW p \in 1..(Len(s) + 1), NEW e, NEW t,
         Inserted(t, s, p, e), Distinct(s), e.id \notin Ids(s)
  PROVE  Distinct(t) /\ Ids(t) \subseteq Ids(s) \cup {e.id}
<1>1. Len(s) \in Nat /\ Len(t) = Len(s) + 1
  BY DEF Inserted
<1> DEFINE from(i) == IF i < p THEN i ELSE i - 1
<1>2. \A i \in 1..Len(t) : i # p => from(i) \in 1..Len(s) /\ t[i] = s[from(i)]
  BY <1>1 DEF Inserted
<1>3. \A i, j \in 1..Len(t) : i # p /\ j # p /\ from(i) = from(j) => i = j
  BY <1>1
<1>4. t[p] = e
  BY <1>1 DEF Inserted
<1> HIDE DEF from
<1>5. \A i \in 1..Len(t) : i # p => t[i].id \in Ids(s)
  BY <1>2 DEF Ids
<1>6. ASSUME NEW i \in 1..Len(t), NEW j \in 1..Len(t), t[i].id = t[j].id
      PROVE  i = j
  <2>1. CASE i = p \/ j = p
    BY <1>4, <1>5, <1>6, <2>1
  <2>2. CASE i # p /\ j # p
    BY <1>2, <1>3, <1>6, <2>2 DEF Distinct
  <2> QED
    BY <2>1, <2>2
<1>7. Ids(t) \subseteq Ids(s) \cup {e.id}
  BY <1>4, <1>5 DEF Ids
<1> QED
  BY <1>6, <1>7 DEF Distinct

LEMMA TamperingKeepsPart ==
  ASSUME NEW rows, IsSeq(rows), NEW whole, Part(rows, whole), NEW i \in 1..Len(rows)
  PROVE  /\ rows[i] = [id |-> rows[i].id, says |-> rows[i].says,
                       previous |-> rows[i].previous, hash |-> rows[i].hash]
              => Part([rows EXCEPT ![i].says = "edited"], whole)
         /\ Part(RemoveAt(rows, i), whole)
         /\ \A p \in 1..Len(rows) : Part(InsertAt(RemoveAt(rows, i), p, rows[i]), whole)
<1>1. rows \in Seq(Content(rows)) /\ Len(rows) \in Nat /\ rows[i] \in Content(rows)
  BY DEF IsSeq, Content
<1>2. ASSUME rows[i] = [id |-> rows[i].id, says |-> rows[i].says,
                        previous |-> rows[i].previous, hash |-> rows[i].hash]
      PROVE  Part([rows EXCEPT ![i].says = "edited"], whole)
  <2> DEFINE new == [rows[i] EXCEPT !.says = "edited"]
             s   == [rows EXCEPT ![i] = new]
  <2>1. new.id = rows[i].id
    BY <1>2
  <2> HIDE DEF new
  <2>2. /\ Len(s) = Len(rows)
        /\ \A j \in 1..Len(rows) : s[j] = IF j = i THEN new ELSE rows[j]
    BY <1>1
  <2> HIDE DEF s
  <2>3. \A j \in 1..Len(rows) : s[j].id = rows[j].id
    BY <2>1, <2>2
  <2>4. Distinct(s)
    BY <2>2, <2>3 DEF Part, Distinct
  <2>5. Ids(s) = Ids(rows)
    BY <2>2, <2>3 DEF Ids
  <2>6. Part(s, whole)
    BY <2>4, <2>5 DEF Part
  <2> QED
    BY <2>6 DEF s, new
<1> DEFINE s == RemoveAt(rows, i)
<1>3. s \in Seq(Content(rows)) /\ Removed(s, rows, i)
  BY <1>1, RemoveProperties
<1> HIDE DEF s
<1>4. Distinct(s) /\ Ids(s) \subseteq Ids(rows) \ {rows[i].id}
  BY <1>1, <1>3, RemovedIsPart DEF Part
<1>5. Part(s, whole)
  BY <1>4 DEF Part
<1>6. ASSUME NEW p \in 1..Len(rows) PROVE Part(InsertAt(s, p, rows[i]), whole)
  <2> DEFINE t == InsertAt(s, p, rows[i])
  <2>1. p \in 1..(Len(s) + 1)
    BY <1>1, <1>3 DEF Removed
  <2>2. Inserted(t, s, p, rows[i])
    BY <1>1, <1>3, <2>1, InsertProperties
  <2> HIDE DEF t
  <2>3. Distinct(t) /\ Ids(t) \subseteq Ids(s) \cup {rows[i].id}
    BY <1>3, <1>4, <2>1, <2>2, InsertedIds
  <2>4. rows[i].id \in Ids(rows)
    BY DEF Ids
  <2>5. Part(t, whole)
    BY <1>4, <2>3, <2>4 DEF Part
  <2> QED
    BY <2>5 DEF t
<1> QED
  BY <1>2, <1>5, <1>6 DEF s

LEMMA PartIsPlaced ==
  ASSUME NEW pr, NEW rows, Placed(rows, pr), NEW t, Part(t, Ids(rows))
  PROVE  Placed(t, pr)
BY DEF Part, Placed

\* In a ledger that stands every event has a greater id than those before it.
LEMMA LastIsGreatest ==
  ASSUME NEW a \in Seq(Nat), \A n \in 1..Len(a) : a[n] < n,
         NEW rows, RowsOk(rows, a), StandsIn(rows, a), NEW i \in 1..Len(rows)
  PROVE  rows[i].id <= rows[Len(rows)].id
<1> DEFINE last == rows[Len(rows)].id
           T    == {k \in 1..Len(rows) : rows[k].id > last}
<1>1. Len(rows) \in Nat /\ Len(rows) \in 1..Len(rows) /\ Len(a) \in Nat
  BY DEF RowsOk, IsSeq
<1>2. ASSUME NEW k \in 1..Len(rows)
      PROVE  rows[k].id \in 1..Len(a) /\ rows[k].id \in Nat
  <2>1. EventOk(rows[k], a)
    BY DEF RowsOk
  <2>2. rows[k].id \in 1..Len(a)
    BY <2>1 DEF EventOk
  <2> QED
    BY <1>1, <2>2
<1>3. SUFFICES ASSUME T # {} PROVE FALSE
  <2>1. rows[i].id \in Nat /\ last \in Nat
    BY <1>1, <1>2
  <2>2. T = {} => ~(rows[i].id > last)
    OBVIOUS
  <2> HIDE DEF T, last
  <2>3. T = {} => rows[i].id <= last
    BY <2>1, <2>2
  <2> QED
    BY <2>3 DEF last
<1>4. PICK k \in T : \A y \in T : y <= k
  BY <1>1, <1>3, Greatest
<1>5. k \in 1..Len(rows) /\ rows[k].id > last
  OBVIOUS
<1>6. k # Len(rows)
  BY <1>1, <1>2, <1>5
<1>7. k + 1 \in 1..Len(rows) /\ k + 1 # 1 /\ k + 1 - 1 = k
  BY <1>1, <1>5, <1>6
<1>8. ~(rows[k + 1].id > last)
  <2>1. k + 1 \notin T
    BY <1>4, <1>5, <1>1
  <2> QED
    BY <2>1, <1>7
<1>9. rows[k].id < rows[k + 1].id
  <2>1. a[rows[k + 1].id] = rows[k].id
    BY <1>7 DEF StandsIn
  <2> QED
    BY <2>1, <1>2, <1>7
<1>10. rows[k].id \in Nat /\ rows[k + 1].id \in Nat /\ last \in Nat
  BY <1>1, <1>2, <1>5, <1>7
<1> HIDE DEF last, T
<1> QED
  BY <1>5, <1>8, <1>9, <1>10

\* What verifies with an anchor is what was there when the anchor's event was recorded.
LEMMA AnchoredIsWhole ==
  ASSUME NEW a \in Seq(Nat), \A n \in 1..Len(a) : a[n] < n,
         NEW rows, RowsOk(rows, a), NEW pr, PresentOk(pr), Len(pr) = Len(a), Placed(rows, pr),
         NEW head, AnchorOk(head, pr), head.set, Verifies(rows, head)
  PROVE  Ids(rows) = pr[head.head[1]]
<1>1. PICK n \in 1..Len(pr) : /\ \E x : head.head = EventHash(n, "recorded", x)
                              /\ head.count = Cardinality(pr[n])
  BY DEF AnchorOk
<1>2. head.head[1] = n /\ head.head # Genesis
  BY <1>1 DEF EventHash, Genesis
<1>3. head.count = Len(rows) /\ head.head = LatestEventHash(rows)
  BY DEF Verifies, AnchorMatches
<1>4. IsSeq(rows) /\ Len(rows) \in Nat /\ StandsIn(rows, a)
  BY LinksTellOrder DEF RowsOk, IsSeq
<1>5. rows # <<>>
  BY <1>2, <1>3 DEF LatestEventHash
<1>6. Len(rows) \in 1..Len(rows)
  BY <1>4, <1>5 DEF IsSeq
<1>7. rows[Len(rows)].id = n
  <2>1. EventOk(rows[Len(rows)], a)
    BY <1>6 DEF RowsOk
  <2>2. head.head = rows[Len(rows)].hash
    BY <1>3, <1>5 DEF LatestEventHash, Last
  <2> QED
    BY <1>1, <2>1, <2>2 DEF EventOk, EventHash
<1>8. Ids(rows) \in SUBSET pr[n]
  <2>1. ASSUME NEW m \in Ids(rows) PROVE m \in pr[n]
    <3>1. m <= n
      BY <1>4, <1>7, LastIsGreatest DEF Ids
    <3>2. n \in Ids(rows)
      BY <1>6, <1>7 DEF Ids
    <3> QED
      BY <3>1, <3>2 DEF Placed
  <2> QED
    BY <2>1
<1>9. IsFiniteSet(pr[n])
  BY DEF PresentOk
<1>10. Cardinality(Ids(rows)) = Len(rows)
  BY <1>4, DistinctCount DEF Placed
<1>11. Ids(rows) = pr[n]
  BY <1>1, <1>3, <1>8, <1>9, <1>10, FS_Subset
<1> QED
  BY <1>2, <1>11

LEMMA SameVerdictIsWhole ==
  ASSUME NEW pr, Len(pr) \in Nat, AnchorOk(verdict.anchor, present), VerifiedIsWhole,
         present' = pr, \A n \in 1..Len(present) : pr[n] = present[n], UNCHANGED verdict
  PROVE  VerifiedIsWhole'
<1>1. SUFFICES ASSUME verdict.answer = "valid", verdict.anchor.set
               PROVE  Ids(verdict.rows) = pr[verdict.anchor.head[1]]
  <2>1. (Ids(verdict.rows))' = Ids(verdict.rows)
    BY DEF Ids
  <2> QED
    BY <1>1, <2>1 DEF VerifiedIsWhole
<1>2. PICK n \in 1..Len(present) : \E x : verdict.anchor.head = EventHash(n, "recorded", x)
  BY <1>1 DEF AnchorOk
<1>3. verdict.anchor.head[1] = n
  BY <1>2 DEF EventHash
<1> QED
  BY <1>1, <1>2, <1>3 DEF VerifiedIsWhole

LEMMA RecordKeepsWhole ==
  ASSUME LedgerInv, WholeInv, Record
  PROVE  WholeInv'
<1> DEFINE id       == Len(after) + 1
           previous == LatestEventHash(ledger)
           event    == [id |-> id, says |-> "recorded", previous |-> previous,
                        hash |-> EventHash(id, "recorded", previous)]
<1>1. PICK p \in 1..(Len(ledger) + 1) :
        /\ ledger' = InsertAt(ledger, p, event)
        /\ anchor' = [head |-> event.hash, count |-> Len(ledger'), set |-> TRUE]
        /\ after' = Append(after, IF ledger = <<>> THEN 0 ELSE Last(ledger).id)
        /\ present' = Append(present, Ids(ledger'))
  BY DEF Record, Ids
<1>2. UNCHANGED <<copies, reader, verdict>>
  BY DEF Record
<1>3. event.id = id /\ event.hash = EventHash(id, "recorded", previous)
  OBVIOUS
<1> HIDE DEF event, previous
<1>4. /\ ledger \in Seq(Content(ledger) \cup {event}) /\ Len(ledger) \in Nat
      /\ Len(after) \in Nat /\ \A i \in 1..Len(ledger) : ledger[i].id \in 1..Len(after)
      /\ after \in Seq(Nat)
  <2>1. /\ ledger \in Seq(Content(ledger)) /\ after \in Seq(Nat)
        /\ \A i \in 1..Len(ledger) : EventOk(ledger[i], after)
    BY DEF LedgerInv, RowsOk, IsSeq
  <2>2. ledger \in Seq(Content(ledger) \cup {event})
    BY <2>1
  <2>3. \A i \in 1..Len(ledger) : ledger[i].id \in 1..Len(after)
    BY <2>1 DEF EventOk
  <2> QED
    BY <2>1, <2>2, <2>3
<1>5. \A m \in Ids(ledger) : m \in 1..Len(after)
  BY <1>4 DEF Ids
<1>6. event.id \notin Ids(ledger)
  BY <1>3, <1>4, <1>5
<1>7. /\ ledger' \in Seq(Content(ledger) \cup {event})
      /\ Inserted(ledger', ledger, p, event)
  BY <1>1, <1>4, InsertProperties
<1> DEFINE rows == ledger'
           new  == Ids(rows)
<1>8. Distinct(rows) /\ new \subseteq Ids(ledger) \cup {event.id}
  BY <1>4, <1>6, <1>7, InsertedIds DEF WholeInv, Placed
<1>9. IsSeq(rows)
  BY <1>7, SeqIsSeq
<1>10. IsFiniteSet(new) /\ Cardinality(new) = Len(rows)
  BY <1>8, <1>9, DistinctCount
<1>11. new \in SUBSET Nat
  BY <1>3, <1>4, <1>5, <1>8
<1>12. /\ anchor' = [head |-> event.hash, count |-> Len(rows), set |-> TRUE]
       /\ present' = Append(present, new)
  BY <1>1 DEF Ids
<1> DEFINE pr == Append(present, new)
<1> HIDE DEF new
<1>13. /\ pr \in Seq(SUBSET Nat) /\ Len(pr) = id /\ Len(present) = Len(after)
       /\ pr[id] = new /\ \A n \in 1..Len(present) : pr[n] = present[n]
  BY <1>4, <1>11, AppendProperties DEF WholeInv, PresentOk
<1> HIDE DEF pr
<1>14. PresentOk(pr)
  <2>1. ASSUME NEW n \in 1..Len(pr) PROVE IsFiniteSet(pr[n])
    <3>1. CASE n = id
      BY <3>1, <1>10, <1>13
    <3>2. CASE n # id
      <4>1. n \in 1..Len(present) /\ pr[n] = present[n]
        BY <3>2, <1>4, <1>13
      <4> QED
        BY <4>1 DEF WholeInv, PresentOk
    <3> QED
      BY <3>1, <3>2
  <2> QED
    BY <2>1, <1>13 DEF PresentOk
<1>15. Len(after') = id
  <2>1. (IF ledger = <<>> THEN 0 ELSE Last(ledger).id) \in Nat
    <3>1. ledger # <<>> => Len(ledger) \in 1..Len(ledger)
      BY <1>4
    <3> QED
      BY <3>1, <1>4 DEF Last
  <2> QED
    BY <2>1, <1>1, <1>4, AppendProperties
<1>16. Placed(rows, pr)
  <2>1. ASSUME NEW m \in Ids(rows), NEW n \in Ids(rows), m <= n PROVE m \in pr[n]
    <3>1. CASE n = id
      BY <3>1, <1>13 DEF new
    <3>2. CASE n # id
      <4>1. n \in Ids(ledger) /\ n \in 1..Len(after)
        BY <3>2, <1>3, <1>5, <1>8 DEF new
      <4>2. m \in Ids(ledger)
        <5>1. m # id
          BY <2>1, <4>1, <1>4
        <5> QED
          BY <5>1, <1>3, <1>8 DEF new
      <4> QED
        BY <2>1, <4>1, <4>2, <1>13 DEF WholeInv, Placed
    <3> QED
      BY <3>1, <3>2
  <2> QED
    BY <2>1, <1>8 DEF Placed
<1>17. ASSUME NEW t, NEW c, RowsOk(t, c), c = after, Placed(t, present)
       PROVE  Placed(t, pr)
  <2>1. \A m \in Ids(t) : m \in 1..Len(present)
    BY <1>13, <1>17 DEF Ids, RowsOk, EventOk
  <2> QED
    BY <2>1, <1>13, <1>17 DEF Placed
<1>18. ASSUME NEW a, AnchorOk(a, present) PROVE AnchorOk(a, pr)
  <2>1. 1..Len(present) \subseteq 1..Len(pr)
    BY <1>4, <1>13
  <2> QED
    BY <2>1, <1>13, <1>18 DEF AnchorOk
<1>19. AnchorOk(anchor', pr)
  <2>1. id \in 1..Len(pr)
    BY <1>4, <1>13
  <2>2. anchor'.head = EventHash(id, "recorded", previous) /\ anchor'.count = Cardinality(pr[id])
    BY <1>3, <1>10, <1>12, <1>13
  <2> QED
    BY <2>1, <2>2 DEF AnchorOk
<1>22. present' = pr
  BY <1>12 DEF pr
<1>20. VerifiedIsWhole'
  <2>1. Len(pr) \in Nat /\ AnchorOk(verdict.anchor, present) /\ VerifiedIsWhole
    BY <1>4, <1>13 DEF WholeInv
  <2> QED
    BY <2>1, <1>2, <1>13, <1>22, SameVerdictIsWhole
<1>21. present' = pr /\ Placed(reader.rows, pr) /\ AnchorOk(reader.anchor, pr)
       /\ AnchorOk(verdict.anchor, pr) /\ \A e \in Executor : \A a \in copies[e] : AnchorOk(a, pr)
  BY <1>17, <1>18, <1>22 DEF WholeInv, LedgerInv
<1> QED
  BY <1>2, <1>13, <1>14, <1>15, <1>16, <1>19, <1>20, <1>21 DEF WholeInv

LEMMA ReportKeepsWhole ==
  ASSUME LedgerInv, WholeInv, NEW rows, RowsOk(rows, after), Placed(rows, present),
         NEW head, AnchorOk(head, present), Report(rows, head)
  PROVE  WholeInv'
<1>1. /\ reader' = Idle
      /\ UNCHANGED <<ledger, anchor, after, present, copies>>
      /\ verdict'.answer = (IF Verifies(rows, head) THEN "valid" ELSE "invalid")
      /\ verdict'.rows = rows /\ verdict'.anchor = head
  BY DEF Report
<1>2. VerifiedIsWhole'
  <2>1. Verifies(rows, head) /\ head.set => Ids(rows) = present[head.head[1]]
    BY AnchoredIsWhole DEF LedgerInv, WholeInv
  <2>2. (Ids(verdict.rows))' = Ids(rows)
    BY <1>1 DEF Ids
  <2> QED
    BY <1>1, <2>1, <2>2 DEF VerifiedIsWhole
<1>3. Placed(<<>>, present) /\ AnchorOk(NoAnchor, present)
  BY DEF Placed, Distinct, Ids, AnchorOk, NoAnchor
<1>4. Placed(reader'.rows, present) /\ AnchorOk(reader'.anchor, present)
  BY <1>1, <1>3 DEF Idle
<1> QED
  BY <1>1, <1>2, <1>4 DEF WholeInv

LEMMA WholeInit == Init => WholeInv
<1>1. Placed(<<>>, <<>>) /\ AnchorOk(NoAnchor, <<>>) /\ PresentOk(<<>>)
  BY DEF Placed, Distinct, Ids, AnchorOk, NoAnchor, PresentOk
<1>2. SUFFICES ASSUME Init PROVE WholeInv
  OBVIOUS
<1>3. \A e \in Executor : copies[e] = {}
  BY <1>2 DEF Init, NoCopy
<1> QED
  BY <1>1, <1>2, <1>3 DEF Init, WholeInv, VerifiedIsWhole, Idle, NoVerdict

LEMMA ExecuteKeepsWhole ==
  ASSUME WholeInv, NEW e \in Executor, ExecuteRead(e) \/ ExecuteCommit(e) \/ ExecuteLeaves(e)
  PROVE  WholeInv'
<1>1. UNCHANGED <<ledger, after, present, reader, verdict>>
  BY DEF ExecuteRead, ExecuteCommit, ExecuteLeaves
<1>2. AnchorOk(anchor', present)
  BY DEF ExecuteRead, ExecuteCommit, ExecuteLeaves, WholeInv
<1>3. ASSUME NEW f \in Executor, NEW a \in copies'[f] PROVE AnchorOk(a, present)
  <2>1. a = anchor \/ a \in copies[f]
    BY <1>3 DEF ExecuteRead, ExecuteCommit, ExecuteLeaves, NoCopy, WholeInv
  <2> QED
    BY <2>1 DEF WholeInv
<1>5. DOMAIN copies' = Executor
  BY DEF ExecuteRead, ExecuteCommit, ExecuteLeaves, WholeInv
<1>4. VerifiedIsWhole'
  BY <1>1 DEF WholeInv, VerifiedIsWhole, Ids
<1> QED
  BY <1>1, <1>2, <1>3, <1>4, <1>5 DEF WholeInv

LEMMA WholeStep == LedgerInv /\ WholeInv /\ [Next]_vars => WholeInv'
<1> SUFFICES ASSUME LedgerInv, WholeInv, [Next]_vars PROVE WholeInv'
  OBVIOUS
<1>10. UNCHANGED <<present, verdict>> => VerifiedIsWhole'
  BY DEF WholeInv, VerifiedIsWhole, Ids
<1>1. CASE Record
  BY <1>1, RecordKeepsWhole
<1>2. ASSUME NEW i \in 1..Len(ledger),
             \/ EditEvent(i)
             \/ DeleteEvent(i)
             \/ \E p \in 1..Len(ledger) : RetimeEvent(i, p)
      PROVE  WholeInv'
  <2>1. EventOk(ledger[i], after) /\ IsSeq(ledger) /\ Part(ledger, Ids(ledger))
    BY DEF LedgerInv, RowsOk, WholeInv, Placed, Part
  <2>2. /\ Part([ledger EXCEPT ![i].says = "edited"], Ids(ledger))
        /\ Part(RemoveAt(ledger, i), Ids(ledger))
        /\ \A p \in 1..Len(ledger) : Part(InsertAt(RemoveAt(ledger, i), p, ledger[i]), Ids(ledger))
    BY <2>1, TamperingKeepsPart DEF EventOk
  <2>3. Part(ledger', Ids(ledger))
    BY <1>2, <2>2 DEF EditEvent, DeleteEvent, RetimeEvent
  <2>4. Placed(ledger', present)
    BY <2>3, PartIsPlaced DEF WholeInv
  <2>5. UNCHANGED <<anchor, after, present, copies, reader, verdict>>
    BY <1>2 DEF EditEvent, DeleteEvent, RetimeEvent, Tamper
  <2> QED
    BY <1>10, <2>4, <2>5 DEF WholeInv
<1>3. CASE RouteReadAnchor
  <2>1. Placed(<<>>, present)
    BY DEF Placed, Distinct, Ids
  <2> QED
    BY <1>3, <1>10, <2>1 DEF RouteReadAnchor, FirstRead, WholeInv
<1>4. CASE RouteReport
  BY <1>4, ReportKeepsWhole DEF RouteReport, LedgerInv, WholeInv
<1>5. CASE ScriptReadEvents
  <2>1. AnchorOk(NoAnchor, present)
    BY DEF AnchorOk, NoAnchor
  <2> QED
    BY <1>5, <1>10, <2>1 DEF ScriptReadEvents, FirstRead, WholeInv
<1>6. CASE ScriptReport
  BY <1>6, ReportKeepsWhole DEF ScriptReport, LedgerInv, WholeInv
<1>7. CASE UNCHANGED vars
  BY <1>7, <1>10 DEF WholeInv, vars
<1>8. ASSUME NEW e \in Executor, ExecuteRead(e) \/ ExecuteCommit(e) \/ ExecuteLeaves(e)
      PROVE  WholeInv'
  BY <1>8, ExecuteKeepsWhole
<1> QED
  BY <1>1, <1>2, <1>3, <1>4, <1>5, <1>6, <1>7, <1>8 DEF Next

-----------------------------------------------------------------------------
(* Honest ledgers.                                                         *)

\* An anchor that names the last event recorded agrees with the ledger.
Fits(a) == a.set /\ a.head[1] = Len(after) => AnchorMatches(ledger, a)

HonestInv ==
  /\ tampers \in Nat
  /\ tampers = 0 /\ ~stepped =>
       /\ \A i \in 1..Len(ledger) : Linked(ledger, i)
       /\ Fits(anchor) /\ Fits(reader.anchor)
       /\ \A e \in Executor : \A a \in copies[e] : Fits(a)
       /\ reader.at = "events" /\ ~overlapped => reader.rows = ledger
  /\ HonestVerifies

LEMMA RecordKeepsHonest ==
  ASSUME LedgerInv, WholeInv, HonestInv, Record
  PROVE  HonestInv'
<1> DEFINE id       == Len(after) + 1
           previous == LatestEventHash(ledger)
           event    == [id |-> id, says |-> "recorded", previous |-> previous,
                        hash |-> EventHash(id, "recorded", previous)]
<1>1. PICK p \in 1..(Len(ledger) + 1) :
        /\ ledger' = InsertAt(ledger, p, event)
        /\ anchor' = [head |-> event.hash, count |-> Len(ledger'), set |-> TRUE]
        /\ stepped' = (stepped \/ p <= Len(ledger))
  BY DEF Record
<1>2. /\ overlapped' = (reader.at # "idle")
      /\ UNCHANGED <<copies, tampers, reader, verdict>>
      /\ Len(after') = Len(after) + 1 /\ Len(after) \in Nat
  <2>1. /\ overlapped' = (reader.at # "idle")
        /\ UNCHANGED <<copies, tampers, reader, verdict>>
        /\ \E n : after' = Append(after, n)
    BY DEF Record
  <2>2. Len(after') = Len(present') /\ \E x : present' = Append(present, x)
    BY RecordKeepsWhole DEF Record, WholeInv
  <2>3. present \in Seq(SUBSET Nat) /\ present' \in Seq(SUBSET Nat) /\ Len(present) = Len(after)
    BY RecordKeepsWhole DEF WholeInv, PresentOk
  <2>4. Len(present') = Len(present) + 1 /\ Len(present) \in Nat
    BY <2>2, <2>3
  <2> QED
    BY <2>1, <2>2, <2>3, <2>4
<1>3. ASSUME tampers = 0, ~stepped'
      PROVE  /\ \A i \in 1..Len(ledger') : Linked(ledger', i)
             /\ AnchorMatches(ledger', anchor')
  <2>1. Len(ledger) \in Nat /\ ledger \in Seq(Content(ledger))
    BY DEF LedgerInv, RowsOk, IsSeq
  <2>2. p = Len(ledger) + 1 /\ \A i \in 1..Len(ledger) : Linked(ledger, i)
    <3>1. ~stepped /\ ~(p <= Len(ledger))
      BY <1>1, <1>3, Zenon
    <3>2. p = Len(ledger) + 1
      BY <3>1, <2>1
    <3> QED
      BY <1>3, <3>1, <3>2 DEF HonestInv
  <2> DEFINE S == Content(ledger) \cup {event}
  <2>3. ledger \in Seq(S) /\ event \in S
    BY <2>1
  <2> HIDE DEF S
  <2>4. ledger' \in Seq(S) /\ Inserted(ledger', ledger, p, event)
    BY <1>1, <2>3, InsertProperties
  <2>5. /\ Len(ledger') = Len(ledger) + 1 /\ ledger' # <<>>
        /\ \A i \in 1..Len(ledger) : ledger'[i] = ledger[i]
        /\ ledger'[Len(ledger) + 1] = event
    BY <2>1, <2>2, <2>4 DEF Inserted
  <2>6. event.id = id /\ event.says = "recorded" /\ event.previous = previous
        /\ event.hash = EventHash(id, "recorded", previous)
    OBVIOUS
  <2>7. LatestEventHash(ledger') = event.hash
    BY <2>5 DEF LatestEventHash, Last
  <2>8. previous = (IF Len(ledger) = 0 THEN Genesis ELSE ledger[Len(ledger)].hash)
    BY <2>1 DEF LatestEventHash, Last
  <2> HIDE DEF event, previous, id
  <2>9. ASSUME NEW i \in 1..Len(ledger') PROVE Linked(ledger', i)
    <3>1. CASE i = Len(ledger) + 1
      <4>1. i = 1 <=> Len(ledger) = 0
        BY <3>1, <2>1
      <4>2. i # 1 => ledger'[i - 1] = ledger[Len(ledger)]
        BY <3>1, <2>1, <2>5
      <4> QED
        BY <3>1, <4>1, <4>2, <2>5, <2>6, <2>8 DEF Linked
    <3>2. CASE i # Len(ledger) + 1
      <4>1. i \in 1..Len(ledger) /\ ledger'[i] = ledger[i]
        BY <3>2, <2>1, <2>5
      <4>2. i # 1 => ledger'[i - 1] = ledger[i - 1]
        BY <4>1, <2>1, <2>5
      <4> QED
        BY <4>1, <4>2, <2>2 DEF Linked
    <3> QED
      BY <3>1, <3>2
  <2> QED
    BY <1>1, <2>7, <2>9 DEF AnchorMatches
<1>4. HonestVerifies'
  BY <1>2 DEF HonestInv, HonestVerifies
\* An older anchor names an older event.
<1>5. ASSUME NEW a, AnchorOk(a, present) PROVE a.set => a.head[1] # Len(after')
  <2>1. Len(present) = Len(after)
    BY DEF WholeInv
  <2>2. ASSUME a.set PROVE a.head[1] # Len(after')
    <3>1. PICK n \in 1..Len(present) : \E x : a.head = EventHash(n, "recorded", x)
      BY <1>5, <2>2 DEF AnchorOk
    <3>2. a.head[1] = n
      BY <3>1 DEF EventHash
    <3> QED
      BY <3>2, <1>2, <2>1
  <2> QED
    BY <2>2
<1>6. \A a : AnchorOk(a, present) => (Fits(a))'
  BY <1>5 DEF Fits
<1>7. /\ (Fits(reader.anchor))'
      /\ \A e \in Executor : \A a \in copies'[e] : (Fits(a))'
  BY <1>2, <1>6 DEF WholeInv
<1>8. tampers' = 0 /\ ~stepped' => (Fits(anchor))'
  BY <1>2, <1>3 DEF Fits
<1>9. reader'.at = "events" => overlapped'
  BY <1>2
<1> QED
  BY <1>2, <1>3, <1>4, <1>7, <1>8, <1>9 DEF HonestInv

LEMMA ReportKeepsHonest ==
  ASSUME HonestInv, NEW rows, NEW head, Report(rows, head),
         tampers = 0 /\ ~stepped /\ ~overlapped => rows = ledger /\ Fits(head)
  PROVE  HonestInv'
<1>1. /\ reader' = Idle
      /\ UNCHANGED <<ledger, anchor, after, copies, tampers, stepped>>
      /\ verdict'.answer = (IF Verifies(rows, head) THEN "valid" ELSE "invalid")
      /\ verdict'.honest = (tampers = 0 /\ ~stepped)
      /\ verdict'.overlapped = overlapped
      /\ verdict'.behind = Behind(head)
  BY DEF Report
<1>2. tampers = 0 /\ ~stepped /\ ~overlapped /\ ~Behind(head) => Verifies(rows, head)
  BY DEF HonestInv, Verifies, Behind, Fits, AnchorMatches
<1>3. HonestVerifies'
  BY <1>1, <1>2 DEF HonestVerifies
<1>4. (Fits(reader.anchor))' /\ reader'.at # "events"
  BY <1>1 DEF Fits, Idle, NoAnchor
<1>5. tampers = 0 /\ ~stepped =>
        (Fits(anchor))' /\ \A e \in Executor : \A a \in copies[e] : (Fits(a))'
  BY <1>1 DEF HonestInv, Fits
<1> QED
  BY <1>1, <1>3, <1>4, <1>5 DEF HonestInv

LEMMA HonestInit == Init => HonestInv
<1> SUFFICES ASSUME Init PROVE HonestInv
  OBVIOUS
<1>1. \A e \in Executor : copies[e] = {}
  BY DEF Init, NoCopy
<1> QED
  BY <1>1 DEF Init, HonestInv, HonestVerifies, Idle, NoVerdict, Fits, NoAnchor

LEMMA ExecuteKeepsHonest ==
  ASSUME WholeInv, HonestInv, NEW e \in Executor, ExecuteRead(e) \/ ExecuteCommit(e) \/ ExecuteLeaves(e)
  PROVE  HonestInv'
<1>1. UNCHANGED <<ledger, after, tampers, stepped, reader, overlapped, verdict>>
  BY DEF ExecuteRead, ExecuteCommit, ExecuteLeaves
<1>2. anchor' = anchor \/ anchor' \in copies[e]
  BY DEF ExecuteRead, ExecuteCommit, ExecuteLeaves
<1>3. \A f \in Executor : \A a \in copies'[f] : a = anchor \/ a \in copies[f]
  BY DEF ExecuteRead, ExecuteCommit, ExecuteLeaves, NoCopy, WholeInv
<1>4. \A a : Fits(a) => (Fits(a))'
  BY <1>1 DEF Fits
<1>5. tampers = 0 /\ ~stepped =>
        /\ (Fits(anchor))' /\ (Fits(reader.anchor))'
        /\ \A f \in Executor : \A a \in copies'[f] : (Fits(a))'
  <2>1. ASSUME tampers = 0, ~stepped PROVE Fits(anchor') /\ \A f \in Executor : \A a \in copies'[f] : Fits(a)
    BY <1>2, <1>3, <2>1 DEF HonestInv
  <2>2. ASSUME tampers = 0, ~stepped PROVE Fits(reader.anchor)
    BY <2>2 DEF HonestInv
  <2> QED
    BY <1>1, <2>1, <2>2 DEF Fits
<1> QED
  BY <1>1, <1>5 DEF HonestInv, HonestVerifies

LEMMA HonestStep == LedgerInv /\ WholeInv /\ HonestInv /\ [Next]_vars => HonestInv'
<1> SUFFICES ASSUME LedgerInv, WholeInv, HonestInv, [Next]_vars PROVE HonestInv'
  OBVIOUS
<1>1. CASE Record
  BY <1>1, RecordKeepsHonest
<1>2. ASSUME NEW i \in 1..Len(ledger),
             \/ EditEvent(i)
             \/ DeleteEvent(i)
             \/ \E p \in 1..Len(ledger) : RetimeEvent(i, p)
      PROVE  HonestInv'
  <2>1. tampers' = tampers + 1 /\ UNCHANGED verdict
    BY <1>2 DEF EditEvent, DeleteEvent, RetimeEvent, Tamper
  <2>2. tampers' \in Nat /\ tampers' # 0
    BY <2>1 DEF HonestInv
  <2> QED
    BY <2>1, <2>2 DEF HonestInv, HonestVerifies
<1>3. CASE RouteReadAnchor
  BY <1>3 DEF RouteReadAnchor, FirstRead, HonestInv, HonestVerifies, Fits
<1>4. CASE RouteReport
  BY <1>4, ReportKeepsHonest DEF RouteReport, HonestInv
<1>5. CASE ScriptReadEvents
  BY <1>5 DEF ScriptReadEvents, FirstRead, HonestInv, HonestVerifies, Fits, NoAnchor
<1>6. CASE ScriptReport
  BY <1>6, ReportKeepsHonest DEF ScriptReport, HonestInv
<1>7. CASE UNCHANGED vars
  BY <1>7 DEF HonestInv, HonestVerifies, Fits, vars
<1>8. ASSUME NEW e \in Executor, ExecuteRead(e) \/ ExecuteCommit(e) \/ ExecuteLeaves(e)
      PROVE  HonestInv'
  BY <1>8, ExecuteKeepsHonest
<1> QED
  BY <1>1, <1>2, <1>3, <1>4, <1>5, <1>6, <1>7, <1>8 DEF Next

-----------------------------------------------------------------------------
(* Theorems.                                                               *)

\* VerifiedRowsAlwaysStand: for any number of events, edits, deletions and moves, a
\* ledger that verifies holds only what was recorded, each event directly after the
\* event it was recorded after.
THEOREM VerifiedRowsAlwaysStand == Spec => []VerifiedRowsStand
<1>1. LedgerInv => VerifiedRowsStand
  BY DEF LedgerInv, StandsIn, VerifiedRowsStand
<1> QED
  BY <1>1, LedgerInvInit, LedgerInvStep, PTL DEF Spec

\* HonestAlwaysVerifies: for any number of events and executes, neither reader raises
\* a false alarm about a ledger that nobody changed and that the clock kept in order,
\* if nothing was recorded between the reads and the anchor read names the last
\* event; an execute that wrote an older anchor back is the one other cause.
THEOREM HonestAlwaysVerifies == Spec => []HonestVerifies
<1>1. HonestInv => HonestVerifies
  BY DEF HonestInv
<1> QED
  BY <1>1, LedgerInvInit, LedgerInvStep, WholeInit, WholeStep, HonestInit, HonestStep, PTL DEF Spec

\* VerifiedIsAlwaysWhole: for any number of events, executes, edits, deletions and
\* moves, for either reader and whatever happens between its reads, a ledger that
\* verifies against an anchor has exactly the events that were there when the event
\* the anchor names was recorded, also when an execute wrote that anchor back.
THEOREM VerifiedIsAlwaysWhole == Spec => []VerifiedIsWhole
<1>1. WholeInv => VerifiedIsWhole
  BY DEF WholeInv
<1> QED
  BY <1>1, LedgerInvInit, LedgerInvStep, WholeInit, WholeStep, PTL DEF Spec
=============================================================================
