--------------------------- MODULE ApiLimitsProofs ---------------------------
(***************************************************************************)
(* The rate limiter for every limit, window, set of callers and number of  *)
(* calls: it admits at most Limit calls of a source in any window, and it  *)
(* implements the limiter that remembers every admission.                  *)
(***************************************************************************)
EXTENDS ApiLimits, SequenceTheorems, WellFoundedInduction, TLAPS

-----------------------------------------------------------------------------
(* Type correctness of the part of the state that the limiter uses.        *)

LimiterTypes ==
  /\ now \in Nat
  /\ hits \in [Key -> Seq(Nat)]
  /\ admitted \in [Source -> Seq(Nat)]
  /\ refused \in [Source -> Nat]
  /\ \A c \in Connection : pc[c] = "limit" => who[c] \in Caller
  /\ pc \in [Connection -> Places]
  /\ who \in [Connection -> Caller \cup {Nobody}]
  /\ \A c \in Connection : pc[c] # "idle" => who[c] \in Caller

LEMMA WindowIsNat == WindowTicks \in Nat /\ Limit \in Nat /\ Limit > 0
BY LimitsAssumption DEF WindowTicks

LEMMA SourceIsKey ==
  ASSUME NEW caller \in Caller
  PROVE  ClientKey(caller) = SourceOf(caller) /\ SourceOf(caller) \in Source
BY DEF ClientKey, SourceOf, Source

LEMMA SourcesAreKeys == Source \subseteq Key
<1> SUFFICES ASSUME NEW caller \in Caller PROVE SourceOf(caller) \in Key
  BY DEF Source
<1>1. CASE caller.verified /\ caller.header # NoHeader
  BY <1>1 DEF SourceOf, Key
<1>2. CASE ~(caller.verified /\ caller.header # NoHeader)
  BY <1>2 DEF SourceOf, Key
<1> QED
  BY <1>1, <1>2

\* The popleft loop ends: a first hit that stays, or the end of the deque.
LEMMA ExpiredExists ==
  ASSUME now \in Nat, NEW h \in Seq(Nat)
  PROVE  /\ Expired(h) \in 0..Len(h)
         /\ \A i \in 1..Expired(h) : h[i] + WindowTicks <= now
         /\ Expired(h) < Len(h) => h[Expired(h) + 1] + WindowTicks > now
<1> DEFINE Good(n) == /\ \A i \in 1..n : h[i] + WindowTicks <= now
                      /\ n < Len(h) => h[n + 1] + WindowTicks > now
           Fresh == {i \in 1..Len(h) : h[i] + WindowTicks > now}
<1>0. Len(h) \in Nat /\ \A i \in 1..Len(h) : h[i] \in Nat
  OBVIOUS
<1>1. \E n \in 0..Len(h) : Good(n)
  <2>1. CASE Fresh = {}
    <3>1. ASSUME NEW i \in 1..Len(h) PROVE h[i] + WindowTicks <= now
      <4>1. h[i] \in Nat /\ ~(h[i] + WindowTicks > now)
        BY <2>1, <1>0
      <4> QED
        BY <4>1, WindowIsNat
    <3>2. Good(Len(h))
      BY <3>1, <1>0
    <3> QED
      BY <3>2, <1>0
  <2>2. CASE Fresh # {}
    <3>1. Fresh \subseteq Nat
      BY <1>0
    <3>2. PICK x \in Fresh : \A y \in Fresh : ~(<<y, x>> \in OpToRel(<, Nat))
      BY <2>2, <3>1, WFMin, NatLessThanWellFounded
    <3>3. \A y \in Fresh : ~(y < x)
      BY <3>1, <3>2 DEF OpToRel
    <3>4. x \in 1..Len(h) /\ h[x] + WindowTicks > now
      OBVIOUS
    <3>5. ASSUME NEW i \in 1..(x - 1) PROVE h[i] + WindowTicks <= now
      <4>1. i \in 1..Len(h) /\ i < x
        BY <3>4, <1>0
      <4>2. i \notin Fresh
        BY <4>1, <3>3
      <4>3. h[i] \in Nat /\ ~(h[i] + WindowTicks > now)
        BY <4>1, <4>2, <1>0
      <4> QED
        BY <4>3, WindowIsNat
    <3>6. x - 1 + 1 = x /\ x - 1 \in 0..Len(h)
      BY <3>4, <1>0
    <3>7. Good(x - 1)
      BY <3>4, <3>5, <3>6
    <3> QED
      BY <3>6, <3>7
  <2> QED
    BY <2>1, <2>2
<1>2. Expired(h) = CHOOSE n \in 0..Len(h) : Good(n)
  BY DEF Expired
<1>3. Expired(h) \in 0..Len(h) /\ Good(Expired(h))
  BY <1>1, <1>2
<1> QED
  BY <1>3

\* What the loop leaves is the rest of the deque.
LEMMA RemainingProperties ==
  ASSUME now \in Nat, NEW h \in Seq(Nat)
  PROVE  /\ Remaining(h) \in Seq(Nat)
         /\ Len(Remaining(h)) = Len(h) - Expired(h)
         /\ \A i \in 1..Len(Remaining(h)) : Remaining(h)[i] = h[i + Expired(h)]
<1>1. Expired(h) \in 0..Len(h) /\ Len(h) \in Nat
  BY ExpiredExists
<1>2. \A i \in (Expired(h) + 1)..Len(h) : h[i] \in Nat
  BY <1>1
<1>3. /\ SubSeq(h, Expired(h) + 1, Len(h)) \in Seq(Nat)
      /\ Len(SubSeq(h, Expired(h) + 1, Len(h)))
           = IF Expired(h) + 1 <= Len(h) THEN Len(h) - (Expired(h) + 1) + 1 ELSE 0
      /\ \A i \in 1..(Len(h) - (Expired(h) + 1) + 1) :
           SubSeq(h, Expired(h) + 1, Len(h))[i] = h[Expired(h) + 1 + i - 1]
  <2>1. Expired(h) + 1 \in Int /\ Len(h) \in Int
    BY <1>1
  <2> QED
    BY ONLY <2>1, <1>2, SubSeqProperties
<1>4. Len(Remaining(h)) = Len(h) - Expired(h)
  BY <1>1, <1>3 DEF Remaining
<1>5. \A i \in 1..Len(Remaining(h)) : Remaining(h)[i] = h[i + Expired(h)]
  BY <1>1, <1>3, <1>4 DEF Remaining
<1> QED
  BY <1>3, <1>4, <1>5 DEF Remaining

-----------------------------------------------------------------------------
(* The inductive invariant: the deque of a source is the end of its        *)
(* history, and what the deque has forgotten is at least a window old.     *)

\* h is the end of a, and at time t the part of a before it has expired.
EndOf(h, a, t) ==
  /\ Len(h) <= Len(a)
  /\ \A i \in 1..Len(h) : h[i] = a[Len(a) - Len(h) + i]
  /\ \A i \in 1..(Len(a) - Len(h)) : a[i] + WindowTicks <= t

\* The times of a never decrease, and none is after t.
Ordered(a, t) ==
  /\ \A i \in 1..Len(a) : a[i] <= t
  /\ \A i, j \in 1..Len(a) : i <= j => a[i] <= a[j]

LimiterInv ==
  /\ LimiterTypes
  /\ \A s \in Source : EndOf(hits[s], admitted[s], now) /\ Ordered(admitted[s], now)
  /\ WindowHolds

\* After the loop the deque still is the end of the history, and it is full
\* exactly when the history says so.
LEMMA LoopKeepsEnd ==
  ASSUME LimiterInv, NEW s \in Source
  PROVE  /\ Remaining(hits[s]) \in Seq(Nat)
         /\ EndOf(Remaining(hits[s]), admitted[s], now)
         /\ OverLimit(Remaining(hits[s])) <=> SW!Full(s)
<1> DEFINE h == hits[s]
           a == admitted[s]
           r == Remaining(h)
           e == Expired(h)
<1>1. h \in Seq(Nat) /\ a \in Seq(Nat) /\ now \in Nat
  BY SourcesAreKeys DEF LimiterInv, LimiterTypes
<1>2. EndOf(h, a, now) /\ Ordered(a, now)
  BY DEF LimiterInv
<1>3. Len(h) \in Nat /\ Len(a) \in Nat /\ \A i \in 1..Len(a) : a[i] \in Nat
  BY <1>1
<1>4. /\ e \in 0..Len(h)
      /\ \A i \in 1..e : h[i] + WindowTicks <= now
      /\ e < Len(h) => h[e + 1] + WindowTicks > now
  BY <1>1, ExpiredExists
<1>5. /\ r \in Seq(Nat)
      /\ Len(r) = Len(h) - e
      /\ \A i \in 1..Len(r) : r[i] = h[i + e]
  BY <1>1, RemainingProperties
<1> HIDE DEF h, a, r, e
<1>6. Len(r) \in Nat /\ Len(a) - Len(r) \in Nat /\ Len(r) <= Len(a)
  BY <1>2, <1>3, <1>4, <1>5 DEF EndOf
<1>7. \A i \in 1..Len(r) : r[i] = a[Len(a) - Len(r) + i]
  BY <1>2, <1>3, <1>4, <1>5 DEF EndOf
<1>8. \A i \in 1..(Len(a) - Len(r)) : a[i] + WindowTicks <= now
  <2> SUFFICES ASSUME NEW i \in 1..(Len(a) - Len(r)) PROVE a[i] + WindowTicks <= now
    OBVIOUS
  <2>1. CASE i <= Len(a) - Len(h)
    BY <2>1, <1>2, <1>3 DEF EndOf
  <2>2. CASE i > Len(a) - Len(h)
    <3>1. i - (Len(a) - Len(h)) \in 1..e
      BY <2>2, <1>3, <1>4, <1>5, <1>2, <1>6 DEF EndOf
    <3>2. h[i - (Len(a) - Len(h))] = a[Len(a) - Len(h) + (i - (Len(a) - Len(h)))]
      BY <3>1, <1>2, <1>3, <1>4 DEF EndOf
    <3>3. Len(a) - Len(h) + (i - (Len(a) - Len(h))) = i
      BY <1>3
    <3> QED
      BY <3>1, <3>2, <3>3, <1>4
  <2> QED
    BY <2>1, <2>2, <1>3, <1>6
<1>9. \A i \in 1..Len(r) : a[Len(a) - Len(r) + i] + WindowTicks > now
  <2> SUFFICES ASSUME NEW i \in 1..Len(r)
               PROVE  a[Len(a) - Len(r) + i] + WindowTicks > now
    OBVIOUS
  <2>1. h[e + 1] + WindowTicks > now /\ e < Len(h)
    BY <1>3, <1>4, <1>5
  <2>2. r[1] = h[e + 1] /\ r[1] = a[Len(a) - Len(r) + 1]
    BY <1>3, <1>4, <1>5, <1>6, <1>7
  <2>3. a[Len(a) - Len(r) + 1] <= a[Len(a) - Len(r) + i]
    BY <1>2, <1>3, <1>6 DEF Ordered
  <2>4. /\ Len(a) - Len(r) + 1 \in 1..Len(a)
        /\ Len(a) - Len(r) + i \in 1..Len(a)
    BY <1>3, <1>6
  <2>5. /\ a[Len(a) - Len(r) + 1] \in Nat /\ a[Len(a) - Len(r) + i] \in Nat
        /\ WindowTicks \in Nat /\ now \in Nat
    BY <2>4, <1>1, <1>3, WindowIsNat
  <2>6. a[Len(a) - Len(r) + 1] + WindowTicks > now
    BY <2>1, <2>2
  <2> QED
    BY ONLY <2>3, <2>5, <2>6
<1>10. (Len(r) >= Limit)
       <=> (Len(a) >= Limit /\ a[Len(a) - Limit + 1] + WindowTicks > now)
  <2>1. CASE Len(r) >= Limit
    <3>1. Limit - Len(r) <= 0 /\ Len(r) - Limit + 1 \in 1..Len(r)
      BY <2>1, <1>6, WindowIsNat
    <3>2. Len(a) - Len(r) + (Len(r) - Limit + 1) = Len(a) - Limit + 1
      BY <1>3, <1>6, WindowIsNat
    <3>3. a[Len(a) - Limit + 1] + WindowTicks > now
      BY <3>1, <3>2, <1>9
    <3>4. Len(a) >= Limit
      BY <2>1, <1>3, <1>6, WindowIsNat
    <3> QED
      BY <2>1, <3>3, <3>4
  <2>2. CASE ~(Len(r) >= Limit)
    <3>1. Len(a) >= Limit => a[Len(a) - Limit + 1] + WindowTicks <= now
      BY <2>2, <1>8, <1>6, <1>3, WindowIsNat
    <3>2. Len(a) >= Limit => a[Len(a) - Limit + 1] \in Nat
      BY <1>3, WindowIsNat
    <3> QED
      BY <2>2, <3>1, <3>2, <1>1, WindowIsNat
  <2> QED
    BY <2>1, <2>2
<1>11. OverLimit(r) <=> SW!Full(s)
  BY <1>10 DEF OverLimit, SW!Full, a
<1> QED
  BY <1>5, <1>6, <1>7, <1>8, <1>11 DEF EndOf, r, h, a

-----------------------------------------------------------------------------
(* Preservation.                                                           *)

LEMMA LimiterInit == Init => LimiterInv
<1> SUFFICES ASSUME Init PROVE LimiterInv
  OBVIOUS
<1>1. LimiterTypes
  BY DEF Init, LimiterTypes, Places
<1>2. \A s \in Source : hits[s] = <<>> /\ admitted[s] = <<>>
  BY SourcesAreKeys DEF Init
<1>3. EndOf(<<>>, <<>>, now) /\ Ordered(<<>>, now)
  BY DEF EndOf, Ordered
<1>4. WindowHolds
  BY <1>2 DEF WindowHolds
<1> QED
  BY <1>1, <1>2, <1>3, <1>4 DEF LimiterInv

\* Steps that neither admit, refuse nor let time pass.
LEMMA StepsBeside ==
  ASSUME LimiterInv, NEW c \in Connection,
         \/ \E caller \in Caller : Open(c, caller)
         \/ \E m \in Messages : ReceiveBody(c, m)
         \/ HandlerRead(c)
         \/ HandlerAnswer(c)
  PROVE  LimiterInv' /\ UNCHANGED <<now, hits, admitted, refused>>
<1>1. UNCHANGED <<now, hits, admitted, refused>>
  BY DEF Open, ReceiveBody, HandlerRead, HandlerAnswer
<1>2. /\ pc' \in [Connection -> Places]
      /\ who' \in [Connection -> Caller \cup {Nobody}]
      /\ \A d \in Connection : pc'[d] # "idle" => who'[d] \in Caller
  BY DEF LimiterInv, LimiterTypes, Open, ReceiveBody, HandlerRead, HandlerAnswer,
         Answer, Places
<1>3. LimiterTypes'
  BY <1>1, <1>2 DEF LimiterInv, LimiterTypes
<1> QED
  BY <1>1, <1>3 DEF LimiterInv, WindowHolds

LEMMA TimePasses ==
  ASSUME NEW h \in Seq(Nat), NEW a \in Seq(Nat), NEW t \in Nat, NEW u \in Nat, t < u,
         EndOf(h, a, t), Ordered(a, t)
  PROVE  EndOf(h, a, u) /\ Ordered(a, u)
<1>1. /\ \A i \in 1..Len(a) : a[i] \in Nat
      /\ Len(a) \in Nat /\ Len(h) \in Nat
  OBVIOUS
<1>2. \A i \in 1..Len(a) : a[i] <= u
  <2> SUFFICES ASSUME NEW i \in 1..Len(a) PROVE a[i] <= u
    OBVIOUS
  <2>1. a[i] \in Nat /\ a[i] <= t
    BY <1>1 DEF Ordered
  <2> QED
    BY <2>1
<1>3. \A i \in 1..(Len(a) - Len(h)) : a[i] + WindowTicks <= u
  <2> SUFFICES ASSUME NEW i \in 1..(Len(a) - Len(h)) PROVE a[i] + WindowTicks <= u
    OBVIOUS
  <2>1. a[i] + WindowTicks <= t /\ i \in 1..Len(a)
    BY <1>1 DEF EndOf
  <2>2. a[i] \in Nat /\ WindowTicks \in Nat
    BY <2>1, <1>1, WindowIsNat
  <2> QED
    BY <2>1, <2>2
<1> QED
  BY <1>2, <1>3 DEF EndOf, Ordered

LEMMA TickStep ==
  ASSUME LimiterInv, Tick
  PROVE  LimiterInv' /\ now' > now /\ UNCHANGED <<hits, admitted, refused>>
<1>1. now' > now /\ now' \in Nat /\ now \in Nat
      /\ UNCHANGED <<hits, pc, who, admitted, refused>>
  BY DEF Tick, LimiterInv, LimiterTypes
<1>2. LimiterTypes'
  BY <1>1 DEF LimiterInv, LimiterTypes
<1>3. ASSUME NEW s \in Source
      PROVE  EndOf(hits'[s], admitted'[s], now') /\ Ordered(admitted'[s], now')
  <2>1. admitted[s] \in Seq(Nat) /\ hits[s] \in Seq(Nat)
    BY SourcesAreKeys DEF LimiterInv, LimiterTypes
  <2>2. EndOf(hits[s], admitted[s], now) /\ Ordered(admitted[s], now)
    BY DEF LimiterInv
  <2> QED
    BY <1>1, <2>1, <2>2, TimePasses
<1> QED
  BY <1>1, <1>2, <1>3 DEF LimiterInv, WindowHolds

LEMMA RefuseStep ==
  ASSUME LimiterInv, NEW c \in Connection, Refuse(c)
  PROVE  LimiterInv' /\ \E s \in Source : SW!Refuse(s)
<1> DEFINE k == SourceOf(who[c])
           r == Remaining(hits[k])
<1>1. who[c] \in Caller
  BY DEF Refuse, LimiterInv, LimiterTypes
<1>2. k = ClientKey(who[c]) /\ k \in Source /\ k \in Key
  BY <1>1, SourceIsKey, SourcesAreKeys
<1>3. /\ r \in Seq(Nat)
      /\ EndOf(r, admitted[k], now)
      /\ OverLimit(r) <=> SW!Full(k)
  BY <1>2, LoopKeepsEnd
<1>4. /\ OverLimit(r)
      /\ hits' = [hits EXCEPT ![k] = r]
      /\ refused' = [refused EXCEPT ![k] = @ + 1]
      /\ UNCHANGED <<now, admitted>>
  BY <1>2 DEF Refuse
<1> HIDE DEF k, r
<1>5. LimiterTypes'
  <2>1. /\ hits' \in [Key -> Seq(Nat)] /\ refused' \in [Source -> Nat]
        /\ now' \in Nat /\ admitted' \in [Source -> Seq(Nat)]
    BY <1>2, <1>3, <1>4 DEF LimiterInv, LimiterTypes
  <2>2. /\ pc' \in [Connection -> Places]
        /\ who' \in [Connection -> Caller \cup {Nobody}]
        /\ \A d \in Connection : pc'[d] # "idle" => who'[d] \in Caller
    BY DEF LimiterInv, LimiterTypes, Refuse, Answer, Places
  <2> QED
    BY <2>1, <2>2 DEF LimiterTypes
<1>6. ASSUME NEW s \in Source
      PROVE  EndOf(hits'[s], admitted'[s], now') /\ Ordered(admitted'[s], now')
  <2>1. EndOf(hits[s], admitted[s], now) /\ Ordered(admitted[s], now)
    BY DEF LimiterInv
  <2>2. hits'[s] = IF s = k THEN r ELSE hits[s]
    BY <1>2, <1>4, SourcesAreKeys DEF LimiterInv, LimiterTypes
  <2>3. admitted' = admitted /\ now' = now
    BY <1>4
  <2>4. CASE s = k
    BY <2>1, <2>2, <2>3, <2>4, <1>3
  <2>5. CASE s # k
    BY <2>1, <2>2, <2>3, <2>5
  <2> QED
    BY <2>4, <2>5
<1>7. WindowHolds'
  BY <1>4 DEF WindowHolds, LimiterInv
<1>8. SW!Refuse(k)
  BY <1>3, <1>4 DEF SW!Refuse
<1> QED
  BY <1>2, <1>5, <1>6, <1>7, <1>8 DEF LimiterInv

LEMMA AdmitStep ==
  ASSUME LimiterInv, NEW c \in Connection, Admit(c)
  PROVE  LimiterInv' /\ \E s \in Source : SW!Admit(s)
<1> DEFINE k == SourceOf(who[c])
           r == Remaining(hits[k])
           a == admitted[k]
<1>1. who[c] \in Caller
  BY DEF Admit, LimiterInv, LimiterTypes
<1>2. k = ClientKey(who[c]) /\ k \in Source /\ k \in Key
  BY <1>1, SourceIsKey, SourcesAreKeys
<1>3. /\ r \in Seq(Nat)
      /\ EndOf(r, a, now)
      /\ OverLimit(r) <=> SW!Full(k)
  BY <1>2, LoopKeepsEnd
<1>4. /\ ~OverLimit(r)
      /\ hits' = [hits EXCEPT ![k] = Append(r, now)]
      /\ admitted' = [admitted EXCEPT ![k] = Append(@, now)]
      /\ UNCHANGED <<now, refused>>
  BY <1>2 DEF Admit
<1>5. /\ a \in Seq(Nat) /\ now \in Nat /\ Ordered(a, now)
      /\ \A i \in 1..Len(a) : i + Limit <= Len(a) => a[i + Limit] >= a[i] + WindowTicks
  BY <1>2 DEF LimiterInv, LimiterTypes, WindowHolds
<1>6. ~SW!Full(k)
  BY <1>3, <1>4
<1>7. ~(Len(a) >= Limit /\ a[Len(a) - Limit + 1] + WindowTicks > now)
  BY <1>6 DEF SW!Full
<1>8. /\ hits'[k] = Append(r, now) /\ admitted'[k] = Append(a, now)
      /\ \A s \in Source : s # k => hits'[s] = hits[s] /\ admitted'[s] = admitted[s]
  BY <1>2, <1>4, SourcesAreKeys DEF LimiterInv, LimiterTypes
<1> HIDE DEF k, r, a
<1>9. /\ Append(a, now) \in Seq(Nat)
      /\ Len(Append(a, now)) = Len(a) + 1
      /\ \A i \in 1..Len(a) : Append(a, now)[i] = a[i]
      /\ Append(a, now)[Len(a) + 1] = now
      /\ Len(a) \in Nat
      /\ \A i \in 1..Len(a) : a[i] \in Nat
  BY <1>5, AppendProperties
<1>10. /\ Append(r, now) \in Seq(Nat)
       /\ Len(Append(r, now)) = Len(r) + 1
       /\ \A i \in 1..Len(r) : Append(r, now)[i] = r[i]
       /\ Append(r, now)[Len(r) + 1] = now
       /\ Len(r) \in Nat
  BY <1>3, <1>5, AppendProperties
<1>11. LimiterTypes'
  <2>1. /\ hits' \in [Key -> Seq(Nat)] /\ refused' \in [Source -> Nat]
        /\ now' \in Nat
    BY <1>2, <1>4, <1>10 DEF LimiterInv, LimiterTypes
  <2>2. admitted' \in [Source -> Seq(Nat)]
    BY <1>2, <1>4, <1>9 DEF LimiterInv, LimiterTypes, a
  <2>3. /\ pc' \in [Connection -> Places]
        /\ who' \in [Connection -> Caller \cup {Nobody}]
        /\ \A d \in Connection : pc'[d] # "idle" => who'[d] \in Caller
    BY DEF LimiterInv, LimiterTypes, Admit, Places
  <2> QED
    BY <2>1, <2>2, <2>3 DEF LimiterTypes
<1>12. EndOf(Append(r, now), Append(a, now), now)
  <2>1. Len(Append(r, now)) <= Len(Append(a, now))
    BY <1>3, <1>9, <1>10 DEF EndOf
  <2>2. \A i \in 1..Len(Append(r, now)) :
          Append(r, now)[i]
            = Append(a, now)[Len(Append(a, now)) - Len(Append(r, now)) + i]
    <3>0. Len(Append(a, now)) - Len(Append(r, now)) = Len(a) - Len(r)
      BY <1>9, <1>10
    <3> SUFFICES ASSUME NEW i \in 1..(Len(r) + 1)
                 PROVE  Append(r, now)[i] = Append(a, now)[Len(a) - Len(r) + i]
      BY <3>0, <1>10
    <3>1. CASE i = Len(r) + 1
      BY <3>1, <1>9, <1>10
    <3>2. CASE i # Len(r) + 1
      <4>1. i \in 1..Len(r) /\ Len(a) - Len(r) + i \in 1..Len(a)
        BY <3>2, <1>3, <1>9, <1>10 DEF EndOf
      <4> QED
        BY <4>1, <1>3, <1>9, <1>10 DEF EndOf
    <3> QED
      BY <3>1, <3>2
  <2>3. \A i \in 1..(Len(Append(a, now)) - Len(Append(r, now))) :
          Append(a, now)[i] + WindowTicks <= now
    BY <1>3, <1>9, <1>10 DEF EndOf
  <2> QED
    BY <2>1, <2>2, <2>3 DEF EndOf
<1>13. Ordered(Append(a, now), now)
  BY <1>5, <1>9 DEF Ordered
<1>14. ASSUME NEW s \in Source
       PROVE  EndOf(hits'[s], admitted'[s], now') /\ Ordered(admitted'[s], now')
  <2>1. EndOf(hits[s], admitted[s], now) /\ Ordered(admitted[s], now)
    BY DEF LimiterInv
  <2>2. CASE s = k
    BY <2>2, <1>4, <1>8, <1>12, <1>13
  <2>3. CASE s # k
    BY <2>1, <2>3, <1>4, <1>8
  <2> QED
    BY <2>2, <2>3
<1>15. WindowHolds'
  <2> SUFFICES ASSUME NEW s \in Source, NEW i \in 1..Len(admitted'[s]),
                      i + Limit <= Len(admitted'[s])
               PROVE  admitted'[s][i + Limit] >= admitted'[s][i] + WindowTicks
    BY DEF WindowHolds, WindowTicks
  <2>1. CASE s # k
    BY <2>1, <1>8 DEF LimiterInv, WindowHolds
  <2>2. CASE s = k
    <3>1. i \in 1..(Len(a) + 1) /\ i + Limit <= Len(a) + 1
      BY <2>2, <1>8, <1>9
    <3>2. i \in 1..Len(a) /\ Append(a, now)[i] = a[i]
      BY <3>1, <1>9, WindowIsNat
    <3>3. CASE i + Limit <= Len(a)
      <4>1. i + Limit \in 1..Len(a)
        BY <3>2, <3>3, <1>9, WindowIsNat
      <4>2. Append(a, now)[i + Limit] = a[i + Limit]
        BY <4>1, <1>9
      <4>3. a[i + Limit] >= a[i] + WindowTicks
        BY <3>2, <3>3, <1>5
      <4> QED
        BY <2>2, <3>2, <4>2, <4>3, <1>8
    <3>4. CASE i + Limit = Len(a) + 1
      <4>1. i = Len(a) - Limit + 1 /\ Len(a) >= Limit
        BY <3>1, <3>4, <1>9, WindowIsNat
      <4>2. a[i] + WindowTicks <= now
        BY <4>1, <3>2, <1>5, <1>7, <1>9, WindowIsNat
      <4> QED
        BY <2>2, <3>2, <3>4, <4>2, <1>5, <1>8, <1>9, WindowIsNat
    <3> QED
      BY <3>1, <3>3, <3>4, <1>9, WindowIsNat
  <2> QED
    BY <2>1, <2>2
<1>16. SW!Admit(k)
  BY <1>4, <1>6 DEF SW!Admit
<1> QED
  BY <1>2, <1>11, <1>14, <1>15, <1>16 DEF LimiterInv, k

LEMMA LimiterStep == LimiterInv /\ [Next]_vars => LimiterInv' /\ [SW!Next]_SW!vars
<1> SUFFICES ASSUME LimiterInv, [Next]_vars PROVE LimiterInv' /\ [SW!Next]_SW!vars
  OBVIOUS
<1>1. ASSUME NEW c \in Connection,
             \/ \E caller \in Caller : Open(c, caller)
             \/ \E m \in Messages : ReceiveBody(c, m)
             \/ HandlerRead(c)
             \/ HandlerAnswer(c)
      PROVE  LimiterInv' /\ [SW!Next]_SW!vars
  BY <1>1, StepsBeside DEF SW!vars
<1>2. ASSUME NEW c \in Connection, Refuse(c) PROVE LimiterInv' /\ [SW!Next]_SW!vars
  BY <1>2, RefuseStep DEF SW!Next
<1>3. ASSUME NEW c \in Connection, Admit(c) PROVE LimiterInv' /\ [SW!Next]_SW!vars
  BY <1>3, AdmitStep DEF SW!Next
<1>4. CASE Tick
  BY <1>4, TickStep DEF SW!Next, SW!Advance
<1>5. CASE UNCHANGED vars
  BY <1>5 DEF LimiterInv, LimiterTypes, WindowHolds, vars, SW!vars
<1> QED
  BY <1>1, <1>2, <1>3, <1>4, <1>5 DEF Next

-----------------------------------------------------------------------------
(* Retry-After.  A source that was refused still has, as the oldest hit of *)
(* its full deque, the one that the answer was computed from.              *)

\* What the deque h of a source shows that has the due time d.
Awaits(h, d) ==
  /\ Len(h) <= Limit
  /\ d > 0 => Len(h) > 0 /\ h[1] + WindowTicks <= d

RetryInv ==
  /\ due \in [Source -> Nat]
  /\ \A s \in Source : Awaits(hits[s], due[s])

\* The truncated quotient and one more exceed what was divided.
LEMMA SecondsExceed ==
  ASSUME NEW x \in Int, NEW d \in Nat \ {0}
  PROVE  (x \div d) \in Int /\ (x \div d + 1) * d > x
OBVIOUS

LEMMA MoreSeconds ==
  ASSUME NEW m \in Int, NEW n \in Int, NEW d \in Nat \ {0}, m <= n
  PROVE  m * d <= n * d
OBVIOUS

\* A second after Retry-After the oldest hit is no longer in the window.
LEMMA RetryAfterOutlasts ==
  ASSUME NEW h \in Seq(Nat), Len(h) > 0, now \in Nat
  PROVE  /\ now + (RetryAfter(h) + 1) * Second \in Nat
         /\ h[1] + WindowTicks <= now + (RetryAfter(h) + 1) * Second
<1> DEFINE x == WindowTicks - (now - h[1])
           q == x \div Second
           n == RetryAfter(h)
<1>1. h[1] \in Nat /\ WindowTicks \in Nat /\ x \in Int /\ Second \in Nat \ {0}
  BY WindowIsNat, LimitsAssumption
<1>2. q \in Int /\ (q + 1) * Second > x
  BY <1>1, SecondsExceed
<1>3. n = IF q < 1 THEN 1 ELSE q
  BY DEF RetryAfter
<1>4. x = WindowTicks - (now - h[1])
  OBVIOUS
<1> HIDE DEF x, q, n
<1>5. n \in Int /\ n >= 1 /\ q + 1 <= n + 1
  BY <1>2, <1>3
<1>6. (q + 1) * Second <= (n + 1) * Second /\ 0 * Second <= (n + 1) * Second
  BY <1>1, <1>2, <1>5, MoreSeconds
<1>7. (n + 1) * Second \in Int /\ (q + 1) * Second \in Int
  BY <1>1, <1>2, <1>5
<1>8. (n + 1) * Second \in Nat /\ (n + 1) * Second > x
  BY <1>1, <1>2, <1>6, <1>7
<1>9. now + (n + 1) * Second \in Nat /\ h[1] + WindowTicks <= now + (n + 1) * Second
  BY <1>1, <1>4, <1>8
<1> QED
  BY <1>9 DEF n

LEMMA RetryInit == Init => RetryInv
<1> SUFFICES ASSUME Init PROVE RetryInv
  OBVIOUS
<1>1. due \in [Source -> Nat] /\ \A s \in Source : due[s] = 0 /\ hits[s] = <<>>
  BY SourcesAreKeys DEF Init
<1>2. Awaits(<<>>, 0)
  BY WindowIsNat DEF Awaits
<1> QED
  BY <1>1, <1>2 DEF RetryInv

LEMMA RetryStep == LimiterInv /\ RetryInv /\ [Next]_vars => RetryInv'
<1> SUFFICES ASSUME LimiterInv, RetryInv, [Next]_vars PROVE RetryInv'
  OBVIOUS
<1>1. ASSUME UNCHANGED <<hits, due>> PROVE RetryInv'
  BY <1>1 DEF RetryInv, Awaits
<1>2. ASSUME NEW k \in Source, NEW h \in Seq(Nat), NEW d \in Nat, Awaits(h, d),
             hits' = [hits EXCEPT ![k] = h], due' = [due EXCEPT ![k] = d]
      PROVE  RetryInv'
  <2>1. due' \in [Source -> Nat]
    BY <1>2 DEF RetryInv
  <2>2. ASSUME NEW s \in Source PROVE Awaits(hits'[s], due'[s])
    <3>1. /\ hits'[s] = IF s = k THEN h ELSE hits[s]
          /\ due'[s] = IF s = k THEN d ELSE due[s]
      BY <1>2, SourcesAreKeys DEF RetryInv, LimiterInv, LimiterTypes
    <3>2. Awaits(hits[s], due[s])
      BY DEF RetryInv
    <3> QED
      BY <1>2, <3>1, <3>2
  <2> QED
    BY <2>1, <2>2 DEF RetryInv, Awaits, WindowTicks
<1>3. ASSUME NEW c \in Connection, Refuse(c) \/ Admit(c) PROVE RetryInv'
  <2> DEFINE k == SourceOf(who[c])
             r == Remaining(hits[k])
             retry == now + (RetryAfter(r) + 1) * Second
  <2>1. who[c] \in Caller
    BY <1>3 DEF Refuse, Admit, LimiterInv, LimiterTypes
  <2>2. k = ClientKey(who[c]) /\ k \in Source /\ k \in Key
    BY <2>1, SourceIsKey, SourcesAreKeys
  <2>3. hits[k] \in Seq(Nat) /\ now \in Nat
    BY <2>2 DEF LimiterInv, LimiterTypes
  <2>4. r \in Seq(Nat) /\ Len(r) \in Nat /\ Len(r) <= Limit
    <3>1. Expired(hits[k]) \in 0..Len(hits[k]) /\ Len(hits[k]) \in Nat
      BY <2>3, ExpiredExists
    <3>2. r \in Seq(Nat) /\ Len(r) = Len(hits[k]) - Expired(hits[k])
      BY <2>3, RemainingProperties
    <3>3. Len(hits[k]) <= Limit
      BY <2>2 DEF RetryInv, Awaits
    <3> QED
      BY <3>1, <3>2, <3>3, WindowIsNat
  <2>5. CASE Refuse(c)
    <3>1. /\ Len(r) >= Limit
          /\ hits' = [hits EXCEPT ![k] = r]
          /\ due' = [due EXCEPT ![k] = retry]
      BY <2>2, <2>5 DEF Refuse, OverLimit
    <3>2. Len(r) > 0
      BY <2>4, <3>1, WindowIsNat
    <3>3. retry \in Nat /\ r[1] + WindowTicks <= retry
      BY <2>3, <2>4, <3>2, RetryAfterOutlasts
    <3> HIDE DEF k, r, retry
    <3>4. Awaits(r, retry)
      BY <2>4, <3>2, <3>3 DEF Awaits
    <3> QED
      BY <1>2, <2>2, <2>4, <3>1, <3>3, <3>4
  <2>6. CASE Admit(c)
    <3>1. /\ ~(Len(r) >= Limit)
          /\ hits' = [hits EXCEPT ![k] = Append(r, now)]
          /\ due' = [due EXCEPT ![k] = 0]
      BY <2>2, <2>6 DEF Admit, OverLimit
    <3> HIDE DEF k, r
    <3>2. Append(r, now) \in Seq(Nat) /\ Len(Append(r, now)) = Len(r) + 1
      BY <2>3, <2>4
    <3>3. Awaits(Append(r, now), 0)
      BY <2>4, <3>1, <3>2, WindowIsNat DEF Awaits
    <3> QED
      BY <1>2, <2>2, <3>1, <3>2, <3>3
  <2> QED
    BY <1>3, <2>5, <2>6
<1>4. ASSUME NEW c \in Connection,
             \/ \E caller \in Caller : Open(c, caller)
             \/ \E m \in Messages : ReceiveBody(c, m)
             \/ HandlerRead(c)
             \/ HandlerAnswer(c)
      PROVE  RetryInv'
  BY <1>1, <1>4 DEF Open, ReceiveBody, HandlerRead, HandlerAnswer
<1>5. CASE Tick \/ UNCHANGED vars
  BY <1>1, <1>5 DEF Tick, vars
<1> QED
  BY <1>3, <1>4, <1>5 DEF Next

-----------------------------------------------------------------------------
(* The body of a call: a place, the bytes counted, and the messages in the *)
(* buffer, sent by the client and read by the handler.  What was sent is   *)
(* what was read and then what is in the buffer, until the handler reads   *)
(* on and gets ends that were not sent; the last message, and no other,    *)
(* announces no more; and the bytes counted are those of the messages.     *)

\* What a handler may read.
Readable == Messages \cup {EmptyEnd}

SumsTo(s, sum) ==
  \E sums \in [0..Len(s) -> 0..MaxBody] :
    /\ sums[0] = 0
    /\ \A i \in 1..Len(s) : sums[i] = sums[i - 1] + s[i].size
    /\ sums[Len(s)] = sum

BodyOf(place, sum, b, s, r) ==
  /\ Len(s) = Len(r) + Len(b) \/ (place = "handler" /\ b = <<>> /\ Len(s) < Len(r))
  /\ \A i \in 1..Len(r) : i <= Len(s) => r[i] = s[i]
  /\ r # <<>> => s # <<>>
  /\ \A i \in 1..Len(b) : b[i] = s[Len(r) + i]
  /\ SumsTo(s, sum)
  /\ \A i \in 1..Len(s) : i < Len(s) \/ place = "body" => s[i].more
  /\ place # "body" => \A i \in 1..Len(s) : i = Len(s) => ~s[i].more
  /\ place = "idle" => s = <<>>

LEMMA BodyAtStart ==
  ASSUME NEW place
  PROVE  BodyOf(place, 0, <<>>, <<>>, <<>>)
<1>1. SumsTo(<<>>, 0)
  <2> DEFINE f == [i \in 0..0 |-> 0]
  <2>1. Len(<<>>) = 0 /\ 0 \in 0..MaxBody
    BY LimitsAssumption
  <2>2. f \in [0..Len(<<>>) -> 0..MaxBody] /\ f[0] = 0
    BY <2>1
  <2> HIDE DEF f
  <2> QED
    BY <2>1, <2>2 DEF SumsTo
<1>2. ASSUME NEW e, e = <<>> PROVE BodyOf(place, 0, e, e, e)
  <2>1. Len(e) = 0 /\ Len(e) = Len(e) + Len(e)
    BY <1>2
  <2>2. \A i \in 1..Len(e) : FALSE
    BY <2>1
  <2>3. SumsTo(e, 0)
    BY <1>1, <1>2
  <2>4. /\ \A i \in 1..Len(e) : i <= Len(e) => e[i] = e[i]
        /\ \A i \in 1..Len(e) : e[i] = e[Len(e) + i]
        /\ \A i \in 1..Len(e) : i < Len(e) \/ place = "body" => e[i].more
        /\ \A i \in 1..Len(e) : i = Len(e) => ~e[i].more
    BY <2>2
  <2> QED
    BY <1>2, <2>1, <2>3, <2>4, Zenon DEF BodyOf
<1> QED
  BY <1>2

LEMMA SumsToAppend ==
  ASSUME NEW s \in Seq(Messages), NEW sum, SumsTo(s, sum), NEW m \in Messages,
         m.size \in Nat, sum + m.size <= MaxBody
  PROVE  SumsTo(Append(s, m), sum + m.size)
<1>1. PICK f \in [0..Len(s) -> 0..MaxBody] :
        /\ f[0] = 0
        /\ \A i \in 1..Len(s) : f[i] = f[i - 1] + s[i].size
        /\ f[Len(s)] = sum
  BY DEF SumsTo
<1>2. Len(s) \in Nat /\ MaxBody \in Nat
  BY LimitsAssumption
<1>3. sum \in 0..MaxBody /\ sum + m.size \in 0..MaxBody
  BY <1>1, <1>2
<1> DEFINE n == Len(s)
           g == [i \in 0..(n + 1) |-> IF i = n + 1 THEN sum + m.size ELSE f[i]]
<1>4. Len(Append(s, m)) = n + 1
  OBVIOUS
<1>5. /\ \A i \in 1..n : Append(s, m)[i] = s[i]
      /\ Append(s, m)[n + 1] = m
  OBVIOUS
<1>6. \A i \in 0..n : g[i] = f[i] /\ f[i] \in 0..MaxBody
  BY <1>1, <1>2
<1>7. g[n + 1] = sum + m.size
  BY <1>2
<1>8. g \in [0..(n + 1) -> 0..MaxBody]
  BY <1>1, <1>2, <1>3
<1> HIDE DEF g
<1>9. g[0] = 0
  BY <1>1, <1>2, <1>6
<1>10. ASSUME NEW i \in 1..(n + 1) PROVE g[i] = g[i - 1] + Append(s, m)[i].size
  <2>1. CASE i = n + 1
    <3>1. g[i - 1] = sum /\ Append(s, m)[i] = m
      BY <1>1, <1>2, <1>5, <1>6, <2>1
    <3> QED
      BY <1>7, <2>1, <3>1
  <2>2. CASE i # n + 1
    <3>1. i \in 1..n /\ i - 1 \in 0..n
      BY <1>2, <2>2
    <3>2. g[i] = f[i] /\ g[i - 1] = f[i - 1] /\ Append(s, m)[i] = s[i]
      BY <1>5, <1>6, <3>1
    <3> QED
      BY <1>1, <3>1, <3>2
  <2> QED
    BY <2>1, <2>2
<1> QED
  BY <1>4, <1>7, <1>8, <1>9, <1>10 DEF SumsTo

LEMMA MessageParts ==
  ASSUME NEW m \in Messages, NEW sum \in Nat
  PROVE  /\ m.size \in Nat /\ m.more \in BOOLEAN /\ m.gone \in BOOLEAN
         /\ (IF m.gone THEN sum ELSE Counted(sum, m)) = sum + m.size
<1>1. m = Disconnect \/ m \in [size : ChunkSize, more : BOOLEAN, gone : {FALSE}]
  BY DEF Messages
<1>2. CASE m = Disconnect
  BY <1>2 DEF Disconnect
<1>3. CASE m \in [size : ChunkSize, more : BOOLEAN, gone : {FALSE}]
  BY <1>3, LimitsAssumption DEF Counted
<1> QED
  BY <1>1, <1>2, <1>3

\* One message more, which ends the body or does not.
LEMMA BodyGrows ==
  ASSUME NEW b \in Seq(Messages), NEW s \in Seq(Messages), NEW r \in Seq(Readable),
         NEW sum \in Nat, NEW m \in Messages, BodyOf("body", sum, b, s, r),
         sum + m.size <= MaxBody
  PROVE  BodyOf(IF m.more THEN "body" ELSE "limit", sum + m.size, Append(b, m), Append(s, m), r)
<1>1. m.size \in Nat
  BY MessageParts
<1>2. SumsTo(Append(s, m), sum + m.size)
  BY <1>1, SumsToAppend DEF BodyOf
<1>3. /\ Len(b) \in Nat /\ Len(s) \in Nat /\ Len(r) \in Nat
      /\ Len(Append(s, m)) = Len(s) + 1 /\ Len(Append(b, m)) = Len(b) + 1
      /\ \A i \in 1..Len(s) : Append(s, m)[i] = s[i]
      /\ \A i \in 1..Len(b) : Append(b, m)[i] = b[i]
      /\ Append(s, m)[Len(s) + 1] = m /\ Append(b, m)[Len(b) + 1] = m
  OBVIOUS
<1>4. Len(s) = Len(r) + Len(b)
  BY DEF BodyOf
<1>5. \A i \in 1..Len(r) : i <= Len(s) + 1 => r[i] = Append(s, m)[i]
  BY <1>3, <1>4 DEF BodyOf
<1>6. ASSUME NEW i \in 1..(Len(b) + 1)
      PROVE  Append(b, m)[i] = Append(s, m)[Len(r) + i]
  <2>1. CASE i = Len(b) + 1
    BY <1>3, <1>4, <2>1
  <2>2. CASE i # Len(b) + 1
    <3>1. i \in 1..Len(b) /\ Len(r) + i \in 1..Len(s)
      BY <1>3, <1>4, <2>2
    <3> QED
      BY <1>3, <3>1 DEF BodyOf
  <2> QED
    BY <2>1, <2>2
<1>7. ASSUME NEW i \in 1..(Len(s) + 1), i < Len(s) + 1 \/ m.more
      PROVE  Append(s, m)[i].more
  <2>1. CASE i = Len(s) + 1
    BY <1>3, <1>7, <2>1
  <2>2. CASE i # Len(s) + 1
    <3>1. i \in 1..Len(s)
      BY <1>3, <2>2
    <3> QED
      BY <1>3, <3>1 DEF BodyOf
  <2> QED
    BY <2>1, <2>2
<1>8. m.more \in BOOLEAN /\ Append(s, m) # <<>>
  <2>1. Append(s, m) # <<>>
    <3>1. Len(Append(s, m)) # 0
      BY <1>3
    <3> QED
      BY <3>1
  <2>2. m.more \in BOOLEAN
    <3>1. 0 \in Nat
      OBVIOUS
    <3> QED
      BY <3>1, MessageParts
  <2> QED
    BY <2>1, <2>2
<1> DEFINE place == IF m.more THEN "body" ELSE "limit"
<1>9. place # "body" => ~Append(s, m)[Len(s) + 1].more
  BY <1>3, <1>8
<1>10. place = "body" => m.more
  OBVIOUS
<1>11. place # "idle"
  OBVIOUS
<1> HIDE DEF place
<1>12. BodyOf(place, sum + m.size, Append(b, m), Append(s, m), r)
  BY <1>2, <1>3, <1>4, <1>5, <1>6, <1>7, <1>8, <1>9, <1>10, <1>11 DEF BodyOf
<1> QED
  BY <1>12 DEF place

\* The handler reads the first message of the buffer.
LEMMA BodyIsRead ==
  ASSUME NEW b \in Seq(Messages), NEW s \in Seq(Messages), NEW r \in Seq(Readable),
         NEW sum, NEW place, place # "idle", BodyOf(place, sum, b, s, r), b # <<>>
  PROVE  BodyOf(place, sum, Tail(b), s, Append(r, Replayed(b)))
<1>1. /\ Len(b) \in Nat \ {0} /\ Len(r) \in Nat
      /\ Len(Tail(b)) = Len(b) - 1
      /\ \A i \in 1..(Len(b) - 1) : Tail(b)[i] = b[i + 1]
      /\ Replayed(b) = b[1] /\ b[1] \in Messages
  BY DEF Replayed
<1>2. /\ Len(Append(r, Replayed(b))) = Len(r) + 1
      /\ \A i \in 1..Len(r) : Append(r, Replayed(b))[i] = r[i]
      /\ Append(r, Replayed(b))[Len(r) + 1] = b[1]
  BY <1>1
<1>5. Len(s) = Len(r) + Len(b) /\ s # <<>>
  <2>1. Len(s) = Len(r) + Len(b)
    BY DEF BodyOf
  <2>2. Len(s) # 0
    BY <1>1, <2>1
  <2> QED
    BY <2>1, <2>2
<1>3. ASSUME NEW i \in 1..(Len(r) + 1) PROVE Append(r, Replayed(b))[i] = s[i]
  <2>1. b[1] = s[Len(r) + 1]
    BY <1>1 DEF BodyOf
  <2> QED
    BY <1>1, <1>2, <1>5, <2>1 DEF BodyOf
<1>4. ASSUME NEW i \in 1..(Len(b) - 1) PROVE Tail(b)[i] = s[Len(r) + 1 + i]
  <2>1. i + 1 \in 1..Len(b) /\ Len(r) + (i + 1) = Len(r) + 1 + i
    BY <1>1
  <2> QED
    BY <1>1, <2>1 DEF BodyOf
<1> QED
  BY <1>1, <1>2, <1>3, <1>4, <1>5 DEF BodyOf

\* The handler reads on when the buffer is empty.
LEMMA BodyIsOverread ==
  ASSUME NEW s \in Seq(Messages), NEW r \in Seq(Readable), s # <<>>,
         NEW sum, BodyOf("handler", sum, <<>>, s, r)
  PROVE  BodyOf("handler", sum, <<>>, s, Append(r, EmptyEnd))
<1>1. /\ Len(r) \in Nat /\ Len(s) \in Nat /\ Len(<<>>) = 0
      /\ Len(Append(r, EmptyEnd)) = Len(r) + 1
      /\ \A i \in 1..Len(r) : Append(r, EmptyEnd)[i] = r[i]
  BY DEF Readable
<1>2. Len(s) <= Len(r)
  BY <1>1 DEF BodyOf
<1>3. \A i \in 1..(Len(r) + 1) : i <= Len(s) => Append(r, EmptyEnd)[i] = s[i]
  BY <1>1, <1>2 DEF BodyOf
<1> QED
  BY <1>1, <1>2, <1>3 DEF BodyOf

-----------------------------------------------------------------------------
(* The bodies of all calls: a step changes that of one call only.          *)

BodyTypes ==
  /\ pc        \in [Connection -> Places]
  /\ total     \in [Connection -> 0..MaxBody]
  /\ buffer    \in [Connection -> Seq(Messages)]
  /\ sent      \in [Connection -> Seq(Messages)]
  /\ delivered \in [Connection -> Seq(Readable)]

BodyInv ==
  /\ BodyTypes
  /\ \A c \in Connection : BodyOf(pc[c], total[c], buffer[c], sent[c], delivered[c])

LEMMA BodyInit == Init => BodyInv
<1> SUFFICES ASSUME Init PROVE BodyInv
  OBVIOUS
<1>1. BodyTypes
  BY LimitsAssumption DEF Init, BodyTypes, Places
<1>2. ASSUME NEW c \in Connection
      PROVE  BodyOf(pc[c], total[c], buffer[c], sent[c], delivered[c])
  <2>1. /\ total[c] = 0 /\ buffer[c] = <<>> /\ sent[c] = <<>> /\ delivered[c] = <<>>
    BY DEF Init
  <2> QED
    BY <2>1, BodyAtStart
<1> QED
  BY <1>1, <1>2 DEF BodyInv

LEMMA AnswerEmpties ==
  ASSUME BodyInv, NEW c \in Connection, Answer(c)
  PROVE  BodyInv'
<1>1. BodyTypes'
  BY LimitsAssumption DEF BodyInv, BodyTypes, Answer, Places
<1>2. ASSUME NEW d \in Connection
      PROVE  BodyOf(pc[d], total[d], buffer[d], sent[d], delivered[d])'
  <2>1. CASE d = c
    <3>1. total'[d] = 0 /\ buffer'[d] = <<>> /\ sent'[d] = <<>> /\ delivered'[d] = <<>>
      BY <2>1 DEF Answer, BodyInv, BodyTypes
    <3> QED
      BY <3>1, BodyAtStart
  <2>2. CASE d # c
    <3>1. /\ pc'[d] = pc[d] /\ total'[d] = total[d] /\ buffer'[d] = buffer[d]
          /\ sent'[d] = sent[d] /\ delivered'[d] = delivered[d]
      BY <2>2 DEF Answer, BodyInv, BodyTypes
    <3>2. BodyOf(pc[d], total[d], buffer[d], sent[d], delivered[d])
      BY DEF BodyInv
    <3> QED
      BY <3>1, <3>2
  <2> QED
    BY <2>1, <2>2
<1> QED
  BY <1>1, <1>2 DEF BodyInv

LEMMA BodyStep == BodyInv /\ [Next]_vars => BodyInv'
<1> SUFFICES ASSUME BodyInv, [Next]_vars PROVE BodyInv'
  OBVIOUS
<1>0. /\ BodyTypes
      /\ \A d \in Connection : BodyOf(pc[d], total[d], buffer[d], sent[d], delivered[d])
  BY DEF BodyInv
\* One call goes on to the body (p, n, b, s, r); the others stay.
<1>1. ASSUME NEW c \in Connection, NEW p \in Places, NEW n \in 0..MaxBody,
             NEW b \in Seq(Messages), NEW s \in Seq(Messages), NEW r \in Seq(Readable),
             BodyOf(p, n, b, s, r),
             pc' = [pc EXCEPT ![c] = p], total' = [total EXCEPT ![c] = n],
             buffer' = [buffer EXCEPT ![c] = b], sent' = [sent EXCEPT ![c] = s],
             delivered' = [delivered EXCEPT ![c] = r]
      PROVE  BodyInv'
  <2>1. BodyTypes'
    BY <1>0, <1>1 DEF BodyTypes
  <2>2. ASSUME NEW d \in Connection
        PROVE  BodyOf(pc[d], total[d], buffer[d], sent[d], delivered[d])'
    <3>1. CASE d = c
      <4>1. pc'[d] = p /\ total'[d] = n /\ buffer'[d] = b /\ sent'[d] = s /\ delivered'[d] = r
        BY <1>0, <1>1, <3>1 DEF BodyTypes
      <4> QED
        BY <1>1, <4>1
    <3>2. CASE d # c
      <4>1. /\ pc'[d] = pc[d] /\ total'[d] = total[d] /\ buffer'[d] = buffer[d]
            /\ sent'[d] = sent[d] /\ delivered'[d] = delivered[d]
        BY <1>0, <1>1, <3>2 DEF BodyTypes
      <4> QED
        BY <1>0, <4>1
    <3> QED
      BY <3>1, <3>2
  <2> QED
    BY <2>1, <2>2 DEF BodyInv
<1>2. ASSUME NEW c \in Connection, NEW caller \in Caller, Open(c, caller)
      PROVE  BodyInv'
  <2>1. PICK p \in {"body", "limit"} : pc' = [pc EXCEPT ![c] = p]
    BY <1>2 DEF Open
  <2>2. BodyOf(p, total[c], buffer[c], sent[c], delivered[c])
    <3>1. BodyOf("idle", total[c], buffer[c], sent[c], delivered[c])
      BY <1>0, <1>2 DEF Open
    <3>2. sent[c] = <<>> /\ Len(sent[c]) = 0
      BY <3>1 DEF BodyOf
    <3>3. /\ \A i \in 1..Len(sent[c]) : FALSE
          /\ Len(delivered[c]) \in Nat /\ delivered[c] = <<>>
      BY <1>0, <3>1, <3>2 DEF BodyTypes, BodyOf
    <3> QED
      BY <2>1, <3>1, <3>3 DEF BodyOf
  <2>3. /\ total' = [total EXCEPT ![c] = total[c]]
        /\ buffer' = [buffer EXCEPT ![c] = buffer[c]]
        /\ sent' = [sent EXCEPT ![c] = sent[c]]
        /\ delivered' = [delivered EXCEPT ![c] = delivered[c]]
    BY <1>0, <1>2 DEF Open, body, BodyTypes
  <2>4. /\ p \in Places /\ total[c] \in 0..MaxBody /\ buffer[c] \in Seq(Messages)
        /\ sent[c] \in Seq(Messages) /\ delivered[c] \in Seq(Readable)
    BY <1>0, <2>1 DEF BodyTypes, Places
  <2> QED
    BY <1>1, <2>1, <2>2, <2>3, <2>4
<1>3. ASSUME NEW c \in Connection, NEW m \in Messages, ReceiveBody(c, m)
      PROVE  BodyInv'
  <2> DEFINE n == total[c] + m.size
             p == IF m.more THEN "body" ELSE "limit"
  <2>1. total[c] \in Nat /\ n \in Nat
    <3>1. total[c] \in 0..MaxBody /\ MaxBody \in Nat
      BY <1>0, LimitsAssumption DEF BodyTypes
    <3>2. m.size \in Nat
      BY MessageParts
    <3> QED
      BY <3>1, <3>2
  <2>2. (IF m.gone THEN total[c] ELSE Counted(total[c], m)) = n
    BY <2>1, MessageParts
  <2>3. CASE n > MaxBody
    BY <1>3, <2>2, <2>3, AnswerEmpties DEF ReceiveBody
  <2>4. CASE ~(n > MaxBody)
    <3>1. /\ pc[c] = "body"
          /\ pc' = [pc EXCEPT ![c] = p] /\ total' = [total EXCEPT ![c] = n]
          /\ buffer' = [buffer EXCEPT ![c] = Append(buffer[c], m)]
          /\ sent' = [sent EXCEPT ![c] = Append(sent[c], m)]
          /\ delivered' = [delivered EXCEPT ![c] = delivered[c]]
      BY <1>0, <1>3, <2>2, <2>4 DEF ReceiveBody, BodyTypes
    <3>2. n \in 0..MaxBody /\ n <= MaxBody
      BY <2>1, <2>4, LimitsAssumption
    <3>3. BodyOf("body", total[c], buffer[c], sent[c], delivered[c])
      BY <1>0, <3>1
    <3>4. /\ buffer[c] \in Seq(Messages) /\ sent[c] \in Seq(Messages)
          /\ delivered[c] \in Seq(Readable)
      BY <1>0 DEF BodyTypes
    <3>5. BodyOf(p, n, Append(buffer[c], m), Append(sent[c], m), delivered[c])
      BY <2>1, <3>2, <3>3, <3>4, BodyGrows
    <3>6. /\ p \in Places /\ Append(buffer[c], m) \in Seq(Messages)
          /\ Append(sent[c], m) \in Seq(Messages)
      BY <3>4 DEF Places
    <3> HIDE DEF n, p
    <3> QED
      BY <1>1, <3>1, <3>2, <3>4, <3>5, <3>6
  <2> QED
    BY <2>3, <2>4
<1>4. ASSUME NEW c \in Connection, Admit(c)
      PROVE  BodyInv'
  <2>1. /\ pc[c] = "limit" /\ pc' = [pc EXCEPT ![c] = "handler"]
        /\ total' = [total EXCEPT ![c] = total[c]]
        /\ buffer' = [buffer EXCEPT ![c] = buffer[c]]
        /\ sent' = [sent EXCEPT ![c] = sent[c]]
        /\ delivered' = [delivered EXCEPT ![c] = delivered[c]]
    BY <1>0, <1>4 DEF Admit, body, BodyTypes
  <2>2. BodyOf("limit", total[c], buffer[c], sent[c], delivered[c])
    BY <1>0, <2>1
  <2>3. BodyOf("handler", total[c], buffer[c], sent[c], delivered[c])
    BY <2>2 DEF BodyOf
  <2> QED
    BY <1>0, <1>1, <2>1, <2>3 DEF BodyTypes, Places
<1>5. ASSUME NEW c \in Connection, HandlerRead(c)
      PROVE  BodyInv'
  <2> DEFINE b == buffer[c]
             r == delivered[c]
  <2>1. /\ pc[c] = "handler" /\ b \in Seq(Messages) /\ sent[c] # <<>>
        /\ sent[c] \in Seq(Messages) /\ r \in Seq(Readable)
    BY <1>0, <1>5 DEF HandlerRead, BodyTypes
  <2>2. /\ pc' = [pc EXCEPT ![c] = "handler"]
        /\ total' = [total EXCEPT ![c] = total[c]]
        /\ buffer' = [buffer EXCEPT ![c] = Unread(b)]
        /\ sent' = [sent EXCEPT ![c] = sent[c]]
        /\ delivered' = [delivered EXCEPT ![c] = Append(r, Replayed(b))]
    BY <1>0, <1>5 DEF HandlerRead, BodyTypes
  <2>3. BodyOf("handler", total[c], b, sent[c], r)
    BY <1>0, <2>1
  <2> HIDE DEF b, r
  <2>4. BodyOf("handler", total[c], Unread(b), sent[c], Append(r, Replayed(b)))
    <3>1. CASE b = <<>>
      <4>1. Unread(b) = <<>> /\ Replayed(b) = EmptyEnd
        BY <3>1 DEF Unread, Replayed
      <4> QED
        BY <2>1, <2>3, <3>1, <4>1, BodyIsOverread
    <3>2. CASE b # <<>>
      <4>1. Unread(b) = Tail(b)
        BY <3>2 DEF Unread
      <4> QED
        BY <2>1, <2>3, <3>2, <4>1, BodyIsRead
    <3> QED
      BY <3>1, <3>2
  <2>5. /\ Unread(b) \in Seq(Messages) /\ Append(r, Replayed(b)) \in Seq(Readable)
        /\ total[c] \in 0..MaxBody /\ "handler" \in Places
    <3>1. Replayed(b) \in Readable
      BY <2>1 DEF Replayed, Readable
    <3> QED
      BY <1>0, <2>1, <3>1 DEF Unread, BodyTypes, Places
  <2> QED
    BY <1>1, <2>1, <2>2, <2>4, <2>5
<1>6. ASSUME NEW c \in Connection, Refuse(c) \/ HandlerAnswer(c)
      PROVE  BodyInv'
  BY <1>6, AnswerEmpties DEF Refuse, HandlerAnswer
<1>7. CASE Tick \/ UNCHANGED vars
  BY <1>0, <1>7 DEF Tick, vars, body, BodyInv, BodyTypes
<1> QED
  BY <1>2, <1>3, <1>4, <1>5, <1>6, <1>7 DEF Next

-----------------------------------------------------------------------------
(* Theorems.                                                               *)

\* WindowIsKept: dispatch never admits more than Limit calls of one source within
\* one window, for every limit, window and number of callers.
THEOREM WindowIsKept == Spec => []WindowHolds
<1>1. LimiterInv => WindowHolds
  BY DEF LimiterInv
<1> QED
  BY <1>1, LimiterInit, LimiterStep, PTL DEF Spec

\* LimiterImplementsWindow: every behaviour of the middlewares is one of the
\* limiter that remembers every admission: lazy expiry changes no answer.
THEOREM LimiterImplementsWindow == Spec => ImplementsSlidingWindow
<1>1. Init => SW!Init
  BY DEF Init, SW!Init
<1> QED
  BY <1>1, LimiterInit, LimiterStep, PTL DEF Spec, ImplementsSlidingWindow, SW!Spec

\* RetryIsServed: whatever the limit and the window, a refused source of which no
\* call was admitted since is under its limit a second after its Retry-After.
THEOREM RetryIsAlwaysServed == Spec => []RetryIsServed
<1>1. LimiterInv /\ RetryInv => RetryIsServed
  <2> SUFFICES ASSUME LimiterInv, RetryInv, NEW s \in Source, due[s] > 0, now >= due[s]
               PROVE  ~OverLimit(Remaining(hits[s]))
    BY DEF RetryIsServed
  <2>1. hits[s] \in Seq(Nat) /\ now \in Nat
    BY SourcesAreKeys DEF LimiterInv, LimiterTypes
  <2>2. /\ Len(hits[s]) \in 1..Limit /\ hits[s][1] \in Nat
        /\ hits[s][1] + WindowTicks <= now
    <3>1. /\ due[s] \in Nat /\ Len(hits[s]) <= Limit
          /\ Len(hits[s]) > 0 /\ hits[s][1] + WindowTicks <= due[s]
      BY DEF RetryInv, Awaits
    <3>2. hits[s][1] \in Nat
      BY <2>1, <3>1
    <3> QED
      BY <2>1, <3>1, <3>2, WindowIsNat
  <2>3. /\ Expired(hits[s]) \in 0..Len(hits[s])
        /\ Expired(hits[s]) < Len(hits[s])
             => hits[s][Expired(hits[s]) + 1] + WindowTicks > now
    BY <2>1, ExpiredExists
  <2>4. Expired(hits[s]) > 0
    BY <2>1, <2>2, <2>3, WindowIsNat
  <2>5. Len(Remaining(hits[s])) = Len(hits[s]) - Expired(hits[s])
    BY <2>1, RemainingProperties
  <2> QED
    BY <2>2, <2>3, <2>4, <2>5, WindowIsNat DEF OverLimit
<1> QED
  BY <1>1, LimiterInit, LimiterStep, RetryInit, RetryStep, PTL DEF Spec

\* BodyWhole: for every limit on the body, every division into messages and every
\* number of calls at once, a handler that reads up to the first message that
\* announces no more has read exactly what its client sent, and no more than
\* max_body_bytes, although replay_receive makes up ends when it reads on.
THEOREM BodiesAreWhole == Spec => []BodyWhole
<1>1. BodyInv => BodyWhole
  <2> SUFFICES ASSUME BodyInv, NEW c \in Connection, pc[c] = "handler",
                      NEW i \in 1..Len(delivered[c]), ~delivered[c][i].more,
                      \A j \in 1..(i - 1) : delivered[c][j].more
               PROVE  SubSeq(delivered[c], 1, i) = sent[c] /\ WithinMaxBody(sent[c])
    BY DEF BodyWhole
  <2> DEFINE r == delivered[c]
             s == sent[c]
             b == buffer[c]
  <2>1. r \in Seq(Readable) /\ s \in Seq(Messages) /\ b \in Seq(Messages)
    BY DEF BodyInv, BodyTypes
  <2>2. BodyOf("handler", total[c], b, s, r)
    BY DEF BodyInv
  <2>3. i \in 1..Len(r) /\ ~r[i].more /\ \A j \in 1..(i - 1) : r[j].more
    OBVIOUS
  <2> HIDE DEF r, s, b
  <2>4. Len(r) \in Nat \ {0} /\ Len(s) \in Nat /\ Len(b) \in Nat /\ r # <<>>
    BY <2>1, <2>3
  <2>5. Len(s) \in 1..Len(s) /\ s # <<>>
    BY <2>1, <2>2, <2>4 DEF BodyOf
  <2>6. \A j \in 1..Len(r) : j <= Len(s) => r[j] = s[j]
    BY <2>2 DEF BodyOf
  <2>7. ~s[Len(s)].more
    BY <2>2, <2>5 DEF BodyOf
  <2>8. ~(i < Len(s))
    <3>1. ASSUME i < Len(s) PROVE FALSE
      <4>1. i \in 1..Len(s) /\ s[i].more
        BY <2>2, <2>3, <2>4, <3>1 DEF BodyOf
      <4> QED
        BY <2>3, <2>6, <4>1
    <3> QED
      BY <3>1
  <2>9. ~(Len(s) < i)
    <3>1. ASSUME Len(s) < i PROVE FALSE
      <4>1. Len(s) \in 1..(i - 1) /\ Len(s) \in 1..Len(r)
        BY <2>3, <2>4, <2>5, <3>1
      <4> QED
        BY <2>3, <2>6, <2>7, <4>1
    <3> QED
      BY <3>1
  <2>10. i = Len(s) /\ i \in 1..Len(r)
    BY <2>3, <2>4, <2>8, <2>9
  <2>11. SubSeq(r, 1, i) = s
    <3>1. /\ SubSeq(r, 1, i) \in Seq(Readable) /\ Len(SubSeq(r, 1, i)) = i
          /\ \A j \in 1..i : SubSeq(r, 1, i)[j] = r[j]
      BY <2>1, <2>4, <2>10
    <3>2. \A j \in 1..i : SubSeq(r, 1, i)[j] = s[j]
      BY <2>4, <2>6, <2>10, <3>1
    <3>3. s \in Seq(Readable)
      BY <2>1 DEF Readable
    <3> QED
      BY <2>10, <3>1, <3>2, <3>3, SeqEqual
  <2>12. WithinMaxBody(s)
    BY <2>2 DEF BodyOf, SumsTo, WithinMaxBody
  <2> QED
    BY <2>11, <2>12 DEF r, s
<1> QED
  BY <1>1, BodyInit, BodyStep, PTL DEF Spec

\* Type correctness: among other things, no deque ever holds more than Limit hits.
THEOREM TypeCorrect == Spec => []TypeOK
<1> DEFINE Rest == /\ now \in 0..MaxTime /\ calls \in 0..MaxCalls
                   /\ \A k \in Key \ Source : hits[k] = <<>>
<1>1. Init => Rest
  BY LimitsAssumption DEF Init
<1>2. LimiterInv /\ Rest /\ [Next]_vars => Rest'
  <2> SUFFICES ASSUME LimiterInv, Rest, [Next]_vars PROVE Rest'
    OBVIOUS
  <2>1. now' \in 0..MaxTime
    BY LimitsAssumption
       DEF Next, Open, ReceiveBody, Refuse, Admit, HandlerRead, HandlerAnswer, Tick, vars
  <2>2. calls' \in 0..MaxCalls
    BY LimitsAssumption
       DEF Next, Open, ReceiveBody, Refuse, Admit, HandlerRead, HandlerAnswer, Tick, vars
  <2>3. ASSUME NEW k \in Key \ Source PROVE hits'[k] = hits[k]
    <3>1. ASSUME NEW c \in Connection, Refuse(c) \/ Admit(c)
          PROVE  hits'[k] = hits[k]
      <4>1. who[c] \in Caller
        BY <3>1 DEF Refuse, Admit, LimiterInv, LimiterTypes
      <4>2. ClientKey(who[c]) \in Source
        BY <4>1, SourceIsKey
      <4>3. \E h : hits' = [hits EXCEPT ![ClientKey(who[c])] = h]
        BY <3>1 DEF Refuse, Admit
      <4> QED
        BY <4>2, <4>3 DEF LimiterInv, LimiterTypes
    <3> QED
      BY <3>1 DEF Next, Open, ReceiveBody, HandlerRead, HandlerAnswer, Tick, vars
  <2> QED
    BY <2>1, <2>2, <2>3
<1>3. LimiterInv /\ RetryInv /\ BodyInv /\ Rest => TypeOK
  <2> SUFFICES ASSUME LimiterInv, RetryInv, BodyInv, Rest PROVE TypeOK
    OBVIOUS
  <2>1. ASSUME NEW k \in Key PROVE Len(hits[k]) <= Limit
    <3>1. CASE k \in Source
      BY <3>1 DEF RetryInv, Awaits
    <3>2. CASE k \notin Source
      BY <3>2, WindowIsNat
    <3> QED
      BY <3>1, <3>2
  <2> QED
    BY <2>1 DEF TypeOK, LimiterInv, LimiterTypes, RetryInv, BodyInv, BodyTypes, Readable
<1> QED
  BY <1>1, <1>2, <1>3, LimiterInit, LimiterStep, RetryInit, RetryStep, BodyInit, BodyStep,
     PTL DEF Spec
=============================================================================
