------------------------------ MODULE ApiLimits ------------------------------
(***************************************************************************)
(* The two middlewares of api_security.py that stand before every route,   *)
(* in the order main.py stacks them: BodySizeLimitMiddleware takes the     *)
(* whole body of a write into a buffer, then InMemoryRateLimitMiddleware   *)
(* counts the call, and then the handler reads the body from the buffer.   *)
(*                                                                         *)
(* The server is one event loop: code between two awaits is one step.      *)
(* Time is counted in ticks, so that the truncation to whole seconds in    *)
(* Retry-After can be seen.                                                *)
(***************************************************************************)
EXTENDS Integers, Sequences

CONSTANTS
  Connection, \* calls that can be in progress at once
  Caller,     \* [peer, verified, header]: what identifies the sender of a call
  Nobody,     \* the caller of no call
  NoHeader,   \* the header of a call without TRUSTED_RATE_LIMIT_HEADER
  Limit,      \* rate_limit_requests
  Window,     \* rate_limit_window_seconds
  Second,     \* ticks in a second
  MaxBody,    \* max_body_bytes
  ChunkSize,  \* bytes that a message from the client may carry
  MaxMessages, \* bound: messages of one body
  MaxReads,   \* bound: reads of a handler after the last message
  MaxTime,    \* bound: ticks in one behaviour
  MaxCalls    \* bound: calls in one behaviour

ASSUME LimitsAssumption ==
  /\ Limit \in Nat \ {0} /\ Window \in Nat \ {0} /\ Second \in Nat \ {0}
  /\ MaxBody \in Nat /\ ChunkSize \subseteq Nat
  /\ MaxMessages \in Nat /\ MaxReads \in Nat /\ MaxTime \in Nat /\ MaxCalls \in Nat
  /\ \A caller \in Caller : caller.verified \in BOOLEAN

VARIABLES
  now,       \* time.monotonic(), in ticks
  hits,      \* _hits: the deque of each client key
  pc,        \* where each call stands
  who,       \* its caller,
  total,     \*   total_body_bytes,
  buffer,    \*   buffered_messages,
  sent,      \*   history: the messages its client has sent,
  delivered, \*   and the messages its handler has read
  calls,     \* calls received so far
  admitted,  \* history: admission times of each source of calls
  refused,   \* history: refusals of each source
  due        \* history: a second after the last Retry-After, 0 after an admission

body == <<total, buffer, sent, delivered>>
vars == <<now, hits, pc, who, body, calls, admitted, refused, due>>

-----------------------------------------------------------------------------
(* Data.                                                                   *)

Places == {"idle", "body", "limit", "handler"}

\* Content-Length: absent, not a number, or a number.
Lengths == [kind : {"absent", "invalid"}, bytes : {0}] \cup
           [kind : {"given"}, bytes : 0..(MaxBody + 1)]

\* http.request with a part of the body, and http.disconnect.
Disconnect == [size |-> 0, more |-> FALSE, gone |-> TRUE]
Messages   == [size : ChunkSize, more : BOOLEAN, gone : {FALSE}] \cup {Disconnect}

\* The end of a body that replay_receive makes up when nothing is buffered.
EmptyEnd == [size |-> 0, more |-> FALSE, gone |-> FALSE]

\* Whose calls share a budget: the client that a verified ingress names, or the
\* peer (docs/api-security.md:36).  A header stands for its first 128 characters.
SourceOf(caller) ==
  IF caller.verified /\ caller.header # NoHeader
  THEN [kind |-> "trusted", name |-> caller.header]
  ELSE [kind |-> "peer", name |-> caller.peer]
Source == {SourceOf(caller) : caller \in Caller}

\* Mutated form: the header is believed without the ingress mark.
ClientKeyUnverified(caller) ==
  IF caller.header # NoHeader THEN [kind |-> "trusted", name |-> caller.header]
  ELSE [kind |-> "peer", name |-> caller.peer]

\* _client_key.
ClientKey(caller) ==
  IF caller.verified /\ caller.header # NoHeader
  THEN [kind |-> "trusted", name |-> caller.header]
  ELSE [kind |-> "peer", name |-> caller.peer]
Key == [kind : {"trusted"}, name : {c.header : c \in Caller}] \cup
       [kind : {"peer"}, name : {c.peer : c \in Caller}]

WindowTicks == Window * Second

\* Mutated form: a hit that is exactly a window old stays.
ExpiredStrict(h) ==
  CHOOSE n \in 0..Len(h) :
    /\ \A i \in 1..n : h[i] + WindowTicks < now
    /\ n < Len(h) => h[n + 1] + WindowTicks >= now

\* The hits that the popleft loop takes from the left end: all that are not
\* after the cutoff, up to the first that is.
Expired(h) ==
  CHOOSE n \in 0..Len(h) :
    /\ \A i \in 1..n : h[i] + WindowTicks <= now
    /\ n < Len(h) => h[n + 1] + WindowTicks > now

\* The deque after the popleft loop.
Remaining(h) == SubSeq(h, Expired(h) + 1, Len(h))

\* The limit is reached.
OverLimit(h) == Len(h) >= Limit

\* Mutated form: the time since the oldest hit instead of the time until it goes.
RetryAfterElapsed(h) ==
  LET seconds == (now - h[1]) \div Second IN IF seconds < 1 THEN 1 ELSE seconds

\* max(1, int(window_seconds - (now - hits[0]))).
RetryAfter(h) ==
  LET seconds == (WindowTicks - (now - h[1])) \div Second
  IN  IF seconds < 1 THEN 1 ELSE seconds

\* Mutated form: each message is held against the limit by itself.
CountedLast(sum, m) == m.size

\* total_body_bytes after a message.
Counted(sum, m) == sum + m.size

-----------------------------------------------------------------------------
(* Steps of a call.                                                        *)

\* The call is answered and nothing of it is kept.
Answer(c) ==
  /\ pc'  = [pc EXCEPT ![c] = "idle"]
  /\ who' = [who EXCEPT ![c] = Nobody]
  /\ total'     = [total EXCEPT ![c] = 0]
  /\ buffer'    = [buffer EXCEPT ![c] = <<>>]
  /\ sent'      = [sent EXCEPT ![c] = <<>>]
  /\ delivered' = [delivered EXCEPT ![c] = <<>>]

\* A call whose Content-Length is no number or too large is answered at once and
\* leaves nothing behind, so it is not opened.
LengthAccepted(length) ==
  /\ length.kind # "invalid"
  /\ length.kind = "given" => length.bytes <= MaxBody

\* A call arrives; only POST, PUT and PATCH have their body limited.
Open(c, caller) ==
  /\ pc[c] = "idle"
  /\ calls < MaxCalls
  /\ calls' = calls + 1
  /\ who' = [who EXCEPT ![c] = caller]
  /\ \E write \in BOOLEAN, length \in Lengths :
       /\ write => LengthAccepted(length)
       /\ pc' = [pc EXCEPT ![c] = IF write THEN "body" ELSE "limit"]
  /\ UNCHANGED <<now, hits, body, admitted, refused, due>>

\* One turn of the receive loop of BodySizeLimitMiddleware.
ReceiveBody(c, m) ==
  /\ pc[c] = "body"
  /\ m.more => Len(sent[c]) + 1 < MaxMessages
  /\ LET sum == IF m.gone THEN total[c] ELSE Counted(total[c], m) IN
       IF sum > MaxBody
       THEN Answer(c)
       ELSE /\ total'  = [total EXCEPT ![c] = sum]
            /\ buffer' = [buffer EXCEPT ![c] = Append(@, m)]
            /\ sent'   = [sent EXCEPT ![c] = Append(@, m)]
            /\ pc' = [pc EXCEPT ![c] = IF m.more THEN "body" ELSE "limit"]
            /\ UNCHANGED <<who, delivered>>
  /\ UNCHANGED <<now, hits, calls, admitted, refused, due>>

\* dispatch of InMemoryRateLimitMiddleware, which does not await before call_next.
Refuse(c) ==
  LET key == ClientKey(who[c])
      h   == Remaining(hits[key])
  IN  /\ pc[c] = "limit"
      /\ OverLimit(h)
      /\ hits' = [hits EXCEPT ![key] = h]
      /\ refused' = [refused EXCEPT ![SourceOf(who[c])] = @ + 1]
      /\ due' = [due EXCEPT ![SourceOf(who[c])] = now + (RetryAfter(h) + 1) * Second]
      /\ Answer(c)
      /\ UNCHANGED <<now, calls, admitted>>

Admit(c) ==
  LET key == ClientKey(who[c])
      h   == Remaining(hits[key])
  IN  /\ pc[c] = "limit"
      /\ ~OverLimit(h)
      /\ hits' = [hits EXCEPT ![key] = Append(h, now)]
      /\ admitted' = [admitted EXCEPT ![SourceOf(who[c])] = Append(@, now)]
      /\ due' = [due EXCEPT ![SourceOf(who[c])] = 0]
      /\ pc' = [pc EXCEPT ![c] = "handler"]
      /\ UNCHANGED <<now, who, body, calls, refused>>

\* Mutated form: the buffer is read from its end.
ReplayedLast(b) == IF b = <<>> THEN EmptyEnd ELSE b[Len(b)]

\* The message that replay_receive gives next.
Replayed(b) == IF b = <<>> THEN EmptyEnd ELSE b[1]

\* What replay_receive leaves in the buffer.
Unread(b) == IF b = <<>> THEN <<>> ELSE Tail(b)

\* The handler of a write reads; that of any other call would read from the server.
HandlerRead(c) ==
  /\ pc[c] = "handler" /\ sent[c] # <<>>
  /\ Len(delivered[c]) < Len(sent[c]) + MaxReads
  /\ delivered' = [delivered EXCEPT ![c] = Append(@, Replayed(buffer[c]))]
  /\ buffer' = [buffer EXCEPT ![c] = Unread(@)]
  /\ UNCHANGED <<now, hits, pc, who, total, sent, calls, admitted, refused, due>>

\* The handler answers, with or without reading the body.
HandlerAnswer(c) ==
  /\ pc[c] = "handler"
  /\ Answer(c)
  /\ UNCHANGED <<now, hits, calls, admitted, refused, due>>

Tick ==
  /\ now < MaxTime
  /\ now' = now + 1
  /\ UNCHANGED <<hits, pc, who, body, calls, admitted, refused, due>>

-----------------------------------------------------------------------------
Init ==
  /\ now = 0
  /\ hits      = [k \in Key |-> <<>>]
  /\ pc        = [c \in Connection |-> "idle"]
  /\ who       = [c \in Connection |-> Nobody]
  /\ total     = [c \in Connection |-> 0]
  /\ buffer    = [c \in Connection |-> <<>>]
  /\ sent      = [c \in Connection |-> <<>>]
  /\ delivered = [c \in Connection |-> <<>>]
  /\ calls = 0
  /\ admitted  = [s \in Source |-> <<>>]
  /\ refused   = [s \in Source |-> 0]
  /\ due       = [s \in Source |-> 0]

Next ==
  \/ \E c \in Connection :
       \/ \E caller \in Caller : Open(c, caller)
       \/ \E m \in Messages : ReceiveBody(c, m)
       \/ Refuse(c) \/ Admit(c) \/ HandlerRead(c) \/ HandlerAnswer(c)
  \/ Tick

Spec == Init /\ [][Next]_vars

-----------------------------------------------------------------------------
(* Correctness.                                                            *)

\* TypeOK: the types of the state; a deque never holds more than Limit hits.
TypeOK ==
  /\ now \in 0..MaxTime /\ calls \in 0..MaxCalls
  /\ hits \in [Key -> Seq(Nat)]
  /\ \A k \in Key : Len(hits[k]) <= Limit
  /\ pc \in [Connection -> Places]
  /\ who \in [Connection -> Caller \cup {Nobody}]
  /\ \A c \in Connection : pc[c] # "idle" => who[c] \in Caller
  /\ total \in [Connection -> 0..MaxBody]
  /\ buffer \in [Connection -> Seq(Messages)]
  /\ sent \in [Connection -> Seq(Messages)]
  /\ delivered \in [Connection -> Seq(Messages \cup {EmptyEnd})]
  /\ admitted \in [Source -> Seq(Nat)]
  /\ refused \in [Source -> Nat]
  /\ due \in [Source -> Nat]

\* WindowHolds: of any Limit + 1 consecutive calls that dispatch admits from one
\* source, the first and the last are at least a window apart, although the
\* deque that is consulted has long forgotten the first.
WindowHolds ==
  \A s \in Source : \A i \in 1..Len(admitted[s]) :
    i + Limit <= Len(admitted[s])
      => admitted[s][i + Limit] >= admitted[s][i] + WindowTicks

\* RetryIsServed: a source that was refused, and of which no call was admitted
\* since, is under its limit one second after the Retry-After it was given.  (At
\* Retry-After itself it need not be: int() truncates.)
RetryIsServed ==
  \A s \in Source :
    due[s] > 0 /\ now >= due[s] => ~OverLimit(Remaining(hits[s]))

\* The messages together are within max_body_bytes: the running sum of their
\* sizes, message by message, never leaves 0..MaxBody.
WithinMaxBody(messages) ==
  \E sums \in [0..Len(messages) -> 0..MaxBody] :
    /\ sums[0] = 0
    /\ \A i \in 1..Len(messages) : sums[i] = sums[i - 1] + messages[i].size

\* BodyWhole: a handler that reads up to the first message that announces no more,
\* an end or a disconnect, has read every message its client sent, in order and
\* without one of another call, and together they are within max_body_bytes,
\* whatever Content-Length said.  (It must stop there: what it reads afterwards is
\* made up, so after a disconnect it reads an end that was never sent.)
BodyWhole ==
  \A c \in Connection :
    LET read == delivered[c] IN
      pc[c] = "handler" =>
        \A i \in 1..Len(read) :
          ~read[i].more /\ (\A j \in 1..(i - 1) : read[j].more)
            => SubSeq(read, 1, i) = sent[c] /\ WithinMaxBody(sent[c])

\* ImplementsSlidingWindow: the deques, with their lazy expiry, admit and refuse
\* exactly what a limiter that remembers every admission does, source by source.
SW == INSTANCE SlidingWindow WITH Window <- WindowTicks
ImplementsSlidingWindow == SW!Spec
=============================================================================
