---------------------------- MODULE SlidingWindow ----------------------------
(***************************************************************************)
(* What docs/api-security.md promises of the rate limit, without the       *)
(* limiter's data: calls of one source are admitted unless Limit of them   *)
(* were admitted within the last Window, and a call that is refused costs  *)
(* nothing.  The specification remembers every admission for ever.         *)
(***************************************************************************)
EXTENDS Integers, Sequences

CONSTANTS Source, Limit, Window

VARIABLES
  now,       \* time
  admitted,  \* the times at which calls of each source were admitted
  refused    \* how many calls of each source were refused

vars == <<now, admitted, refused>>

\* The Limit-th last admission is still within the window.
Full(s) ==
  /\ Len(admitted[s]) >= Limit
  /\ admitted[s][Len(admitted[s]) - Limit + 1] + Window > now

Init ==
  /\ now \in Nat
  /\ admitted = [s \in Source |-> <<>>]
  /\ refused  = [s \in Source |-> 0]

Advance == now' > now /\ UNCHANGED <<admitted, refused>>

Admit(s) ==
  /\ ~Full(s)
  /\ admitted' = [admitted EXCEPT ![s] = Append(@, now)]
  /\ UNCHANGED <<now, refused>>

Refuse(s) ==
  /\ Full(s)
  /\ refused' = [refused EXCEPT ![s] = @ + 1]
  /\ UNCHANGED <<now, admitted>>

Next == Advance \/ \E s \in Source : Admit(s) \/ Refuse(s)

Spec == Init /\ [][Next]_vars
=============================================================================
