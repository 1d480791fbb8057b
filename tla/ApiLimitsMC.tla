----------------------------- MODULE ApiLimitsMC -----------------------------
(***************************************************************************)
(* TLC instance of ApiLimits: two calls at once from three senders behind  *)
(* one peer: one without the client header, one that sets the header       *)
(* itself, and the ingress, which sets it with its mark.                   *)
(***************************************************************************)
EXTENDS ApiLimits, TLC

CONSTANTS c1, c2

MCConnection == {c1, c2}
MCCaller ==
  { [peer |-> "p", verified |-> FALSE, header |-> NoHeader],
    [peer |-> "p", verified |-> FALSE, header |-> "a"],
    [peer |-> "p", verified |-> TRUE,  header |-> "a"] }
MCSymmetry == Permutations(MCConnection)
=============================================================================
