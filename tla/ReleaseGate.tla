----------------------------- MODULE ReleaseGate -----------------------------
(***************************************************************************)
(* What the runtime promises about one request, with no rows, sessions or  *)
(* jobs: a decision is taken once; a request that was not refused may be   *)
(* approved by a reviewer; and it is released only if it was admitted or   *)
(* has been approved.                                                      *)
(***************************************************************************)

VARIABLES outcome, approved, released

Init ==
  /\ outcome  = "NONE"
  /\ approved = FALSE
  /\ released = FALSE

Decide ==
  /\ outcome = "NONE"
  /\ outcome' \in {"ADMIT", "HOLD", "ESCALATE", "REFUSE"}
  /\ UNCHANGED <<approved, released>>

Approve ==
  /\ outcome \in {"ADMIT", "HOLD", "ESCALATE"}
  /\ approved' = TRUE
  /\ UNCHANGED <<outcome, released>>

Release ==
  /\ \/ outcome = "ADMIT"
     \/ outcome \in {"HOLD", "ESCALATE"} /\ approved
  /\ released' = TRUE
  /\ UNCHANGED <<outcome, approved>>

Next == Decide \/ Approve \/ Release

Spec == Init /\ [][Next]_<<outcome, approved, released>>
=============================================================================
