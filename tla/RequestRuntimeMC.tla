-------------------------- MODULE RequestRuntimeMC --------------------------
(***************************************************************************)
(* Small instances of RequestRuntime for TLC.  A cfg picks the threads,    *)
(* the kinds of call and the bound on calls; the conditions below are one  *)
(* request of each outcome.                                                *)
(***************************************************************************)
EXTENDS RequestRuntime, TLC

Symmetry == Permutations(Thread) \cup Permutations(Job)

Base == [workflow |-> "payment-release", authority |-> TRUE, scope |-> TRUE,
         present |-> TRUE, fresh |-> TRUE, risk |-> "low", approval |-> FALSE]

AdmitConditions    == Base
EscalateConditions == [Base EXCEPT !.approval = TRUE]
HoldConditions     == [Base EXCEPT !.fresh = FALSE]
RefuseConditions   == [Base EXCEPT !.authority = FALSE]

EveryOutcome    == {AdmitConditions, EscalateConditions, HoldConditions, RefuseConditions}
AdmitOrEscalate == {AdmitConditions, EscalateConditions}
OnlyAdmit       == {AdmitConditions}
NoEdits         == {}
EscalatingEdit  == {EscalateConditions}

ReleaseKinds    == AllKinds \ {"view", "verify"}
AuditKinds      == {"evaluate", "approve", "hold", "escalate", "verify", "execute", "view", "queue"}
UnreviewedKinds == AllKinds \ ReviewKinds
ApproveExecute  == {"evaluate", "approve", "execute"}
=============================================================================
