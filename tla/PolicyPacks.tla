----------------------------- MODULE PolicyPacks -----------------------------
(***************************************************************************)
(* The admission rules of backend/app/policy_packs: a pure function from   *)
(* the conditions a request declares to the decision the runtime stores.   *)
(* Reason codes are explanatory text and are left out; the outcome, the    *)
(* protected-effect status and the no-bind flag are what the rest of the   *)
(* runtime compares.                                                       *)
(***************************************************************************)
EXTENDS Naturals

RiskLevels == {"low", "medium", "high", "critical"}
Packs      == {"cyber", "finance", "healthcare"}

\* "unlisted" stands for every workflow id the registry has no entry for.
Workflows == {"security-exception", "payment-release", "vendor-onboarding",
              "clinical-review", "unlisted"}

\* WORKFLOW_POLICY_MAP.get(workflow_id, "cyber")
PackOf(workflow) ==
  IF workflow \in {"payment-release", "vendor-onboarding"} THEN "finance"
  ELSE IF workflow = "clinical-review"                     THEN "healthcare"
  ELSE "cyber"

\* The fields of a CustomerRequest that a policy pack reads.
Conditions ==
  [workflow  : Workflows,
   authority : BOOLEAN, scope : BOOLEAN,
   present   : BOOLEAN, fresh : BOOLEAN,
   risk      : RiskLevels, approval : BOOLEAN]

Outcomes == {"ADMIT", "HOLD", "ESCALATE", "REFUSE"}

Effects == {"AUTHORIZED_TO_PROCEED", "NOT_RELEASED", "PENDING_HIGH_AUTHORITY_REVIEW",
            "PENDING_SCOPE_REVIEW", "PENDING_EVIDENCE_REVIEW",
            "PENDING_SECURITY_APPROVAL", "PENDING_FINANCE_APPROVAL",
            "PENDING_CLINICAL_EVIDENCE_REVIEW", "PENDING_CLINICAL_SIGNOFF"}

Results == [outcome : Outcomes, effect : Effects, noBind : BOOLEAN]

Result(outcome, effect, noBind) ==
  [outcome |-> outcome, effect |-> effect, noBind |-> noBind]

Refused        == Result("REFUSE", "NOT_RELEASED", TRUE)
Admitted       == Result("ADMIT", "AUTHORIZED_TO_PROCEED", FALSE)
HeldBinding(why) == Result("HOLD", why, FALSE)
Held(why)      == Result("HOLD", why, TRUE)
Escalated(why) == Result("ESCALATE", why, TRUE)

EvidenceUsable(c) == c.present /\ c.fresh

-----------------------------------------------------------------------------
(* The packs: a chain of early returns each, in the order of the code.  An *)
(* operator whose name ends in a mistake (WithoutScope, ...) is a mutated  *)
(* form the checks put in place of the one below it.                       *)

CyberEvaluateWithoutScope(c) ==
  IF ~c.authority               THEN Refused
  ELSE IF c.risk = "critical"   THEN Escalated("PENDING_HIGH_AUTHORITY_REVIEW")
  ELSE IF ~EvidenceUsable(c)    THEN Held("PENDING_EVIDENCE_REVIEW")
  ELSE IF c.approval            THEN Escalated("PENDING_SECURITY_APPROVAL")
  ELSE Admitted

CyberEvaluate(c) ==
  IF ~c.authority               THEN Refused
  ELSE IF c.risk = "critical"   THEN Escalated("PENDING_HIGH_AUTHORITY_REVIEW")
  ELSE IF ~c.scope              THEN Held("PENDING_SCOPE_REVIEW")
  ELSE IF ~EvidenceUsable(c)    THEN Held("PENDING_EVIDENCE_REVIEW")
  ELSE IF c.approval            THEN Escalated("PENDING_SECURITY_APPROVAL")
  ELSE Admitted

FinanceEvaluate(c) ==
  IF ~c.authority            THEN Refused
  ELSE IF c.risk \in {"high", "critical"} \/ c.approval
                             THEN Escalated("PENDING_FINANCE_APPROVAL")
  ELSE IF ~EvidenceUsable(c) THEN Held("PENDING_EVIDENCE_REVIEW")
  ELSE Admitted

HealthcareEvaluateFreshOnly(c) ==
  IF ~c.authority            THEN Refused
  ELSE IF ~c.fresh           THEN Held("PENDING_CLINICAL_EVIDENCE_REVIEW")
  ELSE IF c.risk = "medium" \/ c.approval
                             THEN Escalated("PENDING_CLINICAL_SIGNOFF")
  ELSE Admitted

HealthcareEvaluate(c) ==
  IF ~c.authority            THEN Refused
  ELSE IF ~EvidenceUsable(c) THEN Held("PENDING_CLINICAL_EVIDENCE_REVIEW")
  ELSE IF c.risk \in {"medium", "high", "critical"} \/ c.approval
                             THEN Escalated("PENDING_CLINICAL_SIGNOFF")
  ELSE Admitted

\* evaluate_request: the pack the workflow maps to decides.
Evaluate(c) ==
  IF PackOf(c.workflow) = "finance"         THEN FinanceEvaluate(c)
  ELSE IF PackOf(c.workflow) = "healthcare" THEN HealthcareEvaluate(c)
  ELSE CyberEvaluate(c)

-----------------------------------------------------------------------------
(* What the decisions promise, stated without the packs' order of tests.   *)

\* The conditions under which each domain lets a request go without a human.
ReleasableWithoutReview(c) ==
  /\ c.authority /\ EvidenceUsable(c) /\ ~c.approval
  /\ PackOf(c.workflow) = "cyber"      => c.scope /\ c.risk # "critical"
  /\ PackOf(c.workflow) = "finance"    => c.risk \in {"low", "medium"}
  /\ PackOf(c.workflow) = "healthcare" => c.risk = "low"

Rank == [low |-> 0, medium |-> 1, high |-> 2, critical |-> 3]

\* d is at most as favourable as c: same workflow, no condition better.
NoBetter(d, c) ==
  /\ d.workflow = c.workflow
  /\ d.authority => c.authority
  /\ d.scope     => c.scope
  /\ d.present   => c.present
  /\ d.fresh     => c.fresh
  /\ c.approval  => d.approval
  /\ Rank[c.risk] <= Rank[d.risk]
=============================================================================
