---------------------------- MODULE PolicyPacksMC ----------------------------
(***************************************************************************)
(* Walks every request a client can submit: any conditions at first, then  *)
(* one condition at a time is edited and the policy asked again, as the    *)
(* execute and replay routes ask it about a stored request.                *)
(***************************************************************************)
EXTENDS PolicyPacks

VARIABLE conditions

Init == conditions \in Conditions

EditCondition ==
  \/ \E f \in {"authority", "scope", "present", "fresh", "approval"} :
       conditions' = [conditions EXCEPT ![f] = ~@]
  \/ \E r \in RiskLevels : conditions' = [conditions EXCEPT !.risk = r]

Spec == Init /\ [][EditCondition]_conditions

-----------------------------------------------------------------------------
\* Every decision is one of the records the Decision table can hold, and a
\* decision binds nothing (no_bind) exactly when it is not an ADMIT, which is
\* exactly when its protected effect is not AUTHORIZED_TO_PROCEED: the three
\* columns _final_execution_error compares never contradict each other.
DecisionColumnsAgree ==
  LET d == Evaluate(conditions) IN
    /\ d \in Results
    /\ d.noBind <=> d.outcome # "ADMIT"
    /\ d.effect = "AUTHORIZED_TO_PROCEED" <=> d.outcome = "ADMIT"

\* The packs admit exactly the requests their domain releases without review,
\* and refuse exactly the requests without authority, whatever else holds.
AdmitsExactlyReleasable ==
  /\ Evaluate(conditions).outcome = "ADMIT" <=> ReleasableWithoutReview(conditions)
  /\ Evaluate(conditions).outcome = "REFUSE" <=> ~conditions.authority

\* Monotonicity: editing a request so that no condition is better never turns
\* a decision that withheld the request into one that admits it.
WorseConditionsNeverAdmit ==
  [][(NoBetter(conditions', conditions) /\ Evaluate(conditions).outcome # "ADMIT")
       => Evaluate(conditions').outcome # "ADMIT"]_conditions
=============================================================================
