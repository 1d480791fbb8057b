-------------------------- MODULE PolicyPacksProofs --------------------------
(***************************************************************************)
(* What the policy packs promise, for every request.  PolicyPacksMC walks  *)
(* the conditions one edit at a time; here the promises are facts about    *)
(* all conditions, and about every pair of them, and the walk follows.     *)
(***************************************************************************)
EXTENDS PolicyPacksMC, TLAPS

-----------------------------------------------------------------------------
(* The packs.                                                              *)

ConditionsParts(c) ==
  /\ c.workflow \in Workflows /\ c.risk \in RiskLevels
  /\ c.authority \in BOOLEAN /\ c.scope \in BOOLEAN /\ c.present \in BOOLEAN
  /\ c.fresh \in BOOLEAN /\ c.approval \in BOOLEAN

LEMMA ConditionsHaveParts ==
  ASSUME NEW c \in Conditions
  PROVE  ConditionsParts(c)
BY DEF Conditions, ConditionsParts

\* The columns of a decision agree: it can be stored, and binding, effect and
\* outcome say the same.
ColumnsAgree(d) ==
  /\ d \in Results
  /\ d.noBind <=> d.outcome # "ADMIT"
  /\ d.effect = "AUTHORIZED_TO_PROCEED" <=> d.outcome = "ADMIT"

\* What a pack may answer: anything but an authorization it withholds.
Withheld == {Held(why) : why \in Effects \ {"AUTHORIZED_TO_PROCEED"}} \cup
            {Escalated(why) : why \in Effects \ {"AUTHORIZED_TO_PROCEED"}}
Answers  == {Admitted, Refused} \cup Withheld

LEMMA AnswersAgree ==
  ASSUME NEW d \in Answers
  PROVE  ColumnsAgree(d)
<1>1. ColumnsAgree(Admitted) /\ ColumnsAgree(Refused)
  BY DEF ColumnsAgree, Admitted, Refused, Result, Results, Outcomes, Effects
<1>2. ASSUME NEW why \in Effects \ {"AUTHORIZED_TO_PROCEED"}
      PROVE  ColumnsAgree(Held(why)) /\ ColumnsAgree(Escalated(why))
  BY DEF ColumnsAgree, Held, Escalated, Result, Results, Outcomes
<1> QED
  BY <1>1, <1>2 DEF Answers, Withheld

LEMMA AnswerOutcomes ==
  /\ Admitted.outcome = "ADMIT" /\ Refused.outcome = "REFUSE"
  /\ \A why : Held(why).outcome = "HOLD" /\ Escalated(why).outcome = "ESCALATE"
BY DEF Admitted, Refused, Held, Escalated, Result

\* Each pack admits exactly what its domain releases without review and
\* refuses exactly what has no authority.
LEMMA CyberDecides ==
  ASSUME NEW c, ConditionsParts(c)
  PROVE  /\ CyberEvaluate(c) \in Answers
         /\ CyberEvaluate(c).outcome = "REFUSE" <=> ~c.authority
         /\ CyberEvaluate(c).outcome = "ADMIT" <=>
              c.authority /\ EvidenceUsable(c) /\ ~c.approval /\ c.scope /\ c.risk # "critical"
<1>1. CyberEvaluate(c) \in Answers
  BY DEF CyberEvaluate, Answers, Withheld, Effects
<1> QED
  BY <1>1, AnswerOutcomes DEF ConditionsParts, CyberEvaluate

LEMMA FinanceDecides ==
  ASSUME NEW c, ConditionsParts(c)
  PROVE  /\ FinanceEvaluate(c) \in Answers
         /\ FinanceEvaluate(c).outcome = "REFUSE" <=> ~c.authority
         /\ FinanceEvaluate(c).outcome = "ADMIT" <=>
              c.authority /\ EvidenceUsable(c) /\ ~c.approval /\ c.risk \in {"low", "medium"}
<1>1. FinanceEvaluate(c) \in Answers
  BY DEF FinanceEvaluate, Answers, Withheld, Effects
<1> QED
  BY <1>1, AnswerOutcomes DEF ConditionsParts, FinanceEvaluate, RiskLevels

LEMMA HealthcareDecides ==
  ASSUME NEW c, ConditionsParts(c)
  PROVE  /\ HealthcareEvaluate(c) \in Answers
         /\ HealthcareEvaluate(c).outcome = "REFUSE" <=> ~c.authority
         /\ HealthcareEvaluate(c).outcome = "ADMIT" <=>
              c.authority /\ EvidenceUsable(c) /\ ~c.approval /\ c.risk = "low"
<1>1. HealthcareEvaluate(c) \in Answers
  BY DEF HealthcareEvaluate, Answers, Withheld, Effects
<1> QED
  BY <1>1, AnswerOutcomes DEF ConditionsParts, HealthcareEvaluate, RiskLevels

LEMMA PackOfWorkflow ==
  ASSUME NEW workflow
  PROVE  PackOf(workflow) \in Packs
BY DEF PackOf, Packs

\* The decision of the pack the workflow maps to, whichever it is.
LEMMA EvaluateDecides ==
  ASSUME NEW c, ConditionsParts(c)
  PROVE  /\ Evaluate(c) \in Answers
         /\ Evaluate(c).outcome = "REFUSE" <=> ~c.authority
         /\ Evaluate(c).outcome = "ADMIT" <=> ReleasableWithoutReview(c)
<1>1. CASE PackOf(c.workflow) = "cyber"
  BY <1>1, CyberDecides DEF Evaluate, ReleasableWithoutReview
<1>2. CASE PackOf(c.workflow) = "finance"
  BY <1>2, FinanceDecides DEF Evaluate, ReleasableWithoutReview
<1>3. CASE PackOf(c.workflow) = "healthcare"
  BY <1>3, HealthcareDecides DEF Evaluate, ReleasableWithoutReview
<1> QED
  BY <1>1, <1>2, <1>3, PackOfWorkflow DEF Packs

\* The risk levels are ordered as the packs read them.
LEMMA RiskOrder ==
  ASSUME NEW r \in RiskLevels, NEW s \in RiskLevels, Rank[r] <= Rank[s]
  PROVE  /\ s = "low" => r = "low"
         /\ s \in {"low", "medium"} => r \in {"low", "medium"}
         /\ s # "critical" => r # "critical"
BY DEF RiskLevels, Rank

LEMMA ReleasableIsMonotone ==
  ASSUME NEW c \in Conditions, NEW d \in Conditions, NoBetter(d, c),
         ReleasableWithoutReview(d)
  PROVE  ReleasableWithoutReview(c)
<1>1. ConditionsParts(c) /\ ConditionsParts(d)
  BY ConditionsHaveParts
<1>2. /\ c.workflow = d.workflow
      /\ c.authority /\ EvidenceUsable(c) /\ ~c.approval
      /\ d.scope => c.scope
      /\ Rank[c.risk] <= Rank[d.risk]
  BY <1>1 DEF NoBetter, ReleasableWithoutReview, EvidenceUsable, ConditionsParts
<1>3. /\ d.risk = "low" => c.risk = "low"
      /\ d.risk \in {"low", "medium"} => c.risk \in {"low", "medium"}
      /\ d.risk # "critical" => c.risk # "critical"
  BY <1>1, <1>2, RiskOrder DEF ConditionsParts
<1> QED
  BY <1>2, <1>3 DEF ReleasableWithoutReview

\* Monotonicity, for any two requests and not only for one edit: a request
\* that is in no condition better than one the packs withhold is withheld.
THEOREM WorseIsWithheld ==
  ASSUME NEW c \in Conditions, NEW d \in Conditions,
         NoBetter(d, c), Evaluate(c).outcome # "ADMIT"
  PROVE  Evaluate(d).outcome # "ADMIT"
BY ConditionsHaveParts, EvaluateDecides, ReleasableIsMonotone

-----------------------------------------------------------------------------
(* The walk over the conditions.                                           *)

TypeInv == conditions \in Conditions

LEMMA EditsStayConditions == TypeInv /\ [EditCondition]_conditions => TypeInv'
<1> SUFFICES ASSUME conditions \in Conditions, [EditCondition]_conditions
             PROVE  conditions' \in Conditions
  BY DEF TypeInv
<1>1. ASSUME NEW f \in {"authority", "scope", "present", "fresh", "approval"},
             conditions' = [conditions EXCEPT ![f] = ~@]
      PROVE  conditions' \in Conditions
  <2>1. CASE f = "authority"
    BY <1>1, <2>1 DEF Conditions
  <2>2. CASE f = "scope"
    BY <1>1, <2>2 DEF Conditions
  <2>3. CASE f = "present"
    BY <1>1, <2>3 DEF Conditions
  <2>4. CASE f = "fresh"
    BY <1>1, <2>4 DEF Conditions
  <2>5. CASE f = "approval"
    BY <1>1, <2>5 DEF Conditions
  <2> QED
    BY <2>1, <2>2, <2>3, <2>4, <2>5
<1>2. ASSUME NEW r \in RiskLevels, conditions' = [conditions EXCEPT !.risk = r]
      PROVE  conditions' \in Conditions
  BY <1>2 DEF Conditions
<1> QED
  BY <1>1, <1>2 DEF EditCondition

LEMMA ConditionsStay == Spec => []TypeInv
<1>1. Init => TypeInv
  BY DEF Init, TypeInv
<1> QED
  BY <1>1, EditsStayConditions, PTL DEF Spec

\* Whatever is submitted, the three columns of the decision that is stored agree.
THEOREM ColumnsAlwaysAgree == Spec => []DecisionColumnsAgree
<1>1. TypeInv => DecisionColumnsAgree
  BY ConditionsHaveParts, EvaluateDecides, AnswersAgree
     DEF TypeInv, DecisionColumnsAgree, ColumnsAgree
<1> QED
  BY <1>1, ConditionsStay, PTL

\* Whatever is submitted, the packs admit exactly what their domain releases
\* without review and refuse exactly what has no authority.
THEOREM AdmitsOnlyReleasable == Spec => []AdmitsExactlyReleasable
<1>1. TypeInv => AdmitsExactlyReleasable
  BY ConditionsHaveParts, EvaluateDecides DEF TypeInv, AdmitsExactlyReleasable
<1> QED
  BY <1>1, ConditionsStay, PTL

\* No edit that makes no condition better turns a withheld request into an
\* admitted one.
THEOREM WorseNeverAdmits == Spec => WorseConditionsNeverAdmit
<1>1. TypeInv /\ TypeInv'
        => [(NoBetter(conditions', conditions) /\ Evaluate(conditions).outcome # "ADMIT")
              => Evaluate(conditions').outcome # "ADMIT"]_conditions
  BY WorseIsWithheld DEF TypeInv
<1> QED
  BY <1>1, ConditionsStay, PTL DEF WorseConditionsNeverAdmit
=============================================================================
