\* Every request and every single edit of it.
SPECIFICATION Spec
INVARIANT DecisionColumnsAgree
INVARIANT AdmitsExactlyReleasable
PROPERTY WorseConditionsNeverAdmit
