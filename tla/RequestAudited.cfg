\* Fair handlers that do not die: every call returns and leaves a ledger that verifies.
SPECIFICATION FairSpec
CONSTANTS
  Thread = {t1, t2}
  NoThread = NoThread
  Job = {j1, j2, j3}
  NoJob = NoJob
  Submissions <- AdmitOrEscalate
  Edits <- NoEdits
  Kinds <- AuditKinds
  MaxCalls = 4
  CanAbort = FALSE
INVARIANT AnchorCurrentWhenRecorded
PROPERTY CallsReturn
PROPERTY DecisionIsAudited
CHECK_DEADLOCK FALSE
