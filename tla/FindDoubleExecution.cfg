\* Two executes at once.
SPECIFICATION Spec
CONSTANTS
  Thread = {t1, t2}
  NoThread = NoThread
  Job = {j1}
  NoJob = NoJob
  Submissions <- OnlyAdmit
  Edits <- NoEdits
  Kinds <- ApproveExecute
  MaxCalls = 3
  CanAbort = FALSE
INVARIANT RepeatedCallsRecordOnce
CHECK_DEADLOCK FALSE
