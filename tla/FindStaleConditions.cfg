\* The stored conditions are edited while an execute is in progress.
SPECIFICATION Spec
CONSTANTS
  Thread = {t1}
  NoThread = NoThread
  Job = {j1}
  NoJob = NoJob
  Submissions <- OnlyAdmit
  Edits <- EscalatingEdit
  Kinds <- ApproveExecute
  MaxCalls = 2
  CanAbort = FALSE
PROPERTY ExecutesOnCurrentConditions
CHECK_DEADLOCK FALSE
