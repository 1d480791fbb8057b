\* One client: an approval after the execution opens the request again.
SPECIFICATION Spec
CONSTANTS
  Thread = {t1}
  NoThread = NoThread
  Job = {j1}
  NoJob = NoJob
  Submissions <- OnlyAdmit
  Edits <- NoEdits
  Kinds <- ApproveExecute
  MaxCalls = 3
  CanAbort = FALSE
PROPERTY ExecutedIsOneWay
CHECK_DEADLOCK FALSE
