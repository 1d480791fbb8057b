\* One handler at a time, which may die, and edits of the stored conditions: what a retrying client can rely on.
SPECIFICATION Spec
CONSTANTS
  Thread = {t1}
  NoThread = NoThread
  Job = {j1, j2}
  NoJob = NoJob
  Submissions <- AdmitOrEscalate
  Edits <- EscalatingEdit
  Kinds <- UnreviewedKinds
  MaxCalls = 7
  CanAbort = TRUE
SYMMETRY Symmetry
INVARIANT ExecutedOnce
INVARIANT ResultKept
INVARIANT AnchorCurrent
PROPERTY JobEndsOnce
PROPERTY QueuedWaits
CHECK_DEADLOCK FALSE
