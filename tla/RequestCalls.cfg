\* Two handlers that may die at any step: every review against queueing, workers and executes.
SPECIFICATION Spec
CONSTANTS
  Thread = {t1, t2}
  NoThread = NoThread
  Job = {j1}
  NoJob = NoJob
  Submissions <- EveryOutcome
  Edits <- NoEdits
  Kinds <- ReleaseKinds
  MaxCalls = 5
  CanAbort = TRUE
SYMMETRY Symmetry
INVARIANT TypeOK
INVARIANT ChainLinked
INVARIANT AnchorNeverAhead
INVARIANT FiledOnce
INVARIANT RefusedNeverReleased
INVARIANT ReleaseNeedsApproval
INVARIANT CompletedEventIsTruthful
PROPERTY DecisionIsFinal
PROPERTY JobsNeverReopen
PROPERTY ImplementsReleaseGate
CHECK_DEADLOCK FALSE
