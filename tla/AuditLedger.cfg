\* Three events, three changes behind the API, a clock that may step back, both readers, one execute.
SPECIFICATION Spec
CONSTANTS
  Executor = {e1}
  MaxEvents = 3
  MaxTampers = 3
  ClockSteps = TRUE
INVARIANTS VerifiedRowsStand VerifiedIsWhole HonestVerifies
CHECK_DEADLOCK FALSE
