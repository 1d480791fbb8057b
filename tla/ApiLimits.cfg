\* Two calls at once from three kinds of sender; a window of three seconds in half seconds.
SPECIFICATION Spec
CONSTANTS
  c1 = c1
  c2 = c2
  NoHeader = NoHeader
  Nobody = Nobody
  Connection <- MCConnection
  Caller <- MCCaller
  Limit = 2
  Window = 3
  Second = 2
  MaxBody = 2
  ChunkSize = {1, 2}
  MaxMessages = 2
  MaxReads = 1
  MaxTime = 7
  MaxCalls = 3
SYMMETRY MCSymmetry
INVARIANTS BodyWhole WindowHolds RetryIsServed
PROPERTY ImplementsSlidingWindow
CHECK_DEADLOCK FALSE
