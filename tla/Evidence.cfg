\* Two handlers, two items and one edit of each: attach, report, edit, die.
SPECIFICATION FairSpec
CONSTANTS
  Thread = {t1, t2}
  Item = {e1, e2}
  NoItem = NoItem
  MaxVersion = 2
  MaxCalls = 2
PROPERTY UncapturedNeverVerified
PROPERTY EditIsNoticed
PROPERTY UntouchedVerifies
PROPERTY EvidenceIsCaptured
