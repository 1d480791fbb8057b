\* Two exporters, a reader of their file, one attach call, one edit, one rotation of keys.
SPECIFICATION Spec
CONSTANTS
  Thread = {t1}
  Item = {e1}
  NoItem = NoItem
  MaxVersion = 2
  MaxCalls = 1
  Exporter = {x1, x2}
  Second = {1}
  Settings <- MCSettings
  FirstSetting <- MCFirst
  WriteSize = 2
  ReadSize = 3
  MaxEdits = 1
  MaxExports = 2
  MaxDeploys = 1
INVARIANT VerifiedIsOneMoment
INVARIANT VerifiedReadIsABundle
INVARIANT LastExportStands
INVARIANT ListedKeysVerify
SYMMETRY MCSymmetry
CHECK_DEADLOCK FALSE
