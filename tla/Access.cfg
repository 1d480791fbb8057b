\* Two handlers, two tenants, five kinds of token, restarts in five environments.
SPECIFICATION Spec
CONSTANTS
  Thread = {t1, t2}
  Tenant = {a, b}
  Workflow = {w}
  Request = {r}
  None = None
  Tokens <- MCTokens
  Settings <- MCSettings
  FirstSetting <- MCFirst
  HeaderScopes <- MCScopes
  SafeSecrets = {"new", "old"}
  MaxTime = 1
SYMMETRY MCSymmetry
INVARIANT TenantsApart
INVARIANT DutiesSeparate
PROPERTY OwnersStay
PROPERTY ProductionIsGuarded
