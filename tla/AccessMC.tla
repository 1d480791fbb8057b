------------------------------- MODULE AccessMC -------------------------------
(***************************************************************************)
(* TLC instance of Access: tokens of five kinds, of which one expires and  *)
(* one was signed with a default secret, and five environments.            *)
(***************************************************************************)
EXTENDS Access, TLC

MCScopes == ServiceAccountAllowed \cup {"review:write", "execution:run"}

MCTokens ==
  { [role |-> "admin",           scopes |-> {},     exp |-> 0,    secret |-> "new"],
    [role |-> "operator",        scopes |-> {},     exp |-> None, secret |-> "new"],
    [role |-> "reviewer",        scopes |-> {},     exp |-> None, secret |-> "old"],
    [role |-> "service_account", scopes |-> MCScopes, exp |-> None, secret |-> "old"],
    [role |-> "requester",       scopes |-> {},     exp |-> None, secret |-> "default"] }

Environment(production, required, secret, previous) ==
  [production |-> production, authRequired |-> required, tenantRequired |-> required,
   ingressRequired |-> required, secret |-> secret, previous |-> previous]

MCFirst == Environment(FALSE, FALSE, "default", {})

\* Development, authenticated staging, production after a change of the secret, and
\* two that must not start.
MCSettings ==
  { MCFirst,
    Environment(FALSE, TRUE, "old", {}),
    Environment(TRUE, TRUE, "new", {"old"}),
    Environment(TRUE, TRUE, "new", {"default"}),
    Environment(TRUE, FALSE, "new", {}) }

MCSymmetry == Permutations(Thread) \cup Permutations(Tenant)
=============================================================================
