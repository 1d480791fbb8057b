-------------------------------- MODULE Access --------------------------------
(***************************************************************************)
(* Who may do what: the start-up checks of a production server, signed     *)
(* tokens and role headers, the permission table, the tenant guard, and    *)
(* the registry of customers, workflows and requests that it guards.       *)
(*                                                                         *)
(* A handler checks the caller when a call arrives, looks rows up, and     *)
(* commits, three steps between which other handlers run.  Rows are never  *)
(* deleted and their owners never updated, so that a handler's lookups are *)
(* one step.  A token is what it says and the secret it was signed with.   *)
(* What review, execute and the job routes do to a request is              *)
(* RequestRuntime; here they only leave a trace.  The legacy routes,       *)
(* metrics and monitoring ask neither for an actor nor for a tenant, in    *)
(* production too; health routes, which read no row, are left out.         *)
(***************************************************************************)
EXTENDS Naturals, FiniteSets

CONSTANTS
  Thread,       \* handler threads
  Tenant,       \* customer ids, which are the tenants
  Workflow,     \* workflow ids
  Request,      \* request ids
  None,         \* no tenant header, no row, no token, no role header
  Tokens,       \* bearer tokens that callers hold: [role, scopes, exp, secret]
  Settings,     \* environments that the server is started with
  FirstSetting,
  HeaderScopes, \* scopes that headers claim; with fewer, fewer calls are admitted
  SafeSecrets,  \* is_safe_secret: long enough and not a default
  MaxTime       \* bound: seconds

ASSUME AccessAssumption ==
  /\ None \notin Tenant
  /\ MaxTime \in Nat

VARIABLES
  setting,   \* the environment of the running server
  now,       \* its clock, in seconds
  customers, \* the customers rows
  workflows, \* the workflows rows: the customer of each id
  requests,  \* the operation_requests rows: customer and workflow of each id
  call,      \* the call that each handler has admitted, or what it showed in its last answer
  demo,      \* requests that the legacy routes keep in memory
  acted,     \* history: roles that reviewed and released each request, administrators aside
  proven     \* history: the call was admitted with a good token through the ingress

vars == <<setting, now, customers, workflows, requests, call, acted, demo, proven>>

-----------------------------------------------------------------------------
(* Settings.                                                               *)

\* Mutated form: the secrets kept for old tokens are not checked.
SafeKeysCurrentOnly(s) == s.secret \in SafeSecrets

\* The part of validate_key_settings that is about tokens.
SafeKeys(s) ==
  /\ s.secret \in SafeSecrets
  /\ s.previous \subseteq SafeSecrets \ {s.secret}

\* validate_production_settings; the database and the CORS origins are left out.
MayStart(s) ==
  s.production =>
    s.tenantRequired /\ s.ingressRequired /\ s.authRequired /\ SafeKeys(s)

ASSUME FirstSettingAssumption == MayStart(FirstSetting)

AuthRequired    == setting.production \/ setting.authRequired
TenantRequired  == setting.production \/ setting.tenantRequired
IngressRequired == setting.production \/ setting.ingressRequired

\* auth_verification_secrets.
VerificationSecrets == {setting.secret} \cup setting.previous

-----------------------------------------------------------------------------
(* Roles and permissions.                                                  *)

\* Without dashboard:read, whose route only counts.
PermissionsByRole ==
  [requester       |-> {"request:create", "evidence:attach", "request:read"},
   reviewer        |-> {"request:read", "review:write", "receipt:read", "replay:run", "audit:read"},
   executor        |-> {"request:read", "execution:run", "execution_job:write", "execution_job:read"},
   auditor         |-> {"request:read", "receipt:read", "replay:run", "audit:read", "execution_job:read"},
   admin           |-> {"*"},
   tenant_admin    |-> {"customer:write", "workflow:write", "request:read", "audit:read"},
   service_account |-> {},
   operator        |-> {"customer:write", "workflow:write", "request:create", "evidence:attach",
                        "request:read", "execution:run", "execution_job:write",
                        "execution_job:read", "receipt:read", "replay:run", "audit:read"}]

Roles == DOMAIN PermissionsByRole

\* A token of any other role is refused, whoever signed it.
ASSUME TokensAssumption == \A token \in Tokens : token.role \in Roles

ServiceAccountAllowed ==
  {"request:create", "evidence:attach", "request:read", "receipt:read", "replay:run",
   "audit:read", "execution_job:read", "execution_job:write"}

\* require_permission.
Permitted(actor, permission) ==
  \/ actor.role = "admin"
  \/ permission \in PermissionsByRole[actor.role]
  \/ /\ actor.role = "service_account"
     /\ permission \in ServiceAccountAllowed \cap actor.scopes

\* Mutated form: the roles that may list jobs.
SetUpRolesOfLists == {"admin", "operator", "reviewer", "auditor"}

\* The roles of the customer, workflow and job routes that write.
SetUpRoles == {"admin", "operator"}

\* The check with which each route begins.
MayCall(actor, op) ==
  CASE op \in {"customer", "workflow", "job"} -> actor.role \in SetUpRoles
    [] op = "evaluate"         -> Permitted(actor, "request:create")
    [] op \in {"read", "list"} -> Permitted(actor, "request:read")
    [] op = "review"           -> Permitted(actor, "review:write")
    [] op = "execute"          -> Permitted(actor, "execution:run")

\* verify_auth_token.
TokenAccepted(token) ==
  /\ token.secret \in VerificationSecrets
  /\ token.exp # None => token.exp >= now

\* History: what a production server asks of a token, whatever it was started with.
GoodToken(token) ==
  /\ token.secret \in SafeSecrets
  /\ token.exp # None => token.exp >= now

\* get_actor: the actors a call can be made by, those of accepted tokens or, without
\* authentication, those that headers name, which default to the operator.
Actors(ingress) ==
  IF IngressRequired /\ ~ingress THEN {}
  ELSE IF AuthRequired
  THEN {[role |-> token.role, scopes |-> token.scopes,
         proven |-> ingress /\ GoodToken(token)] :
          token \in {k \in Tokens : TokenAccepted(k)}}
  ELSE [role : Roles, scopes : {HeaderScopes}, proven : {FALSE}]

-----------------------------------------------------------------------------
(* The tenant guard.                                                       *)

\* Mutated form: the guard of workflows only looks for the row.
WorkflowForAny(id, tenant) == workflows[id] # None

\* require_tenant_access.
TenantAccess(owner, tenant) == tenant = None \/ owner = tenant

\* get_workflow_for_tenant and get_request_for_tenant.
WorkflowFor(id, tenant) == workflows[id] # None /\ TenantAccess(workflows[id], tenant)
RequestFor(id, tenant)  == requests[id] # None /\ TenantAccess(requests[id].customer, tenant)

\* list_requests.
ListedFor(tenant) ==
  {id \in Request : requests[id] # None /\ (tenant # None => requests[id].customer = tenant)}

-----------------------------------------------------------------------------
(* Calls.                                                                  *)

\* Calls on a request that is there.
RequestOps == {"read", "review", "execute", "job"}

\* What a call names.
Payload(op, customer, workflow, request) ==
  [op : {op}, customer : customer, workflow : workflow, request : request]

Payloads ==
  Payload("customer", Tenant, {None}, {None})
  \cup Payload("workflow", Tenant, Workflow, {None})
  \cup Payload("evaluate", Tenant, Workflow, Request)
  \cup (UNION {Payload(op, {None}, {None}, Request) : op \in RequestOps})
  \cup Payload("list", {None}, {None}, {None})

\* The routes on whose caller DutiesSeparate depends.
Duties == {"review", "execute", "job"}

\* A handler without a call, and what it showed in its last answer.
Idle(tenant, owners) == [op |-> "none", tenant |-> tenant, owners |-> owners]

\* A call passes the checks that need no row.  One that does not changes nothing.
Arrive(t) ==
  /\ call[t].op = "none"
  /\ \E p \in Payloads, ingress \in BOOLEAN, tenant \in Tenant \cup {None} :
       \E actor \in Actors(ingress) :
         /\ MayCall(actor, p.op)
         /\ TenantRequired => tenant # None
         /\ p.customer # None => TenantAccess(p.customer, tenant)
         /\ call' = [call EXCEPT ![t] =
              [op |-> p.op, step |-> "lookup", tenant |-> tenant,
               role |-> IF p.op \in Duties THEN actor.role ELSE None,
               customer |-> p.customer, workflow |-> p.workflow, request |-> p.request]]
         /\ proven' = [proven EXCEPT ![t] = actor.proven]
  /\ UNCHANGED <<setting, now, customers, workflows, requests, acted, demo>>

\* The routes without get_actor and get_tenant_id: the legacy evaluate, and those that
\* only read: the legacy decisions, receipts and replays, and the two that count the
\* rows of every tenant and show none.
OpenOps == {"demo", "look"}

\* A call of an open route is admitted, whoever makes it.
ArriveOpen(t) ==
  /\ call[t].op = "none"
  /\ \E op \in OpenOps, request \in Request :
       call' = [call EXCEPT ![t] =
         [op |-> op, step |-> "lookup", tenant |-> None, role |-> None,
          customer |-> None, workflow |-> None, request |-> request]]
  /\ proven' = [proven EXCEPT ![t] = FALSE]
  /\ UNCHANGED <<setting, now, customers, workflows, requests, acted, demo>>

Answer(t, owners) ==
  /\ call'   = [call EXCEPT ![t] = Idle(call[t].tenant, owners)]
  /\ proven' = [proven EXCEPT ![t] = FALSE]

GoOn(t) ==
  /\ call' = [call EXCEPT ![t].step = "commit"]
  /\ UNCHANGED proven

\* create_customer up to its insert: an existing customer is the answer.
LookupCustomer(t) ==
  LET c == call[t] IN
  /\ c.op = "customer" /\ c.step = "lookup"
  /\ IF c.customer \in customers THEN Answer(t, {c.customer}) ELSE GoOn(t)
  /\ UNCHANGED <<setting, now, customers, workflows, requests, acted, demo>>

\* create_workflow up to its insert.
LookupWorkflow(t) ==
  LET c == call[t] IN
  /\ c.op = "workflow" /\ c.step = "lookup"
  /\ \/ c.customer \notin customers /\ Answer(t, {})
     \/ /\ c.customer \in customers /\ workflows[c.workflow] # None
        /\ Answer(t, IF TenantAccess(workflows[c.workflow], c.tenant)
                     THEN {workflows[c.workflow]} ELSE {})
     \/ c.customer \in customers /\ workflows[c.workflow] = None /\ GoOn(t)
  /\ UNCHANGED <<setting, now, customers, workflows, requests, acted, demo>>

\* create_and_evaluate_request up to its insert.
LookupEvaluate(t) ==
  LET c == call[t] IN
  /\ c.op = "evaluate" /\ c.step = "lookup"
  /\ IF WorkflowFor(c.workflow, c.tenant) /\ requests[c.request] = None
     THEN GoOn(t) ELSE Answer(t, {})
  /\ UNCHANGED <<setting, now, customers, workflows, requests, acted, demo>>

\* Mutated form: an insert replaces the row that has its key.
KeyUnchecked(taken) == TRUE

\* The primary key refuses a row that another handler has inserted since the lookup.
KeyFree(taken) == ~taken

CommitCustomer(t) ==
  LET c == call[t] IN
  /\ c.op = "customer" /\ c.step = "commit"
  /\ customers' = customers \cup {c.customer}
  /\ Answer(t, IF c.customer \in customers THEN {} ELSE {c.customer})
  /\ UNCHANGED <<setting, now, workflows, requests, acted, demo>>

CommitWorkflow(t) ==
  LET c    == call[t]
      free == KeyFree(workflows[c.workflow] # None)
  IN
  /\ c.op = "workflow" /\ c.step = "commit"
  /\ workflows' = IF free THEN [workflows EXCEPT ![c.workflow] = c.customer] ELSE workflows
  /\ Answer(t, IF free THEN {c.customer} ELSE {})
  /\ UNCHANGED <<setting, now, customers, requests, acted, demo>>

CommitEvaluate(t) ==
  LET c    == call[t]
      free == KeyFree(requests[c.request] # None)
  IN
  /\ c.op = "evaluate" /\ c.step = "commit"
  /\ requests' =
       IF free
       THEN [requests EXCEPT ![c.request] =
               [customer |-> c.customer, workflow |-> c.workflow, tenant |-> c.tenant]]
       ELSE requests
  /\ Answer(t, IF free THEN {c.customer} ELSE {})
  /\ UNCHANGED <<setting, now, customers, workflows, acted, demo>>

\* get_request and the routes that act on a request found for the tenant.
OnRequest(t) ==
  LET c == call[t] IN
  /\ c.op \in RequestOps
  /\ IF RequestFor(c.request, c.tenant)
     THEN /\ Answer(t, {requests[c.request].customer})
          /\ acted' =
               IF c.role \in {None, "admin"} THEN acted
               ELSE [acted EXCEPT ![c.request] = @ \cup
                       {[role |-> c.role, duty |-> IF c.op = "review" THEN "review" ELSE "release"]}]
     ELSE Answer(t, {}) /\ UNCHANGED acted
  /\ UNCHANGED <<setting, now, customers, workflows, requests, demo>>

ListRequests(t) ==
  LET c == call[t] IN
  /\ c.op = "list"
  /\ Answer(t, {requests[id].customer : id \in ListedFor(c.tenant)})
  /\ UNCHANGED <<setting, now, customers, workflows, requests, acted, demo>>

\* Mutated form: the legacy evaluate files its request with the others.
OpenRouteFiles(t) ==
  LET c == call[t] IN
  /\ c.op \in OpenOps
  /\ requests' =
       IF c.op = "demo" /\ KeyFree(requests[c.request] # None)
       THEN [requests EXCEPT ![c.request] =
               [customer |-> None, workflow |-> None, tenant |-> None]]
       ELSE requests
  /\ Answer(t, {})
  /\ UNCHANGED <<setting, now, customers, workflows, acted, demo>>

\* The legacy evaluate keeps its request, whatever it kept under the same id.
OpenRoute(t) ==
  LET c == call[t] IN
  /\ c.op \in OpenOps
  /\ demo' = IF c.op = "demo" THEN demo \cup {c.request} ELSE demo
  /\ Answer(t, {})
  /\ UNCHANGED <<setting, now, customers, workflows, requests, acted>>

-----------------------------------------------------------------------------
(* The environment.                                                        *)

Tick ==
  /\ now < MaxTime
  /\ now' = now + 1
  /\ UNCHANGED <<setting, customers, workflows, requests, call, acted, demo, proven>>

\* A restart in another environment; calls in progress and legacy requests are lost.
Restart(s) ==
  /\ s # setting
  /\ MayStart(s)
  /\ setting' = s
  /\ call'    = [t \in Thread |-> Idle(None, {})]
  /\ proven'  = [t \in Thread |-> FALSE]
  /\ demo'    = {}
  /\ UNCHANGED <<now, customers, workflows, requests, acted>>

-----------------------------------------------------------------------------
Init ==
  /\ setting   = FirstSetting
  /\ now       = 0
  /\ customers = {}
  /\ workflows = [w \in Workflow |-> None]
  /\ requests  = [r \in Request |-> None]
  /\ call      = [t \in Thread |-> Idle(None, {})]
  /\ acted     = [r \in Request |-> {}]
  /\ demo      = {}
  /\ proven    = [t \in Thread |-> FALSE]

Step(t) ==
  \/ LookupCustomer(t) \/ LookupWorkflow(t) \/ LookupEvaluate(t)
  \/ CommitCustomer(t) \/ CommitWorkflow(t) \/ CommitEvaluate(t)
  \/ OnRequest(t) \/ ListRequests(t) \/ OpenRoute(t)

Next ==
  \/ \E t \in Thread : Arrive(t) \/ ArriveOpen(t) \/ Step(t)
  \/ Tick
  \/ \E s \in Settings : Restart(s)

Spec == Init /\ [][Next]_vars

-----------------------------------------------------------------------------
(* Correctness.                                                            *)

\* TenantsApart: an answer to a call that names a tenant shows rows of that tenant
\* only, also the rows that others inserted since the call began; a request filed
\* for a tenant is of that tenant and of one of its own workflows; and a production
\* server works on no call without a tenant, except those of the open routes.
TenantsApart ==
  /\ \A t \in Thread :
       /\ call[t].op = "none" /\ call[t].tenant # None => call[t].owners \subseteq {call[t].tenant}
       /\ setting.production /\ call[t].op \notin OpenOps \cup {"none"} => call[t].tenant # None
  /\ \A r \in Request :
       requests[r] # None /\ requests[r].tenant # None =>
         /\ requests[r].customer = requests[r].tenant
         /\ workflows[requests[r].workflow] = requests[r].tenant

\* DutiesSeparate: whoever has reviewed a request has not released it, neither with
\* execute nor through a job, in any mode of the server, except an administrator.
DutiesSeparate ==
  \A r \in Request, role \in Roles \ {"admin"} :
    {a.duty : a \in {b \in acted[r] : b.role = role}} # {"review", "release"}

\* OwnersStay: handlers that create the same thing at once never give it to another
\* customer: every row stays with the customer it was created for.
OwnersStay ==
  [][/\ customers \subseteq customers'
     /\ \A w \in Workflow : workflows[w] # None => workflows'[w] = workflows[w]
     /\ \A r \in Request : requests[r] # None => requests'[r] = requests[r]]_vars

\* ProductionIsGuarded: a production server changes rows, reviews and releases, and
\* shows rows of a customer, only for calls that came through the ingress with a token
\* that had not expired and was signed with a safe secret, whatever environments it ran
\* in before and whatever calls of open routes run in between.
ProductionIsGuarded ==
  [][setting.production =>
       /\ <<customers, workflows, requests, acted>>' # <<customers, workflows, requests, acted>> =>
            \E t \in Thread : proven[t] /\ call'[t] # call[t]
       /\ \A t \in Thread :
            call[t].op # "none" /\ call'[t].op = "none" /\ call'[t].owners # {} => proven[t]]_vars

=============================================================================
