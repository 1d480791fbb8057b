------------------------------ MODULE AccessProofs ------------------------------
(***************************************************************************)
(* What Access guarantees for every set of handlers, tenants, workflows,   *)
(* requests, tokens and environments.                                      *)
(***************************************************************************)
EXTENDS Access, TLAPS

CreateOps == {"customer", "workflow", "evaluate"}
Ops       == CreateOps \cup RequestOps \cup {"list"} \cup OpenOps

Idles == [op : {"none"}, tenant : Tenant \cup {None}, owners : SUBSET Tenant]
Busy  == [op : Ops, step : {"lookup", "commit"}, tenant : Tenant \cup {None},
          role : Roles \cup {None}, customer : Tenant \cup {None},
          workflow : Workflow \cup {None}, request : Request \cup {None}]
Rows  == [customer : Tenant, workflow : Workflow, tenant : Tenant \cup {None}]

TypeInv ==
  /\ customers \subseteq Tenant
  /\ workflows \in [Workflow -> Tenant \cup {None}]
  /\ requests  \in [Request -> Rows \cup {None}]
  /\ demo      \subseteq Request
  /\ call      \in [Thread -> Idles \cup Busy]
  /\ proven    \in [Thread -> BOOLEAN]
  /\ acted     \in [Request -> SUBSET [role : Roles, duty : {"review", "release"}]]
  /\ \A t \in Thread : call[t] \in Busy =>
       /\ call[t].op \in CreateOps => call[t].customer \in Tenant
       /\ call[t].op \in {"workflow", "evaluate"} => call[t].workflow \in Workflow
       /\ call[t].op \in RequestOps \cup {"evaluate"} \cup OpenOps => call[t].request \in Request

LEMMA IdleOrBusy ==
  ASSUME TypeInv, NEW t \in Thread
  PROVE  /\ call[t].op = "none" <=> call[t] \in Idles
         /\ call[t].op # "none" <=> call[t] \in Busy
BY DEF TypeInv, Idles, Busy, Ops, CreateOps, RequestOps, OpenOps

LEMMA PayloadTypes ==
  ASSUME NEW p \in Payloads
  PROVE  /\ p.op \in Ops
         /\ p.customer \in Tenant \cup {None}
         /\ p.workflow \in Workflow \cup {None} /\ p.request \in Request \cup {None}
         /\ p.op \in CreateOps => p.customer \in Tenant
         /\ p.op \in {"workflow", "evaluate"} => p.workflow \in Workflow
         /\ p.op \in RequestOps \cup {"evaluate"} \cup OpenOps => p.request \in Request
         /\ p.op \notin OpenOps
<1>1. CASE p \in Payload("customer", Tenant, {None}, {None})
  BY <1>1 DEF Payload, Ops, CreateOps, RequestOps, OpenOps
<1>2. CASE p \in Payload("workflow", Tenant, Workflow, {None})
  BY <1>2 DEF Payload, Ops, CreateOps, RequestOps, OpenOps
<1>3. CASE p \in Payload("evaluate", Tenant, Workflow, Request)
  BY <1>3 DEF Payload, Ops, CreateOps, RequestOps, OpenOps
<1>4. CASE \E op \in RequestOps : p \in Payload(op, {None}, {None}, Request)
  <2>1. PICK op \in RequestOps : p \in Payload(op, {None}, {None}, Request)
    BY <1>4
  <2>2. p.op = op /\ p.customer = None /\ p.workflow = None /\ p.request \in Request
    BY <2>1 DEF Payload
  <2> QED
    BY <2>2 DEF Ops, CreateOps, RequestOps, OpenOps
<1>5. CASE p \in Payload("list", {None}, {None}, {None})
  BY <1>5 DEF Payload, Ops, CreateOps, RequestOps, OpenOps
<1>6. ASSUME p \in UNION {Payload(op, {None}, {None}, Request) : op \in RequestOps}
      PROVE  \E op \in RequestOps : p \in Payload(op, {None}, {None}, Request)
  BY <1>6, Zenon
<1>7. \/ p \in Payload("customer", Tenant, {None}, {None})
      \/ p \in Payload("workflow", Tenant, Workflow, {None})
      \/ p \in Payload("evaluate", Tenant, Workflow, Request)
      \/ p \in UNION {Payload(op, {None}, {None}, Request) : op \in RequestOps}
      \/ p \in Payload("list", {None}, {None}, {None})
  BY DEF Payloads
<1> QED
  BY <1>1, <1>2, <1>3, <1>4, <1>5, <1>6, <1>7

LEMMA ActorRoles ==
  ASSUME NEW ingress \in BOOLEAN, NEW actor \in Actors(ingress)
  PROVE  actor.role \in Roles /\ actor.proven \in BOOLEAN
<1>1. CASE IngressRequired /\ ~ingress
  BY <1>1 DEF Actors
<1>2. CASE ~(IngressRequired /\ ~ingress) /\ AuthRequired
  <2>1. PICK token \in {k \in Tokens : TokenAccepted(k)} :
          actor = [role |-> token.role, scopes |-> token.scopes,
                   proven |-> ingress /\ GoodToken(token)]
    BY <1>2, Zenon DEF Actors
  <2>2. actor.role = token.role
    BY <2>1
  <2>3. actor.proven \in BOOLEAN
    <3>1. actor.proven = (ingress /\ GoodToken(token))
      BY <2>1
    <3>2. GoodToken(token) \in BOOLEAN
      BY DEF GoodToken
    <3> QED
      BY <3>1, <3>2
  <2> QED
    BY <2>1, <2>2, <2>3, TokensAssumption
<1>3. CASE ~(IngressRequired /\ ~ingress) /\ ~AuthRequired
  <2>1. actor \in [role : Roles, scopes : {HeaderScopes}, proven : {FALSE}]
    BY <1>3, Zenon DEF Actors
  <2> QED
    BY <2>1
<1> QED
  BY <1>1, <1>2, <1>3

\* The call that Arrive admits.
LEMMA ArriveParts ==
  ASSUME NEW t \in Thread, Arrive(t)
  PROVE  \E p \in Payloads, ingress \in BOOLEAN, tenant \in Tenant \cup {None} :
           \E actor \in Actors(ingress) :
             /\ MayCall(actor, p.op)
             /\ TenantRequired => tenant # None
             /\ p.customer # None => TenantAccess(p.customer, tenant)
             /\ call' = [call EXCEPT ![t] =
                  [op |-> p.op, step |-> "lookup", tenant |-> tenant,
                   role |-> IF p.op \in Duties THEN actor.role ELSE None,
                   customer |-> p.customer, workflow |-> p.workflow, request |-> p.request]]
             /\ proven' = [proven EXCEPT ![t] = actor.proven]
BY Zenon DEF Arrive

\* The call that ArriveOpen admits.
OpenCall(op, request) ==
  [op |-> op, step |-> "lookup", tenant |-> None, role |-> None,
   customer |-> None, workflow |-> None, request |-> request]

LEMMA OpenArrives ==
  ASSUME NEW t \in Thread, ArriveOpen(t)
  PROVE  /\ \E op \in OpenOps, request \in Request : call' = [call EXCEPT ![t] = OpenCall(op, request)]
         /\ proven' = [proven EXCEPT ![t] = FALSE]
         /\ UNCHANGED <<setting, now, customers, workflows, requests, acted, demo>>
BY Zenon DEF ArriveOpen, OpenCall

LEMMA TypeInit == Init => TypeInv
BY DEF Init, TypeInv, Idle, Idles, Busy, Ops, CreateOps, RequestOps, OpenOps

\* A call that is answered, or goes on to its commit.
LEMMA AnswerTypes ==
  ASSUME TypeInv, NEW t \in Thread, call[t] \in Busy
  PROVE  /\ \A owners \in SUBSET Tenant : Answer(t, owners) =>
              /\ call' \in [Thread -> Idles \cup Busy] /\ proven' \in [Thread -> BOOLEAN]
              /\ call'[t] = [op |-> "none", tenant |-> call[t].tenant, owners |-> owners]
              /\ call'[t] \in Idles
              /\ \A x \in Thread \ {t} : call'[x] = call[x]
         /\ GoOn(t) =>
              /\ call' \in [Thread -> Idles \cup Busy] /\ proven' \in [Thread -> BOOLEAN]
              /\ call'[t] = [call[t] EXCEPT !.step = "commit"]
              /\ call'[t] \in Busy
              /\ \A x \in Thread \ {t} : call'[x] = call[x]
<1>1. ASSUME NEW owners \in SUBSET Tenant, Answer(t, owners)
      PROVE  /\ call' \in [Thread -> Idles \cup Busy] /\ proven' \in [Thread -> BOOLEAN]
             /\ call'[t] = [op |-> "none", tenant |-> call[t].tenant, owners |-> owners]
             /\ call'[t] \in Idles
             /\ \A x \in Thread \ {t} : call'[x] = call[x]
  <2>1. call[t].tenant \in Tenant \cup {None}
    BY DEF Busy
  <2>2. Idle(call[t].tenant, owners) \in Idles
    BY <2>1 DEF Idle, Idles
  <2> QED
    BY <1>1, <2>2 DEF Answer, Idle, TypeInv
<1>2. ASSUME GoOn(t)
      PROVE  /\ call' \in [Thread -> Idles \cup Busy] /\ proven' \in [Thread -> BOOLEAN]
             /\ call'[t] = [call[t] EXCEPT !.step = "commit"]
             /\ call'[t] \in Busy
             /\ \A x \in Thread \ {t} : call'[x] = call[x]
  <2>1. [call[t] EXCEPT !.step = "commit"] \in Busy
    BY DEF Busy
  <2> QED
    BY <1>2, <2>1 DEF GoOn, TypeInv
<1> QED
  BY <1>1, <1>2

\* The calls that reach a step, and what the step makes of them.
LEMMA StepParts ==
  ASSUME TypeInv, NEW t \in Thread, Step(t)
  PROVE  /\ call[t] \in Busy
         /\ UNCHANGED <<setting, now>>
         /\ GoOn(t) \/ \E owners \in SUBSET Tenant : Answer(t, owners)
<1>1. call[t].op # "none" /\ UNCHANGED <<setting, now>>
  BY DEF Step, LookupCustomer, LookupWorkflow, LookupEvaluate, CommitCustomer, CommitWorkflow,
     CommitEvaluate, OnRequest, ListRequests, OpenRoute, RequestOps, OpenOps
<1>2. call[t] \in Busy
  BY <1>1, IdleOrBusy
<1>3. CASE LookupCustomer(t)
  <2>1. \/ call[t].customer \in customers /\ Answer(t, {call[t].customer})
        \/ GoOn(t)
    BY <1>3 DEF LookupCustomer
  <2>2. call[t].customer \in customers => {call[t].customer} \in SUBSET Tenant
    BY DEF TypeInv
  <2> QED
    BY <1>1, <1>2, <2>1, <2>2
<1>4. CASE LookupWorkflow(t)
  <2>1. \/ Answer(t, {})
        \/ workflows[call[t].workflow] # None /\ Answer(t, {workflows[call[t].workflow]})
        \/ GoOn(t)
    BY <1>4, Zenon DEF LookupWorkflow
  <2>2. workflows[call[t].workflow] # None => {workflows[call[t].workflow]} \in SUBSET Tenant
    <3>1. call[t].workflow \in Workflow
      BY <1>2, <1>4 DEF LookupWorkflow, TypeInv
    <3> QED
      BY <3>1 DEF TypeInv
  <2>3. {} \in SUBSET Tenant
    OBVIOUS
  <2> QED
    BY <1>1, <1>2, <2>1, <2>2, <2>3
<1>5. CASE LookupEvaluate(t)
  <2>1. Answer(t, {}) \/ GoOn(t)
    BY <1>5, Zenon DEF LookupEvaluate
  <2>2. {} \in SUBSET Tenant
    OBVIOUS
  <2> QED
    BY <1>1, <1>2, <2>1, <2>2
<1>6. CASE CommitCustomer(t) \/ CommitWorkflow(t) \/ CommitEvaluate(t)
  <2>1. Answer(t, {}) \/ Answer(t, {call[t].customer})
    BY <1>6, Zenon DEF CommitCustomer, CommitWorkflow, CommitEvaluate
  <2>2. call[t].customer \in Tenant
    BY <1>2, <1>6 DEF CommitCustomer, CommitWorkflow, CommitEvaluate, CreateOps, TypeInv
  <2>3. {} \in SUBSET Tenant /\ {call[t].customer} \in SUBSET Tenant
    BY <2>2
  <2> QED
    BY <1>1, <1>2, <2>1, <2>3
<1>7. CASE OnRequest(t)
  <2>1. \/ Answer(t, {})
        \/ requests[call[t].request] # None /\ Answer(t, {requests[call[t].request].customer})
    BY <1>7, Zenon DEF OnRequest, RequestFor
  <2>2. requests[call[t].request] # None => {requests[call[t].request].customer} \in SUBSET Tenant
    <3>1. call[t].request \in Request
      BY <1>2, <1>7 DEF OnRequest, TypeInv
    <3> QED
      BY <3>1 DEF TypeInv, Rows
  <2>3. {} \in SUBSET Tenant
    OBVIOUS
  <2> QED
    BY <1>1, <1>2, <2>1, <2>2, <2>3
<1>8. CASE ListRequests(t)
  <2>1. Answer(t, {requests[id].customer : id \in ListedFor(call[t].tenant)})
    BY <1>8 DEF ListRequests
  <2>2. {requests[id].customer : id \in ListedFor(call[t].tenant)} \in SUBSET Tenant
    BY DEF ListedFor, TypeInv, Rows
  <2> QED
    BY <1>1, <1>2, <2>1, <2>2
<1>9. CASE OpenRoute(t)
  <2>1. Answer(t, {})
    BY <1>9 DEF OpenRoute
  <2>2. {} \in SUBSET Tenant
    OBVIOUS
  <2> QED
    BY <1>1, <1>2, <2>1, <2>2
<1> QED
  BY <1>3, <1>4, <1>5, <1>6, <1>7, <1>8, <1>9 DEF Step

\* Rows keep their owners, whoever commits between another's lookup and its commit.
LEMMA RowsKept ==
  ASSUME TypeInv, [Next]_vars
  PROVE  /\ customers \subseteq customers'
         /\ \A w \in Workflow : workflows[w] # None => workflows'[w] = workflows[w]
         /\ \A r \in Request : requests[r] # None => requests'[r] = requests[r]
<1>1. CASE UNCHANGED <<customers, workflows, requests>>
  BY <1>1
<1>2. ASSUME NEW t \in Thread, CommitCustomer(t)
      PROVE  customers \subseteq customers' /\ UNCHANGED <<workflows, requests>>
  BY <1>2 DEF CommitCustomer
<1>3. ASSUME NEW t \in Thread, CommitWorkflow(t)
      PROVE  /\ UNCHANGED <<customers, requests>>
             /\ \A w \in Workflow : workflows[w] # None => workflows'[w] = workflows[w]
  BY <1>3 DEF CommitWorkflow, KeyFree, TypeInv
<1>4. ASSUME NEW t \in Thread, CommitEvaluate(t)
      PROVE  /\ UNCHANGED <<customers, workflows>>
             /\ \A r \in Request : requests[r] # None => requests'[r] = requests[r]
  BY <1>4 DEF CommitEvaluate, KeyFree, TypeInv
<1>5. \/ UNCHANGED <<customers, workflows, requests>>
      \/ \E t \in Thread : CommitCustomer(t) \/ CommitWorkflow(t) \/ CommitEvaluate(t)
  BY DEF Next, Step, vars, Arrive, ArriveOpen, LookupCustomer, LookupWorkflow, LookupEvaluate,
     OnRequest, ListRequests, OpenRoute, Tick, Restart
<1> QED
  BY <1>1, <1>2, <1>3, <1>4, <1>5

LEMMA TypeStep == TypeInv /\ [Next]_vars => TypeInv'
<1> SUFFICES ASSUME TypeInv, [Next]_vars PROVE TypeInv'
  OBVIOUS
<1> DEFINE Tables == /\ customers \subseteq Tenant
                     /\ workflows \in [Workflow -> Tenant \cup {None}]
                     /\ requests  \in [Request -> Rows \cup {None}]
                     /\ acted     \in [Request -> SUBSET [role : Roles, duty : {"review", "release"}]]
                     /\ demo      \subseteq Request
           Names(c) == /\ c.op \in CreateOps => c.customer \in Tenant
                       /\ c.op \in {"workflow", "evaluate"} => c.workflow \in Workflow
                       /\ c.op \in RequestOps \cup {"evaluate"} \cup OpenOps => c.request \in Request
           Calls  == /\ call   \in [Thread -> Idles \cup Busy]
                     /\ proven \in [Thread -> BOOLEAN]
                     /\ \A t \in Thread : call[t] \in Busy => Names(call[t])
<1>0. TypeInv <=> Tables /\ Calls
  BY DEF TypeInv
<1>a. TypeInv' <=> Tables' /\ Calls'
  BY DEF TypeInv
<1>1. Tables'
  <2>1. CASE UNCHANGED <<customers, workflows, requests, acted, demo>>
    BY <1>0, <2>1
  <2>2. ASSUME NEW t \in Thread, Step(t) PROVE Tables'
    <3>1. call[t] \in Busy /\ Names(call[t])
      BY <1>0, <2>2, StepParts
    <3>2. CASE CommitCustomer(t)
      BY <1>0, <3>1, <3>2 DEF CommitCustomer, CreateOps
    <3>3. CASE CommitWorkflow(t)
      BY <1>0, <3>1, <3>3 DEF CommitWorkflow, CreateOps
    <3>4. CASE CommitEvaluate(t)
      <4>1. [customer |-> call[t].customer, workflow |-> call[t].workflow, tenant |-> call[t].tenant] \in Rows
        BY <3>1, <3>4 DEF CommitEvaluate, CreateOps, Rows, Busy
      <4> QED
        BY <1>0, <3>4, <4>1 DEF CommitEvaluate
    <3>5. CASE OnRequest(t)
      <4>1. UNCHANGED <<customers, workflows, requests, demo>>
        BY <3>5 DEF OnRequest
      <4>2. call[t].request \in Request /\ call[t].role \in Roles \cup {None}
        BY <3>1, <3>5 DEF OnRequest, Busy
      <4>3. \/ UNCHANGED acted
            \/ /\ call[t].role # None
               /\ \E duty \in {"review", "release"} :
                    acted' = [acted EXCEPT ![call[t].request] = @ \cup {[role |-> call[t].role, duty |-> duty]}]
        BY <3>5 DEF OnRequest
      <4> QED
        BY <1>0, <4>1, <4>2, <4>3
    <3>6. CASE LookupCustomer(t) \/ LookupWorkflow(t) \/ LookupEvaluate(t) \/ ListRequests(t)
      BY <2>1, <3>6 DEF LookupCustomer, LookupWorkflow, LookupEvaluate, ListRequests
    <3>7. CASE OpenRoute(t)
      BY <1>0, <3>1, <3>7 DEF OpenRoute
    <3> QED
      BY <2>2, <3>2, <3>3, <3>4, <3>5, <3>6, <3>7 DEF Step
  <2>3. ASSUME NEW s \in Settings, Restart(s) PROVE Tables'
    BY <1>0, <2>3 DEF Restart
  <2> QED
    BY <2>1, <2>2, <2>3 DEF Next, vars, Arrive, ArriveOpen, Tick
<1>2. Calls'
  <2>1. CASE UNCHANGED <<call, proven>>
    BY <1>0, <2>1
  <2>2. ASSUME NEW t \in Thread, Arrive(t) PROVE Calls'
    <3>1. PICK p \in Payloads, ingress \in BOOLEAN, tenant \in Tenant \cup {None} :
            \E actor \in Actors(ingress) :
              /\ call' = [call EXCEPT ![t] =
                   [op |-> p.op, step |-> "lookup", tenant |-> tenant,
                    role |-> IF p.op \in Duties THEN actor.role ELSE None,
                    customer |-> p.customer, workflow |-> p.workflow, request |-> p.request]]
              /\ proven' = [proven EXCEPT ![t] = actor.proven]
      BY <2>2, ArriveParts
    <3>2. PICK actor \in Actors(ingress) :
              /\ call' = [call EXCEPT ![t] =
                   [op |-> p.op, step |-> "lookup", tenant |-> tenant,
                    role |-> IF p.op \in Duties THEN actor.role ELSE None,
                    customer |-> p.customer, workflow |-> p.workflow, request |-> p.request]]
              /\ proven' = [proven EXCEPT ![t] = actor.proven]
      BY <3>1
    <3> DEFINE c == [op |-> p.op, step |-> "lookup", tenant |-> tenant,
                     role |-> IF p.op \in Duties THEN actor.role ELSE None,
                     customer |-> p.customer, workflow |-> p.workflow, request |-> p.request]
    <3>3. actor.role \in Roles /\ actor.proven \in BOOLEAN
      BY ActorRoles
    <3>4. c \in Busy /\ Names(c)
      BY <3>3, PayloadTypes DEF Busy
    <3>5. call' = [call EXCEPT ![t] = c]
      BY <3>2
    <3> HIDE DEF c
    <3> QED
      BY <1>0, <3>2, <3>3, <3>4, <3>5
  <2>3. ASSUME NEW t \in Thread, Step(t) PROVE Calls'
    <3>1. call[t] \in Busy /\ Names(call[t])
      BY <1>0, <2>3, StepParts
    <3>2. CASE GoOn(t)
      <4>1. /\ call' \in [Thread -> Idles \cup Busy] /\ proven' \in [Thread -> BOOLEAN]
            /\ call'[t] = [call[t] EXCEPT !.step = "commit"]
            /\ \A x \in Thread \ {t} : call'[x] = call[x]
        BY <3>1, <3>2, AnswerTypes
      <4>2. Names(call'[t])
        BY <3>1, <4>1 DEF Busy
      <4> QED
        BY <1>0, <4>1, <4>2
    <3>3. ASSUME NEW owners \in SUBSET Tenant, Answer(t, owners) PROVE Calls'
      <4>1. /\ call' \in [Thread -> Idles \cup Busy] /\ proven' \in [Thread -> BOOLEAN]
            /\ call'[t] \in Idles
            /\ \A x \in Thread \ {t} : call'[x] = call[x]
        BY <3>1, <3>3, AnswerTypes
      <4>2. call'[t] \notin Busy
        BY <4>1 DEF Idles, Busy, Ops, CreateOps, RequestOps, OpenOps
      <4> QED
        BY <1>0, <4>1, <4>2
    <3> QED
      BY <2>3, <3>2, <3>3, StepParts
  <2>4. ASSUME NEW s \in Settings, Restart(s) PROVE Calls'
    BY <2>4 DEF Restart, Idle, Idles, Busy, Ops, CreateOps, RequestOps, OpenOps
  <2>5. ASSUME NEW t \in Thread, ArriveOpen(t) PROVE Calls'
    <3>1. PICK op \in OpenOps, request \in Request :
            call' = [call EXCEPT ![t] = OpenCall(op, request)]
      BY <2>5, OpenArrives
    <3>2. /\ OpenCall(op, request) \in Busy
          /\ OpenCall(op, request).op = op /\ OpenCall(op, request).request = request
      BY DEF OpenCall, Busy, Ops
    <3>3. Names(OpenCall(op, request))
      BY <3>2 DEF OpenOps, CreateOps, RequestOps
    <3>4. proven' = [proven EXCEPT ![t] = FALSE]
      BY <2>5, OpenArrives
    <3> QED
      BY <1>0, <3>1, <3>2, <3>3, <3>4
  <2> QED
    BY <2>1, <2>2, <2>3, <2>4, <2>5 DEF Next, vars, Tick
<1> QED
  BY <1>a, <1>1, <1>2

LEMMA TypesHold == Spec => []TypeInv
BY TypeInit, TypeStep, PTL DEF Spec

\* Every row stays with the customer it was created for.
THEOREM OwnersAlwaysStay == Spec => OwnersStay
<1>1. TypeInv /\ [Next]_vars =>
        [/\ customers \subseteq customers'
         /\ \A w \in Workflow : workflows[w] # None => workflows'[w] = workflows[w]
         /\ \A r \in Request : requests[r] # None => requests'[r] = requests[r]]_vars
  BY RowsKept
<1> QED
  BY <1>1, TypesHold, PTL DEF Spec, OwnersStay

-----------------------------------------------------------------------------
(* Duties.  No role but the administrator's holds both permissions.        *)

Reviewers == {"reviewer"}
Releasers == {"executor", "operator"}

LEMMA DutyRoles ==
  ASSUME NEW ingress \in BOOLEAN, NEW actor \in Actors(ingress), NEW op \in Duties, MayCall(actor, op)
  PROVE  /\ op = "review" => actor.role \in Reviewers \cup {"admin"}
         /\ op # "review" => actor.role \in Releasers \cup {"admin"}
<1>1. actor.role \in Roles
  BY ActorRoles
<1>2. Roles = {"requester", "reviewer", "executor", "auditor", "admin", "tenant_admin",
               "service_account", "operator"}
  BY DEF Roles, PermissionsByRole
<1>3. CASE op = "job"
  BY <1>3 DEF MayCall, SetUpRoles, Releasers
<1>4. CASE op = "review"
  <2>1. Permitted(actor, "review:write")
    BY <1>4 DEF MayCall
  <2>2. "review:write" \notin ServiceAccountAllowed
    BY DEF ServiceAccountAllowed
  <2>3. actor.role = "admin" \/ "review:write" \in PermissionsByRole[actor.role]
    BY <2>1, <2>2 DEF Permitted
  <2>4. "review:write" \in PermissionsByRole[actor.role] => actor.role \in {"admin", "reviewer"}
    BY <1>1, <1>2 DEF PermissionsByRole
  <2> QED
    BY <1>4, <2>3, <2>4 DEF Reviewers
<1>5. CASE op = "execute"
  <2>1. Permitted(actor, "execution:run")
    BY <1>5 DEF MayCall
  <2>2. "execution:run" \notin ServiceAccountAllowed
    BY DEF ServiceAccountAllowed
  <2>3. actor.role = "admin" \/ "execution:run" \in PermissionsByRole[actor.role]
    BY <2>1, <2>2 DEF Permitted
  <2>4. "execution:run" \in PermissionsByRole[actor.role] =>
          actor.role \in {"admin", "executor", "operator"}
    BY <1>1, <1>2 DEF PermissionsByRole
  <2> QED
    BY <1>5, <2>3, <2>4 DEF Releasers
<1> QED
  BY <1>3, <1>4, <1>5 DEF Duties

\* The role that a call in progress will leave on its request.
DutyOf(c) ==
  c \in Busy /\ c.role # None =>
    /\ c.op \in Duties
    /\ c.op = "review" => c.role \in Reviewers \cup {"admin"}
    /\ c.op # "review" => c.role \in Releasers \cup {"admin"}

DutyInv ==
  /\ \A t \in Thread : DutyOf(call[t])
  /\ \A r \in Request : \A a \in acted[r] :
       IF a.duty = "review" THEN a.role \in Reviewers ELSE a.role \in Releasers

LEMMA DutyStep == TypeInv /\ DutyInv /\ [Next]_vars => DutyInv'
<1> SUFFICES ASSUME TypeInv, DutyInv, [Next]_vars PROVE DutyInv'
  OBVIOUS
<1> DEFINE Fits(a) == IF a.duty = "review" THEN a.role \in Reviewers ELSE a.role \in Releasers
           Traces  == \A r \in Request : \A a \in acted[r] : Fits(a)
<1>0. /\ \A t \in Thread : DutyOf(call[t])
      /\ Traces /\ call \in [Thread -> Idles \cup Busy]
  BY DEF DutyInv, TypeInv
<1>a. (\A t \in Thread : DutyOf(call[t]))' /\ Traces' => DutyInv'
  BY DEF DutyInv
<1>1. ASSUME NEW t \in Thread, Arrive(t) PROVE DutyInv'
  <2>1. PICK p \in Payloads, ingress \in BOOLEAN, tenant \in Tenant \cup {None} :
          \E actor \in Actors(ingress) :
            /\ MayCall(actor, p.op)
            /\ call' = [call EXCEPT ![t] =
                 [op |-> p.op, step |-> "lookup", tenant |-> tenant,
                  role |-> IF p.op \in Duties THEN actor.role ELSE None,
                  customer |-> p.customer, workflow |-> p.workflow, request |-> p.request]]
    BY <1>1, ArriveParts
  <2>2. PICK actor \in Actors(ingress) :
            /\ MayCall(actor, p.op)
            /\ call' = [call EXCEPT ![t] =
                 [op |-> p.op, step |-> "lookup", tenant |-> tenant,
                  role |-> IF p.op \in Duties THEN actor.role ELSE None,
                  customer |-> p.customer, workflow |-> p.workflow, request |-> p.request]]
    BY <2>1
  <2> DEFINE c == [op |-> p.op, step |-> "lookup", tenant |-> tenant,
                   role |-> IF p.op \in Duties THEN actor.role ELSE None,
                   customer |-> p.customer, workflow |-> p.workflow, request |-> p.request]
  <2>3. /\ c.op = p.op
        /\ c.role = IF p.op \in Duties THEN actor.role ELSE None
    OBVIOUS
  <2>4. call' = [call EXCEPT ![t] = c]
    BY <2>2
  <2> HIDE DEF c
  <2>5. DutyOf(c)
    BY <2>2, <2>3, DutyRoles DEF DutyOf
  <2>6. \A x \in Thread : DutyOf(call'[x])
    BY <1>0, <2>4, <2>5
  <2>7. UNCHANGED acted
    BY <1>1 DEF Arrive
  <2> QED
    BY <1>0, <1>a, <2>6, <2>7
<1>2. ASSUME NEW t \in Thread, Step(t) PROVE DutyInv'
  <2>0. call[t] \in Busy
    BY <1>2, StepParts
  <2>1. \A x \in Thread : DutyOf(call'[x])
    <3>1. CASE GoOn(t)
      <4>1. /\ call'[t] = [call[t] EXCEPT !.step = "commit"]
            /\ \A x \in Thread \ {t} : call'[x] = call[x]
        BY <2>0, <3>1, AnswerTypes
      <4>2. call'[t].op = call[t].op /\ call'[t].role = call[t].role
        BY <2>0, <4>1 DEF Busy
      <4>3. DutyOf(call'[t])
        BY <1>0, <2>0, <4>2 DEF DutyOf
      <4> QED
        BY <1>0, <4>1, <4>3
    <3>2. ASSUME NEW owners \in SUBSET Tenant, Answer(t, owners) PROVE \A x \in Thread : DutyOf(call'[x])
      <4>1. /\ call'[t] \in Idles
            /\ \A x \in Thread \ {t} : call'[x] = call[x]
        BY <2>0, <3>2, AnswerTypes
      <4>2. DutyOf(call'[t])
        BY <4>1 DEF DutyOf, Idles, Busy, Ops, CreateOps, RequestOps, OpenOps
      <4> QED
        BY <1>0, <4>1, <4>2
    <3> QED
      BY <1>2, <3>1, <3>2, StepParts
  <2>2. CASE UNCHANGED acted
    BY <1>0, <1>a, <2>1, <2>2
  <2>3. CASE ~(call[t].role \in {None, "admin"})
             /\ acted' = [acted EXCEPT ![call[t].request] = @ \cup
                  {[role |-> call[t].role, duty |-> IF call[t].op = "review" THEN "review" ELSE "release"]}]
    <3> DEFINE a == [role |-> call[t].role, duty |-> IF call[t].op = "review" THEN "review" ELSE "release"]
    <3>1. /\ call[t].op = "review" => call[t].role \in Reviewers
          /\ call[t].op # "review" => call[t].role \in Releasers
      BY <1>0, <2>0, <2>3 DEF DutyOf
    <3>2. Fits(a)
      BY <3>1
    <3>3. acted \in [Request -> SUBSET [role : Roles, duty : {"review", "release"}]]
      BY DEF TypeInv
    <3>4. acted' = [acted EXCEPT ![call[t].request] = @ \cup {a}]
      BY <2>3
    <3> HIDE DEF a
    <3>5. Traces'
      BY <1>0, <3>2, <3>3, <3>4
    <3> QED
      BY <1>a, <2>1, <3>5
  <2> QED
    BY <1>2, <2>2, <2>3 DEF Step, LookupCustomer, LookupWorkflow, LookupEvaluate, CommitCustomer,
       CommitWorkflow, CommitEvaluate, OnRequest, ListRequests, OpenRoute
<1>3. ASSUME NEW s \in Settings, Restart(s) PROVE DutyInv'
  <2>1. \A x \in Thread : DutyOf(call'[x])
    BY <1>3 DEF Restart, Idle, DutyOf, Busy, Ops, CreateOps, RequestOps, OpenOps
  <2>2. UNCHANGED acted
    BY <1>3 DEF Restart
  <2> QED
    BY <1>0, <1>a, <2>1, <2>2
<1>4. CASE UNCHANGED <<call, acted>>
  BY <1>0, <1>a, <1>4
<1>5. ASSUME NEW t \in Thread, ArriveOpen(t) PROVE DutyInv'
  <2>1. PICK op \in OpenOps, request \in Request :
          call' = [call EXCEPT ![t] = OpenCall(op, request)]
    BY <1>5, OpenArrives
  <2>2. DutyOf(OpenCall(op, request))
    BY DEF DutyOf, OpenCall
  <2>3. \A x \in Thread : DutyOf(call'[x])
    BY <1>0, <2>1, <2>2
  <2>4. UNCHANGED acted
    BY <1>5, OpenArrives
  <2> QED
    BY <1>0, <1>a, <2>3, <2>4
<1> QED
  BY <1>1, <1>2, <1>3, <1>4, <1>5 DEF Next, vars, Tick

\* Nobody but an administrator reviews a request and releases it, in no sequence of
\* environments and with no token.
THEOREM DutiesAlwaysSeparate == Spec => []DutiesSeparate
<1>1. Init => DutyInv
  BY DEF Init, DutyInv, DutyOf, Idle, Busy, Ops, CreateOps, RequestOps, OpenOps
<1>2. Spec => []DutyInv
  BY <1>1, TypesHold, DutyStep, PTL DEF Spec
<1>3. DutyInv => DutiesSeparate
  <2> SUFFICES ASSUME DutyInv, NEW r \in Request, NEW role \in Roles \ {"admin"},
                      {a.duty : a \in {b \in acted[r] : b.role = role}} = {"review", "release"}
               PROVE  FALSE
    BY DEF DutiesSeparate
  <2>1. PICK a \in acted[r] : a.role = role /\ a.duty = "review"
    OBVIOUS
  <2>2. PICK b \in acted[r] : b.role = role /\ b.duty = "release"
    OBVIOUS
  <2>3. role \in Reviewers /\ role \in Releasers
    BY <2>1, <2>2 DEF DutyInv
  <2> QED
    BY <2>3 DEF Reviewers, Releasers
<1> QED
  BY <1>2, <1>3, PTL

-----------------------------------------------------------------------------
(* Production.  The setting has passed the start-up checks, and nothing    *)
(* that another setting admitted survives the restart.                     *)

LEMMA ProductionActors ==
  ASSUME MayStart(setting), setting.production, NEW ingress \in BOOLEAN, NEW actor \in Actors(ingress)
  PROVE  actor.proven
<1>1. IngressRequired /\ AuthRequired
  BY DEF IngressRequired, AuthRequired
<1>2. ingress
  BY <1>1 DEF Actors
<1>3. PICK token \in {k \in Tokens : TokenAccepted(k)} :
        actor = [role |-> token.role, scopes |-> token.scopes,
                 proven |-> ingress /\ GoodToken(token)]
  BY <1>1, <1>2, Zenon DEF Actors
<1>4. GoodToken(token)
  BY <1>3 DEF GoodToken, TokenAccepted, VerificationSecrets, MayStart, SafeKeys
<1>5. actor.proven = (ingress /\ GoodToken(token))
  BY <1>3
<1> QED
  BY <1>2, <1>4, <1>5

\* Every call in progress on a route that is not open is proven.
CallsProven ==
  \A t \in Thread : setting.production /\ call[t].op \notin OpenOps \cup {"none"} => proven[t]

GuardInv == MayStart(setting) /\ CallsProven

LEMMA GuardStep == TypeInv /\ GuardInv /\ [Next]_vars => GuardInv'
<1> SUFFICES ASSUME TypeInv, GuardInv, [Next]_vars PROVE GuardInv'
  OBVIOUS
<1>0. /\ MayStart(setting)
      /\ \A t \in Thread : setting.production /\ call[t].op \notin OpenOps \cup {"none"} => proven[t]
      /\ call \in [Thread -> Idles \cup Busy] /\ proven \in [Thread -> BOOLEAN]
  BY DEF GuardInv, CallsProven, TypeInv
<1>1. ASSUME NEW t \in Thread, Arrive(t) PROVE GuardInv'
  <2>1. PICK ingress \in BOOLEAN :
          \E actor \in Actors(ingress) : proven' = [proven EXCEPT ![t] = actor.proven]
    BY <1>1, ArriveParts
  <2>2. UNCHANGED setting /\ \A x \in Thread \ {t} : call'[x] = call[x]
    BY <1>0, <1>1, ArriveParts DEF Arrive
  <2>3. setting.production => \A actor \in Actors(ingress) : actor.proven
    BY <1>0, ProductionActors
  <2> QED
    BY <1>0, <2>1, <2>2, <2>3 DEF GuardInv, CallsProven, MayStart, SafeKeys
<1>2. ASSUME NEW t \in Thread, Step(t) PROVE GuardInv'
  <2>0. call[t] \in Busy /\ UNCHANGED setting
    BY <1>2, StepParts
  <2>1. CASE GoOn(t)
    <3>1. /\ call'[t] = [call[t] EXCEPT !.step = "commit"]
          /\ \A x \in Thread \ {t} : call'[x] = call[x]
      BY <2>0, <2>1, AnswerTypes
    <3>2. call'[t].op = call[t].op /\ UNCHANGED proven
      BY <2>0, <2>1, <3>1 DEF Busy, GoOn
    <3> QED
      BY <1>0, <2>0, <3>1, <3>2 DEF GuardInv, CallsProven, MayStart, SafeKeys
  <2>2. ASSUME NEW owners \in SUBSET Tenant, Answer(t, owners) PROVE GuardInv'
    <3>0. /\ call'[t] = [op |-> "none", tenant |-> call[t].tenant, owners |-> owners]
          /\ \A x \in Thread \ {t} : call'[x] = call[x]
      BY <2>0, <2>2, AnswerTypes
    <3>1. call'[t].op = "none" /\ \A x \in Thread \ {t} : call'[x] = call[x]
      BY <3>0
    <3>2. proven' = [proven EXCEPT ![t] = FALSE]
      BY <2>2 DEF Answer
    <3> QED
      BY <1>0, <2>0, <3>1, <3>2 DEF GuardInv, CallsProven, MayStart, SafeKeys
  <2> QED
    BY <1>2, <2>1, <2>2, StepParts
<1>3. ASSUME NEW s \in Settings, Restart(s) PROVE GuardInv'
  <2>1. setting' = s /\ MayStart(s) /\ call' = [t \in Thread |-> Idle(None, {})]
    BY <1>3 DEF Restart
  <2>2. \A t \in Thread : call'[t].op = "none"
    BY <2>1 DEF Idle
  <2> QED
    BY <2>1, <2>2 DEF GuardInv, CallsProven, MayStart, SafeKeys
<1>4. CASE UNCHANGED <<setting, call, proven>>
  BY <1>0, <1>4 DEF GuardInv, CallsProven, MayStart, SafeKeys
<1>5. ASSUME NEW t \in Thread, ArriveOpen(t) PROVE GuardInv'
  <2>1. PICK op \in OpenOps, request \in Request :
          call' = [call EXCEPT ![t] = OpenCall(op, request)]
    BY <1>5, OpenArrives
  <2>2. OpenCall(op, request).op \in OpenOps
    BY DEF OpenCall
  <2>3. call'[t].op \in OpenOps /\ \A x \in Thread \ {t} : call'[x] = call[x]
    BY <1>0, <2>1, <2>2
  <2>4. UNCHANGED setting /\ \A x \in Thread \ {t} : proven'[x] = proven[x]
    BY <1>0, <1>5, OpenArrives
  <2> QED
    BY <1>0, <2>3, <2>4 DEF GuardInv, CallsProven, MayStart, SafeKeys
<1> QED
  BY <1>1, <1>2, <1>3, <1>4, <1>5 DEF Next, vars, Tick

\* A step of a call that is not proven leaves the rows alone and shows none.
LEMMA UnprovenStep ==
  ASSUME TypeInv, GuardInv, setting.production, NEW t \in Thread, Step(t), ~proven[t]
  PROVE  UNCHANGED <<customers, workflows, requests, acted>> /\ Answer(t, {})
<1>1. call[t].op \in OpenOps \cup {"none"}
  BY DEF GuardInv, CallsProven
<1>2. OpenRoute(t)
  BY <1>1 DEF Step, LookupCustomer, LookupWorkflow, LookupEvaluate, CommitCustomer,
     CommitWorkflow, CommitEvaluate, OnRequest, ListRequests, RequestOps, OpenOps
<1> QED
  BY <1>2 DEF OpenRoute

LEMMA GuardedStep ==
  ASSUME TypeInv, GuardInv, [Next]_vars, setting.production
  PROVE  /\ <<customers, workflows, requests, acted>>' # <<customers, workflows, requests, acted>> =>
              \E t \in Thread : proven[t] /\ call'[t] # call[t]
         /\ \A t \in Thread :
              call[t].op # "none" /\ call'[t].op = "none" /\ call'[t].owners # {} => proven[t]
<1> DEFINE Rowed == <<customers, workflows, requests, acted>>
           Goal  == /\ Rowed' # Rowed => \E t \in Thread : proven[t] /\ call'[t] # call[t]
                    /\ \A t \in Thread :
                         call[t].op # "none" /\ call'[t].op = "none" /\ call'[t].owners # {} => proven[t]
<1>0. call \in [Thread -> Idles \cup Busy]
  BY DEF TypeInv
<1>1. ASSUME NEW t \in Thread, Step(t) PROVE Goal
  <2>0. call[t] \in Busy
    BY <1>1, StepParts
  <2>1. CASE GoOn(t)
    <3>1. /\ call'[t] = [call[t] EXCEPT !.step = "commit"]
          /\ \A x \in Thread \ {t} : call'[x] = call[x]
      BY <2>0, <2>1, AnswerTypes
    <3>2. call'[t].op = call[t].op
      BY <2>0, <3>1 DEF Busy
    <3>3. ~Answer(t, {})
      <4>1. Answer(t, {}) => call'[t].op = "none"
        BY <1>0 DEF Answer, Idle
      <4>2. call[t].op # "none"
        BY <2>0, IdleOrBusy
      <4> QED
        BY <3>2, <4>1, <4>2
    <3>4. proven[t]
      BY <1>1, <3>3, UnprovenStep
    <3>5. Rowed' = Rowed
      <4>1. ASSUME NEW owners PROVE ~Answer(t, owners)
        <5>1. Answer(t, owners) => call'[t].op = "none"
          BY <1>0 DEF Answer, Idle
        <5>2. call[t].op # "none"
          BY <2>0, IdleOrBusy
        <5> QED
          BY <3>2, <5>1, <5>2
      <4>2. LookupCustomer(t) \/ LookupWorkflow(t) \/ LookupEvaluate(t)
        BY <1>1, <4>1 DEF Step, CommitCustomer, CommitWorkflow, CommitEvaluate, OnRequest,
           ListRequests, OpenRoute
      <4> QED
        BY <4>2 DEF LookupCustomer, LookupWorkflow, LookupEvaluate
    <3> QED
      BY <3>1, <3>2, <3>4, <3>5
  <2>2. ASSUME NEW owners \in SUBSET Tenant, Answer(t, owners) PROVE Goal
    <3>1. /\ call'[t] = [op |-> "none", tenant |-> call[t].tenant, owners |-> owners]
          /\ \A x \in Thread \ {t} : call'[x] = call[x]
      BY <2>0, <2>2, AnswerTypes
    <3>2. call'[t].op = "none" /\ call[t].op # "none" /\ call'[t].owners = owners
      BY <2>0, <3>1, IdleOrBusy
    <3>3. call'[t] # call[t]
      BY <3>2
    <3>4. CASE proven[t]
      BY <3>1, <3>3, <3>4
    <3>5. CASE ~proven[t]
      <4>1. Rowed' = Rowed /\ Answer(t, {})
        BY <1>1, <3>5, UnprovenStep
      <4>2. call'[t].owners = {}
        BY <1>0, <4>1 DEF Answer, Idle
      <4> QED
        BY <3>1, <4>1, <4>2
    <3> QED
      BY <3>4, <3>5
  <2> QED
    BY <1>1, <2>1, <2>2, StepParts
<1>2. ASSUME Rowed' = Rowed,
             \A x \in Thread : \/ call[x].op = "none" \/ call'[x] = call[x]
                             \/ call'[x].owners = {}
      PROVE  Goal
  BY <1>2
<1>3. ASSUME NEW t \in Thread, Arrive(t) PROVE Goal
  <2>1. call[t].op = "none" /\ \A x \in Thread \ {t} : call'[x] = call[x]
    BY <1>0, <1>3, ArriveParts DEF Arrive
  <2> QED
    BY <1>2, <1>3, <2>1 DEF Arrive
<1>4. ASSUME NEW t \in Thread, ArriveOpen(t) PROVE Goal
  <2>1. call[t].op = "none" /\ \A x \in Thread \ {t} : call'[x] = call[x]
    BY <1>0, <1>4, OpenArrives DEF ArriveOpen
  <2> QED
    BY <1>2, <1>4, <2>1, OpenArrives
<1>5. ASSUME NEW s \in Settings, Restart(s) PROVE Goal
  BY <1>2, <1>5 DEF Restart, Idle
<1>6. CASE UNCHANGED <<customers, workflows, requests, acted, call>>
  BY <1>2, <1>6
<1>7. Goal
  BY <1>1, <1>3, <1>4, <1>5, <1>6 DEF Next, vars, Tick
<1> QED
  BY <1>7

\* A production server changes rows and shows them only for calls through the ingress
\* with a good token, in whatever order environments, open routes and calls come.
THEOREM ProductionAlwaysGuarded == Spec => ProductionIsGuarded
<1>1. Init => GuardInv
  BY FirstSettingAssumption DEF Init, GuardInv, CallsProven, Idle
<1>2. Spec => [](TypeInv /\ GuardInv)
  BY <1>1, TypeInit, TypeStep, GuardStep, PTL DEF Spec
<1>3. TypeInv /\ GuardInv /\ [Next]_vars =>
        [setting.production =>
           /\ <<customers, workflows, requests, acted>>' # <<customers, workflows, requests, acted>> =>
                \E t \in Thread : proven[t] /\ call'[t] # call[t]
           /\ \A t \in Thread :
                call[t].op # "none" /\ call'[t].op = "none" /\ call'[t].owners # {} => proven[t]]_vars
  BY GuardedStep
<1> QED
  BY <1>2, <1>3, PTL DEF Spec, ProductionIsGuarded

-----------------------------------------------------------------------------
(* Tenants.  What a handler looked up for its tenant is still there, and   *)
(* still of that tenant, when it commits.                                  *)

TenantCall(c) ==
  /\ c \in Busy =>
       /\ c.op \in CreateOps => TenantAccess(c.customer, c.tenant)
       /\ c.op = "evaluate" /\ c.step = "commit" => WorkflowFor(c.workflow, c.tenant)
       /\ setting.production /\ c.op \notin OpenOps => c.tenant # None
  /\ c \in Idles /\ c.tenant # None => c.owners \subseteq {c.tenant}

FiledForTenant(row) ==
  row # None /\ row.tenant # None =>
    row.customer = row.tenant /\ workflows[row.workflow] = row.tenant

TenantInv ==
  /\ \A t \in Thread : TenantCall(call[t])
  /\ \A r \in Request : FiledForTenant(requests[r])

LEMMA TenantStep == TypeInv /\ TenantInv /\ [Next]_vars => TenantInv'
<1> SUFFICES ASSUME TypeInv, TenantInv, [Next]_vars PROVE TenantInv'
  OBVIOUS
<1>0. /\ workflows \in [Workflow -> Tenant \cup {None}]
      /\ requests \in [Request -> Rows \cup {None}]
      /\ call \in [Thread -> Idles \cup Busy]
      /\ \A t \in Thread : TenantCall(call[t])
      /\ \A r \in Request : FiledForTenant(requests[r])
  BY DEF TypeInv, TenantInv
<1>1. \A w \in Workflow : workflows[w] # None => workflows'[w] = workflows[w]
  BY RowsKept
\* Calls and rows that a step does not touch.
<1>2. ASSUME UNCHANGED setting, NEW t \in Thread, call'[t] = call[t] PROVE TenantCall(call[t])'
  <2>1. call[t] \in Busy /\ call[t].op = "evaluate" => call[t].workflow \in Workflow
    BY DEF TypeInv
  <2> QED
    BY <1>0, <1>1, <1>2, <2>1 DEF TenantCall, WorkflowFor, TenantAccess
<1>3. ASSUME NEW r \in Request, requests'[r] = requests[r] PROVE FiledForTenant(requests[r])'
  <2>1. requests[r] # None => requests[r] \in Rows
    BY <1>0
  <2>2. requests[r] # None /\ requests[r].tenant # None =>
          /\ requests[r].tenant = workflows[requests[r].workflow]
          /\ requests[r].workflow \in Workflow
    BY <1>0, <2>1 DEF FiledForTenant, Rows
  <2> QED
    BY <1>0, <1>1, <1>3, <2>1, <2>2 DEF FiledForTenant
<1>4. ASSUME NEW t \in Thread, Arrive(t) PROVE TenantInv'
  <2>1. PICK p \in Payloads, ingress \in BOOLEAN, tenant \in Tenant \cup {None} :
          \E actor \in Actors(ingress) :
            /\ TenantRequired => tenant # None
            /\ p.customer # None => TenantAccess(p.customer, tenant)
            /\ call' = [call EXCEPT ![t] =
                 [op |-> p.op, step |-> "lookup", tenant |-> tenant,
                  role |-> IF p.op \in Duties THEN actor.role ELSE None,
                  customer |-> p.customer, workflow |-> p.workflow, request |-> p.request]]
    BY <1>4, ArriveParts
  <2>2. PICK actor \in Actors(ingress) :
            /\ TenantRequired => tenant # None
            /\ p.customer # None => TenantAccess(p.customer, tenant)
            /\ call' = [call EXCEPT ![t] =
                 [op |-> p.op, step |-> "lookup", tenant |-> tenant,
                  role |-> IF p.op \in Duties THEN actor.role ELSE None,
                  customer |-> p.customer, workflow |-> p.workflow, request |-> p.request]]
    BY <2>1
  <2> DEFINE c == [op |-> p.op, step |-> "lookup", tenant |-> tenant,
                   role |-> IF p.op \in Duties THEN actor.role ELSE None,
                   customer |-> p.customer, workflow |-> p.workflow, request |-> p.request]
  <2>3. /\ c.op = p.op /\ c.step = "lookup" /\ c.tenant = tenant /\ c.customer = p.customer
    OBVIOUS
  <2>4. call' = [call EXCEPT ![t] = c] /\ UNCHANGED <<setting, workflows, requests>>
    BY <1>4, <2>2 DEF Arrive
  <2>5. c \notin Idles
    BY <2>3, PayloadTypes DEF Idles, Ops, CreateOps, RequestOps, OpenOps
  <2> HIDE DEF c
  <2>6. TenantCall(c)'
    <3>1. p.op \in CreateOps => p.customer # None
      BY PayloadTypes, AccessAssumption
    <3>2. setting.production => tenant # None
      BY <2>2 DEF TenantRequired
    <3>3. p.op \in CreateOps => TenantAccess(c.customer, c.tenant)
      BY <2>2, <2>3, <3>1
    <3> QED
      BY <2>3, <2>4, <2>5, <3>2, <3>3 DEF TenantCall, TenantAccess
  <2>7. TenantCall(call[t])'
    BY <1>0, <2>4, <2>6
  <2>8. \A x \in Thread : TenantCall(call[x])'
    BY <1>0, <1>2, <2>4, <2>7
  <2> QED
    BY <1>3, <2>4, <2>8 DEF TenantInv
<1>5. ASSUME NEW t \in Thread, Step(t) PROVE TenantInv'
  <2> DEFINE c == call[t]
  <2>0. /\ c \in Busy /\ UNCHANGED setting /\ TenantCall(c)
    BY <1>0, <1>5, StepParts
  \* An answer that shows rows of the caller's tenant only.
  <2>1. ASSUME NEW owners \in SUBSET Tenant, Answer(t, owners),
               c.tenant # None => owners \subseteq {c.tenant}
        PROVE  \A x \in Thread : TenantCall(call[x])'
    <3>1. /\ call'[t] = [op |-> "none", tenant |-> c.tenant, owners |-> owners]
          /\ call'[t] \in Idles
          /\ \A x \in Thread \ {t} : call'[x] = call[x]
      BY <2>0, <2>1, AnswerTypes
    <3>2. call'[t] \notin Busy
      BY <3>1 DEF Busy, Ops, CreateOps, RequestOps, OpenOps
    <3>3. call'[t].tenant = c.tenant /\ call'[t].owners = owners
      BY <3>1
    <3>4. TenantCall(call[t])'
      BY <2>1, <3>2, <3>3 DEF TenantCall
    <3> QED
      BY <1>2, <2>0, <3>1, <3>4
  <2>2. ASSUME GoOn(t), c.op = "evaluate" => WorkflowFor(c.workflow, c.tenant), UNCHANGED workflows
        PROVE  \A x \in Thread : TenantCall(call[x])'
    <3>1. /\ call'[t] = [c EXCEPT !.step = "commit"]
          /\ \A x \in Thread \ {t} : call'[x] = call[x]
      BY <2>0, <2>2, AnswerTypes
    <3>2. /\ call'[t].op = c.op /\ call'[t].tenant = c.tenant
          /\ call'[t].customer = c.customer /\ call'[t].workflow = c.workflow
      BY <2>0, <3>1 DEF Busy
    <3>3. call'[t] \notin Idles
      BY <2>0, <3>2 DEF Idles, Busy, Ops, CreateOps, RequestOps, OpenOps
    <3>4. TenantCall(call[t])'
      BY <2>0, <2>2, <3>2, <3>3 DEF TenantCall, WorkflowFor, TenantAccess
    <3> QED
      BY <1>2, <2>0, <3>1, <3>4
  <2>3. ASSUME c.op \in CreateOps
        PROVE  /\ {c.customer} \in SUBSET Tenant
               /\ c.tenant # None => {c.customer} \subseteq {c.tenant}
    <3>1. c.customer \in Tenant
      BY <2>0, <2>3 DEF TypeInv
    <3>2. c.tenant # None => c.customer = c.tenant
      BY <2>0, <2>3 DEF TenantCall, TenantAccess
    <3> QED
      BY <3>1, <3>2
  <2>a. {} \in SUBSET Tenant /\ {} \subseteq {c.tenant}
    OBVIOUS
  <2>4. CASE LookupCustomer(t)
    <3>1. /\ Answer(t, {c.customer}) \/ GoOn(t)
          /\ c.op = "customer" /\ c.op \in CreateOps /\ UNCHANGED <<workflows, requests>>
      BY <2>4 DEF LookupCustomer, CreateOps
    <3>2. \A x \in Thread : TenantCall(call[x])'
      BY <2>1, <2>2, <2>3, <3>1
    <3> QED
      BY <1>3, <3>1, <3>2 DEF TenantInv
  <2>5. CASE LookupWorkflow(t)
    <3> DEFINE owner == workflows[c.workflow]
    <3>1. /\ \/ Answer(t, {}) \/ GoOn(t)
             \/ owner # None /\ TenantAccess(owner, c.tenant) /\ Answer(t, {owner})
          /\ c.op = "workflow" /\ UNCHANGED <<workflows, requests>>
      BY <2>5, Zenon DEF LookupWorkflow
    <3>2. c.workflow \in Workflow
      BY <2>0, <3>1 DEF TypeInv
    <3>3. owner # None => {owner} \in SUBSET Tenant
      BY <1>0, <3>2
    <3>4. TenantAccess(owner, c.tenant) /\ c.tenant # None => {owner} \subseteq {c.tenant}
      BY DEF TenantAccess
    <3>5. \A x \in Thread : TenantCall(call[x])'
      BY <2>1, <2>2, <2>a, <3>1, <3>3, <3>4
    <3> QED
      BY <1>3, <3>1, <3>5 DEF TenantInv
  <2>6. CASE LookupEvaluate(t)
    <3>1. /\ Answer(t, {}) \/ (GoOn(t) /\ WorkflowFor(c.workflow, c.tenant))
          /\ UNCHANGED <<workflows, requests>>
      BY <2>6, Zenon DEF LookupEvaluate
    <3>2. \A x \in Thread : TenantCall(call[x])'
      BY <2>1, <2>2, <2>a, <3>1
    <3> QED
      BY <1>3, <3>1, <3>2 DEF TenantInv
  <2>7. CASE CommitCustomer(t) \/ CommitWorkflow(t)
    <3>1. /\ Answer(t, {}) \/ Answer(t, {c.customer})
          /\ c.op \in CreateOps /\ UNCHANGED requests
      BY <2>7, Zenon DEF CommitCustomer, CommitWorkflow, CreateOps
    <3>2. \A x \in Thread : TenantCall(call[x])'
      BY <2>1, <2>3, <2>a, <3>1
    <3> QED
      BY <1>3, <3>1, <3>2 DEF TenantInv
  <2>8. CASE CommitEvaluate(t)
    <3> DEFINE filed == [customer |-> c.customer, workflow |-> c.workflow, tenant |-> c.tenant]
    <3>1. /\ Answer(t, {}) \/ Answer(t, {c.customer})
          /\ c.op = "evaluate" /\ c.step = "commit" /\ UNCHANGED workflows
          /\ requests' = [requests EXCEPT ![c.request] = filed] \/ UNCHANGED requests
      BY <2>8, Zenon DEF CommitEvaluate
    <3>2. c.op \in CreateOps
      BY <3>1 DEF CreateOps
    <3>3. \A x \in Thread : TenantCall(call[x])'
      BY <2>1, <2>3, <2>a, <3>1, <3>2
    <3>4. c.tenant # None => c.customer = c.tenant /\ workflows'[c.workflow] = c.tenant
      BY <2>0, <3>1, <3>2 DEF TenantCall, WorkflowFor, TenantAccess
    <3>5. ASSUME NEW r \in Request, requests'[r] = filed PROVE FiledForTenant(requests[r])'
      BY <3>4, <3>5 DEF FiledForTenant
    <3> HIDE DEF filed
    <3>6. \A r \in Request : FiledForTenant(requests[r])'
      BY <1>0, <1>3, <3>1, <3>5
    <3> QED
      BY <3>3, <3>6 DEF TenantInv
  <2>9. CASE OnRequest(t)
    <3> DEFINE owner == requests[c.request].customer
    <3>1. /\ \/ Answer(t, {})
             \/ requests[c.request] # None /\ TenantAccess(owner, c.tenant) /\ Answer(t, {owner})
          /\ c.op \in RequestOps /\ UNCHANGED <<workflows, requests>>
      BY <2>9, Zenon DEF OnRequest, RequestFor
    <3>2. c.request \in Request
      BY <2>0, <3>1 DEF TypeInv
    <3>3. requests[c.request] # None => {owner} \in SUBSET Tenant
      BY <1>0, <3>2 DEF Rows
    <3>4. TenantAccess(owner, c.tenant) /\ c.tenant # None => {owner} \subseteq {c.tenant}
      BY DEF TenantAccess
    <3>5. \A x \in Thread : TenantCall(call[x])'
      BY <2>1, <2>a, <3>1, <3>3, <3>4
    <3> QED
      BY <1>3, <3>1, <3>5 DEF TenantInv
  <2>10. CASE ListRequests(t)
    <3> DEFINE owners == {requests[id].customer : id \in ListedFor(c.tenant)}
    <3>1. Answer(t, owners) /\ UNCHANGED <<workflows, requests>>
      BY <2>10 DEF ListRequests
    <3>2. owners \in SUBSET Tenant /\ (c.tenant # None => owners \subseteq {c.tenant})
      BY <1>0 DEF ListedFor, Rows
    <3> HIDE DEF owners
    <3>3. \A x \in Thread : TenantCall(call[x])'
      BY <2>1, <3>1, <3>2
    <3> QED
      BY <1>3, <3>1, <3>3 DEF TenantInv
  <2>11. CASE OpenRoute(t)
    <3>1. Answer(t, {}) /\ UNCHANGED <<workflows, requests>>
      BY <2>11 DEF OpenRoute
    <3>2. \A x \in Thread : TenantCall(call[x])'
      BY <2>1, <2>a, <3>1
    <3> QED
      BY <1>3, <3>1, <3>2 DEF TenantInv
  <2> QED
    BY <1>5, <2>4, <2>5, <2>6, <2>7, <2>8, <2>9, <2>10, <2>11 DEF Step
<1>6. ASSUME NEW s \in Settings, Restart(s) PROVE TenantInv'
  <2>1. call' = [t \in Thread |-> Idle(None, {})] /\ UNCHANGED <<workflows, requests>>
    BY <1>6 DEF Restart
  <2>2. \A t \in Thread : TenantCall(call[t])'
    BY <2>1 DEF TenantCall, Idle, Busy, Ops, CreateOps, RequestOps, OpenOps
  <2> QED
    BY <1>3, <2>1, <2>2 DEF TenantInv
<1>7. CASE UNCHANGED <<setting, call, requests>>
  BY <1>2, <1>3, <1>7 DEF TenantInv
<1>8. ASSUME NEW t \in Thread, ArriveOpen(t) PROVE TenantInv'
  <2>1. PICK op \in OpenOps, request \in Request :
          call' = [call EXCEPT ![t] = OpenCall(op, request)]
    BY <1>8, OpenArrives
  <2>2. UNCHANGED <<setting, workflows, requests>>
    BY <1>8, OpenArrives
  <2>3. call'[t] = OpenCall(op, request) /\ \A x \in Thread \ {t} : call'[x] = call[x]
    BY <1>0, <2>1
  <2>4. OpenCall(op, request).op = op /\ op \notin CreateOps /\ op # "evaluate" /\ op # "none"
    BY DEF OpenCall, OpenOps, CreateOps
  <2>5. TenantCall(call[t])'
    BY <2>3, <2>4 DEF TenantCall, Idles
  <2>6. \A x \in Thread : TenantCall(call[x])'
    BY <1>2, <2>2, <2>3, <2>5
  <2> QED
    BY <1>3, <2>2, <2>6 DEF TenantInv
<1> QED
  BY <1>4, <1>5, <1>6, <1>7, <1>8 DEF Next, vars, Tick

\* Nothing of another tenant is shown or filed, whatever is inserted meanwhile.
THEOREM TenantsAlwaysApart == Spec => []TenantsApart
<1>1. Init => TenantInv
  BY DEF Init, TenantInv, TenantCall, FiledForTenant, Idle, Busy, Ops, CreateOps, RequestOps, OpenOps
<1>2. Spec => [](TypeInv /\ TenantInv)
  BY <1>1, TypeInit, TypeStep, TenantStep, PTL DEF Spec
<1>3. TypeInv /\ TenantInv => TenantsApart
  BY IdleOrBusy DEF TenantInv, TenantCall, FiledForTenant, TenantsApart
<1> QED
  BY <1>2, <1>3, PTL
=============================================================================
