-------------------------- MODULE ExecutionEngine --------------------------
(***************************************************************************)
(* ExecutionEngine.execute and everything a request passes through:        *)
(* AuthorizationEngine, Dispatcher and ToolExecutionPipeline.  Requests    *)
(* run on threads of their own (the workers of a parallel workflow unit)   *)
(* and share the registries, which another thread may change at any time.  *)
(*                                                                         *)
(* Bodies of tools and providers answer freely.  "blank" is an exception   *)
(* whose str() is blank, which no failed result can carry: ToolResult and  *)
(* ExecutionResult refuse a blank error and raise in its place.            *)
(*                                                                         *)
(* MutX is a wrong version of the X below it; no definition uses it.       *)
(***************************************************************************)
EXTENDS Naturals, Sequences

CONSTANTS Requests,       \* the requests in flight
          ToolIds,        \* ids a tool may have
          Tools,          \* tool objects; several may have one id
          IdOf,           \* BaseTool.id of each
          Needs,          \* BaseTool.permissions of each
          ProviderNames,  \* names a provider may have
          Permissions,    \* valid permission identifiers
          Malformed,      \* a string that is not one
          None

Claims == SUBSET (Permissions \cup {Malformed})

ToolRequests == [target : {"tool"}, operation : ToolIds, claims : Claims]
ProviderRequests ==
  [target : {"provider"}, operation : ProviderNames, claims : Claims]

ASSUME IdOfAssumption == IdOf \in [Tools -> ToolIds]
ASSUME NeedsAssumption == Needs \in [Tools -> SUBSET Permissions]
ASSUME NoneAssumption == None \notin Tools
ASSUME MalformedAssumption == Malformed \notin Permissions

VARIABLES authorizer,  \* an Authorizer is configured
          memory,      \* a MemoryStore is configured
          registry,    \* ToolRegistry._tools
          providers,   \* names in ProviderRegistry._providers
          pc,          \* where each request is
          request,     \* its ExecutionRequest and granted_permissions
          resolved,    \* tool whose permissions the resolver reported
          audit,       \* decision in its AuditRecord
          tool,        \* tool the dispatcher resolved
          ran,         \* tool whose execute() was called
          result,      \* "ok", or the stage that failed
          trace,       \* events published with its request_id
          stored       \* success flag of its MemoryEntry

engine == <<authorizer, memory>>
registries == <<registry, providers>>
vars == <<engine, registries, pc, request, resolved, audit, tool, ran, result,
          trace, stored>>

(* The metadata "stage" of a failed result, named for what failed.         *)
FailureStages ==
  {"authorization", "unresolved", "validate", "permission_check", "execute",
   "tool", "provider"}

EventNames == {"started", "granted", "denied", "completed", "failed"}

ToolOf(id) == registry[id]

(* PermissionResolver: an id that is not registered needs nothing, and     *)
(* neither does a provider.                                                *)
RequiredBy(t) == IF t = None THEN {} ELSE Needs[t]

ResolvedTool(q) == IF q.target = "tool" THEN ToolOf(q.operation) ELSE None

(* AuthorizationEngine.check: one malformed claim denies the request.      *)
Granted(q) ==
  /\ Malformed \notin q.claims
  /\ RequiredBy(ResolvedTool(q)) \subseteq q.claims

MutEffective(r) == {}

(* Without an authorizer no claim is ever forwarded to the dispatcher.     *)
Effective(r) == IF authorizer THEN request[r].claims ELSE {}

MutPermitted(r) ==
  IF authorizer THEN RequiredBy(resolved[r]) \subseteq Effective(r)
  ELSE RequiredBy(tool[r]) = {}

(* The pipeline's own check, on the tool object it is about to run.        *)
Permitted(r) == RequiredBy(tool[r]) \subseteq Effective(r)

---------------------------------------------------------------------------
Init ==
  /\ authorizer \in BOOLEAN
  /\ memory \in BOOLEAN
  /\ registry \in {g \in [ToolIds -> Tools \cup {None}] :
                     \A id \in ToolIds : g[id] # None => IdOf[g[id]] = id}
  /\ providers \in SUBSET ProviderNames
  /\ pc = [r \in Requests |-> "idle"]
  /\ request \in [Requests -> ToolRequests \cup ProviderRequests]
  /\ resolved = [r \in Requests |-> None]
  /\ audit = [r \in Requests |-> "none"]
  /\ tool = [r \in Requests |-> None]
  /\ ran = [r \in Requests |-> None]
  /\ result = [r \in Requests |-> "none"]
  /\ trace = [r \in Requests |-> <<>>]
  /\ stored = [r \in Requests |-> "none"]

GoTo(r, where) == pc' = [pc EXCEPT ![r] = where]

Publish(r, event) == trace' = [trace EXCEPT ![r] = Append(@, event)]

(* A request that has its result goes on to _finish.                       *)
Answer(r, outcome) ==
  /\ result' = [result EXCEPT ![r] = outcome]
  /\ GoTo(r, "finish")

(* The exception leaves execute(): _finish is never reached.               *)
Propagate(r) == GoTo(r, "raised") /\ UNCHANGED result

(* execute() publishes ExecutionStarted and looks for an authorizer.       *)
Begin(r) ==
  /\ pc[r] = "idle"
  /\ Publish(r, "started")
  /\ GoTo(r, IF authorizer THEN "authorize" ELSE "dispatch")
  /\ UNCHANGED <<engine, registries, request, resolved, audit, tool, ran,
                 result, stored>>

(* check() publishes and audits its decision whichever way it goes.        *)
Authorize(r) ==
  /\ pc[r] = "authorize"
  /\ resolved' = [resolved EXCEPT ![r] =
       IF Malformed \in request[r].claims THEN None ELSE ResolvedTool(request[r])]
  /\ IF Granted(request[r])
     THEN /\ audit' = [audit EXCEPT ![r] = "granted"]
          /\ Publish(r, "granted")
          /\ GoTo(r, "dispatch") /\ UNCHANGED result
     ELSE /\ audit' = [audit EXCEPT ![r] = "denied"]
          /\ Publish(r, "denied")
          /\ Answer(r, "authorization")
  /\ UNCHANGED <<engine, registries, request, tool, ran, stored>>

(* _dispatch_to_tool looks the tool up again.  The permission strings it   *)
(* parses next are well formed: check() has parsed them, or there are none.*)
LookUp(r) ==
  /\ pc[r] = "dispatch"
  /\ request[r].target = "tool"
  /\ tool' = [tool EXCEPT ![r] = ToolOf(request[r].operation)]
  /\ IF tool'[r] = None
     THEN Answer(r, "unresolved")
     ELSE GoTo(r, "validate") /\ UNCHANGED result
  /\ UNCHANGED <<engine, registries, request, resolved, audit, ran, trace, stored>>

(* The pipeline catches ToolValidationError and nothing else of validate().*)
Validate(r, verdict) ==
  /\ pc[r] = "validate"
  /\ CASE verdict = "invalid" -> Answer(r, "validate")
       [] verdict \in {"blank", "error"} -> Propagate(r)
       [] verdict = "valid" ->
            IF Permitted(r)
            THEN GoTo(r, "execute") /\ UNCHANGED result
            ELSE Answer(r, "permission_check")
  /\ UNCHANGED <<engine, registries, request, resolved, audit, tool, ran, trace,
                 stored>>

(* tool.execute(): it answers, reports a failure of its own, or raises.    *)
RunTool(r, outcome) ==
  /\ pc[r] = "execute"
  /\ ran' = [ran EXCEPT ![r] = tool[r]]
  /\ CASE outcome = "ok" -> Answer(r, "ok")
       [] outcome = "failure" -> Answer(r, "tool")
       [] outcome = "error" -> Answer(r, "execute")
       [] outcome = "blank" -> Propagate(r)
  /\ UNCHANGED <<engine, registries, request, resolved, audit, tool, trace, stored>>

(* _dispatch_to_provider: there is no permission to check.                 *)
InvokeProvider(r, outcome) ==
  /\ pc[r] = "dispatch"
  /\ request[r].target = "provider"
  /\ IF request[r].operation \notin providers
     THEN Answer(r, "unresolved")
     ELSE CASE outcome = "ok" -> Answer(r, "ok")
            [] outcome = "error" -> Answer(r, "provider")
            [] outcome = "blank" -> Propagate(r)
  /\ UNCHANGED <<engine, registries, request, resolved, audit, tool, ran, trace,
                 stored>>

MutNamedByResult(r) == result[r]

MutTerminalEvent(r) == IF result[r] \in {"ok", "tool"} THEN "completed" ELSE "failed"

TerminalEvent(r) == IF result[r] = "ok" THEN "completed" ELSE "failed"

(* _finish publishes the terminal event and records the outcome; what      *)
(* MemoryStore.add raises is swallowed.                                    *)
Finish(r) ==
  /\ pc[r] = "finish"
  /\ Publish(r, TerminalEvent(r))
  /\ \E kept \in IF memory THEN BOOLEAN ELSE {FALSE} :
       stored' = IF kept THEN [stored EXCEPT ![r] = TerminalEvent(r)] ELSE stored
  /\ GoTo(r, "returned")
  /\ UNCHANGED <<engine, registries, request, resolved, audit, tool, ran, result>>

(* ToolRegistry.register and unregister; both raise, and change nothing,   *)
(* when the id is taken or unknown.                                        *)
RegisterTool(t) ==
  /\ ToolOf(IdOf[t]) = None
  /\ registry' = [registry EXCEPT ![IdOf[t]] = t]
  /\ UNCHANGED <<engine, providers, pc, request, resolved, audit, tool, ran,
                 result, trace, stored>>

UnregisterTool(id) ==
  /\ ToolOf(id) # None
  /\ registry' = [registry EXCEPT ![id] = None]
  /\ UNCHANGED <<engine, providers, pc, request, resolved, audit, tool, ran,
                 result, trace, stored>>

(* ProviderRegistry.register; a provider is never removed.                 *)
RegisterProvider(name) ==
  /\ name \notin providers
  /\ providers' = providers \cup {name}
  /\ UNCHANGED <<engine, registry, pc, request, resolved, audit, tool, ran,
                 result, trace, stored>>

Request(r) ==
  \/ Begin(r)
  \/ Authorize(r)
  \/ LookUp(r)
  \/ \E v \in {"valid", "invalid", "blank", "error"} : Validate(r, v)
  \/ \E o \in {"ok", "failure", "error", "blank"} : RunTool(r, o)
  \/ \E o \in {"ok", "error", "blank"} : InvokeProvider(r, o)
  \/ Finish(r)

Registry ==
  \/ \E t \in Tools : RegisterTool(t)
  \/ \E id \in ToolIds : UnregisterTool(id)
  \/ \E name \in ProviderNames : RegisterProvider(name)

Next == (\E r \in Requests : Request(r)) \/ Registry

Spec == Init /\ [][Next]_vars

---------------------------------------------------------------------------
(* The values each variable can take.                                      *)
TypeOK ==
  /\ authorizer \in BOOLEAN
  /\ memory \in BOOLEAN
  /\ registry \in [ToolIds -> Tools \cup {None}]
  /\ providers \in SUBSET ProviderNames
  /\ pc \in [Requests -> {"idle", "authorize", "dispatch", "validate", "execute",
                          "finish", "returned", "raised"}]
  /\ request \in [Requests -> ToolRequests \cup ProviderRequests]
  /\ resolved \in [Requests -> Tools \cup {None}]
  /\ audit \in [Requests -> {"none", "granted", "denied"}]
  /\ tool \in [Requests -> Tools \cup {None}]
  /\ ran \in [Requests -> Tools \cup {None}]
  /\ result \in [Requests -> {"none", "ok"} \cup FailureStages]
  /\ trace \in [Requests -> Seq(EventNames)]
  /\ stored \in [Requests -> {"none", "completed", "failed"}]

(* However the registry changes between the authorizer's lookup and the    *)
(* dispatcher's, a tool is executed only with the permissions that very    *)
(* object needs, claimed by the request and not denied by the authorizer.  *)
RunIsPermitted(r) ==
  ran[r] # None =>
    /\ Needs[ran[r]] \subseteq Effective(r)
    /\ audit[r] = IF authorizer THEN "granted" ELSE "none"

NoRunWithoutPermission == \A r \in Requests : RunIsPermitted(r)

(* A denied request never reaches the dispatcher, and what it returns is   *)
(* the denial.                                                             *)
Denied(r) ==
  audit[r] = "denied" =>
    /\ tool[r] = None /\ ran[r] = None
    /\ pc[r] \in {"finish", "returned"} /\ result[r] = "authorization"

DenialIsFinal == \A r \in Requests : Denied(r)

(* The two permission checks can disagree only about a tool that was       *)
(* registered under the id after the request had been authorized.          *)
ChecksDisagreeOnlyAfterReplacement ==
  \A r \in Requests :
    authorizer /\ result[r] = "permission_check" => tool[r] # resolved[r]

Begun == Append(<<>>, "started")
Decided(r) == IF audit[r] = "none" THEN Begun ELSE Append(Begun, audit[r])

(* The events of a request, its audit record, its memory entry and its     *)
(* result tell one story: started, then the decision that was audited,     *)
(* then one terminal event if and only if execute() returned.              *)
RecordsOf(r) ==
  /\ pc[r] # "idle" =>
       trace[r] = IF pc[r] = "returned"
                  THEN Append(Decided(r), IF result[r] = "ok" THEN "completed" ELSE "failed")
                  ELSE Decided(r)
  /\ stored[r] # "none" =>
       /\ memory /\ pc[r] = "returned"
       /\ (stored[r] = "completed") <=> (result[r] = "ok")

RecordsAgree == \A r \in Requests : RecordsOf(r)

---------------------------------------------------------------------------
(* dispatch.py: an exception raised while executing a request is           *)
(* translated into a failed ExecutionResult rather than propagated.        *)
NothingPropagates == \A r \in Requests : pc[r] # "raised"
=============================================================================
