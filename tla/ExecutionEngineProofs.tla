----------------------- MODULE ExecutionEngineProofs -----------------------
(***************************************************************************)
(* Proofs that no interleaving of requests with changes of the registry    *)
(* runs a tool without the permissions it needs, for any number of         *)
(* requests, tools and permissions.                                        *)
(***************************************************************************)
EXTENDS ExecutionEngine, TLAPS

Thread(r) ==
  /\ pc[r] \in {"idle", "authorize"} =>
       resolved[r] = None /\ audit[r] = "none"
  /\ pc[r] = "idle" => trace[r] = <<>>
  /\ pc[r] \in {"idle", "authorize", "dispatch"} => tool[r] = None
  /\ pc[r] \in {"idle", "authorize", "dispatch", "validate", "execute"} =>
       ran[r] = None /\ result[r] = "none"
  /\ pc[r] = "authorize" => authorizer
  /\ pc[r] \in {"dispatch", "validate", "execute"} =>
       audit[r] = IF authorizer THEN "granted" ELSE "none"
  /\ pc[r] # "returned" => stored[r] = "none"
  /\ pc[r] \in {"validate", "execute"} => tool[r] # None
  /\ pc[r] = "execute" => Permitted(r)
  /\ pc[r] \in {"finish", "returned"} => result[r] # "none"
  /\ pc[r] = "raised" => result[r] = "none" /\ audit[r] # "denied"
  /\ audit[r] = "granted" => RequiredBy(resolved[r]) \subseteq request[r].claims
  /\ result[r] = "permission_check" => audit[r] # "denied" /\ ~Permitted(r)
  /\ result[r] = "permission_check" /\ authorizer => audit[r] = "granted"

RequestInv(r) == Thread(r) /\ RunIsPermitted(r) /\ Denied(r) /\ RecordsOf(r)

IInv == TypeOK /\ \A r \in Requests : RequestInv(r)

(* A step of the thread of r leaves every other request as it is.          *)
OnlyTouches(r) ==
  /\ UNCHANGED engine
  /\ \A s \in Requests \ {r} :
       /\ pc'[s] = pc[s] /\ request'[s] = request[s] /\ resolved'[s] = resolved[s]
       /\ audit'[s] = audit[s] /\ tool'[s] = tool[s] /\ ran'[s] = ran[s]
       /\ result'[s] = result[s] /\ trace'[s] = trace[s] /\ stored'[s] = stored[s]

LEMMA OthersKeep ==
  ASSUME IInv, NEW r \in Requests, OnlyTouches(r), TypeOK', RequestInv(r)'
  PROVE  IInv'
<1> SUFFICES ASSUME NEW s \in Requests, s # r PROVE RequestInv(s)'
  BY DEF IInv
<1>1. RequestInv(s)
  BY DEF IInv
<1> USE DEF OnlyTouches, engine
<1>2. Thread(s)'
  BY <1>1 DEF RequestInv, Thread, Permitted, Effective, RequiredBy
<1>3. RunIsPermitted(s)' /\ Denied(s)'
  BY <1>1 DEF RequestInv, RunIsPermitted, Denied, Effective
<1>4. RecordsOf(s)'
  BY <1>1 DEF RequestInv, RecordsOf, Decided
<1> QED
  BY <1>2, <1>3, <1>4 DEF RequestInv

(* Publishing keeps a trace a sequence of events.                          *)
LEMMA PublishType ==
  ASSUME TypeOK, NEW r \in Requests, NEW event \in EventNames, Publish(r, event)
  PROVE  trace' \in [Requests -> Seq(EventNames)]
<1>1. Append(trace[r], event) \in Seq(EventNames)
  BY DEF TypeOK
<1> QED
  BY <1>1 DEF TypeOK, Publish

LEMMA InitIInv == Init => IInv
<1> SUFFICES ASSUME Init PROVE IInv
  OBVIOUS
<1> USE DEF Init
<1>1. TypeOK
  BY DEF TypeOK
<1>2. \A r \in Requests : RequestInv(r)
  BY DEF RequestInv, Thread, RunIsPermitted, Denied, RecordsOf
<1> QED
  BY <1>1, <1>2 DEF IInv

LEMMA BeginStep ==
  ASSUME IInv, NEW r \in Requests, Begin(r)
  PROVE  IInv'
<1> USE DEF Begin, GoTo, Publish, engine, registries
<1>1. TypeOK /\ RequestInv(r)
  BY DEF IInv
<1>2. TypeOK'
  <2>1. trace' \in [Requests -> Seq(EventNames)]
    BY <1>1, PublishType DEF EventNames
  <2> QED
    BY <2>1, <1>1 DEF TypeOK
<1>3. OnlyTouches(r)
  BY <1>1 DEF OnlyTouches, TypeOK
<1>4. /\ pc[r] = "idle" /\ pc'[r] = IF authorizer THEN "authorize" ELSE "dispatch"
      /\ trace'[r] = Append(trace[r], "started")
      /\ UNCHANGED <<engine, request, resolved, audit, tool, ran, result, stored>>
  BY <1>1 DEF TypeOK
<1> HIDE DEF Begin
<1>5. Thread(r)' /\ RunIsPermitted(r)' /\ Denied(r)'
  BY <1>1, <1>4 DEF RequestInv, Thread, RunIsPermitted, Denied, Permitted, Effective
<1>6. RecordsOf(r)'
  BY <1>1, <1>4 DEF RequestInv, Thread, RecordsOf, Decided, Begun
<1> QED
  BY <1>2, <1>3, <1>5, <1>6, OthersKeep DEF RequestInv

LEMMA AuthorizeStep ==
  ASSUME IInv, NEW r \in Requests, Authorize(r)
  PROVE  IInv'
<1> USE DEF Authorize, GoTo, Publish, Answer, engine, registries
<1>1. TypeOK /\ RequestInv(r)
  BY DEF IInv
<1>2. ResolvedTool(request[r]) \in Tools \cup {None}
  BY <1>1 DEF TypeOK, ResolvedTool, ToolOf, ToolRequests, ProviderRequests
<1>3. TypeOK'
  <2>1. resolved' \in [Requests -> Tools \cup {None}]
    BY <1>1, <1>2 DEF TypeOK
  <2>2. /\ UNCHANGED <<authorizer, memory, registry, providers, request, tool, ran, stored>>
        /\ \/ /\ audit' = [audit EXCEPT ![r] = "granted"] /\ result' = result
              /\ trace' = [trace EXCEPT ![r] = Append(@, "granted")]
              /\ pc' = [pc EXCEPT ![r] = "dispatch"]
           \/ /\ audit' = [audit EXCEPT ![r] = "denied"]
              /\ result' = [result EXCEPT ![r] = "authorization"]
              /\ trace' = [trace EXCEPT ![r] = Append(@, "denied")]
              /\ pc' = [pc EXCEPT ![r] = "finish"]
    OBVIOUS
  <2> HIDE DEF Authorize
  <2>3. trace' \in [Requests -> Seq(EventNames)]
    BY <2>2, <1>1, PublishType DEF EventNames
  <2> QED
    BY <2>1, <2>2, <2>3, <1>1 DEF TypeOK, FailureStages
<1>4. OnlyTouches(r)
  BY <1>1 DEF OnlyTouches, TypeOK
<1>5. /\ pc[r] = "authorize"
      /\ UNCHANGED <<engine, request, tool, ran, stored>>
      /\ \/ /\ audit'[r] = "granted" /\ trace'[r] = Append(trace[r], "granted")
            /\ pc'[r] = "dispatch" /\ result'[r] = result[r]
            /\ RequiredBy(resolved'[r]) \subseteq request[r].claims
         \/ /\ audit'[r] = "denied" /\ trace'[r] = Append(trace[r], "denied")
            /\ pc'[r] = "finish" /\ result'[r] = "authorization"
  BY <1>1 DEF TypeOK, Granted
<1> HIDE DEF Authorize
<1>6. Thread(r)'
  BY <1>1, <1>5 DEF RequestInv, Thread
<1>7. RunIsPermitted(r)' /\ Denied(r)' /\ RecordsOf(r)'
  BY <1>1, <1>5 DEF RequestInv, Thread, RunIsPermitted, Denied, RecordsOf, Decided, Begun
<1> QED
  BY <1>3, <1>4, <1>6, <1>7, OthersKeep DEF RequestInv

LEMMA LookUpStep ==
  ASSUME IInv, NEW r \in Requests, LookUp(r)
  PROVE  IInv'
<1> USE DEF LookUp, GoTo, Answer, engine, registries
<1>1. TypeOK /\ RequestInv(r)
  BY DEF IInv
<1>2. ToolOf(request[r].operation) \in Tools \cup {None}
  BY <1>1 DEF TypeOK, ToolOf, ToolRequests, ProviderRequests
<1>3. TypeOK'
  BY <1>1, <1>2 DEF TypeOK, FailureStages
<1>4. OnlyTouches(r)
  BY <1>1 DEF OnlyTouches, TypeOK
<1>5. /\ pc[r] = "dispatch"
      /\ UNCHANGED <<engine, request, resolved, audit, ran, trace, stored>>
      /\ \/ tool'[r] = None /\ pc'[r] = "finish" /\ result'[r] = "unresolved"
         \/ tool'[r] # None /\ pc'[r] = "validate" /\ result'[r] = result[r]
  BY <1>1, <1>2 DEF TypeOK
<1> HIDE DEF LookUp
<1>6. Thread(r)' /\ RunIsPermitted(r)' /\ Denied(r)' /\ RecordsOf(r)'
  BY <1>1, <1>5 DEF RequestInv, Thread, RunIsPermitted, Denied, RecordsOf, Decided
<1> QED
  BY <1>3, <1>4, <1>6, OthersKeep DEF RequestInv

LEMMA ValidateStep ==
  ASSUME IInv, NEW r \in Requests, NEW v \in {"valid", "invalid", "blank", "error"},
         Validate(r, v)
  PROVE  IInv'
<1> USE DEF Validate, GoTo, Answer, Propagate, engine, registries
<1>1. TypeOK /\ RequestInv(r)
  BY DEF IInv
<1>2. TypeOK'
  BY <1>1 DEF TypeOK, FailureStages
<1>3. OnlyTouches(r)
  BY <1>1 DEF OnlyTouches, TypeOK
<1>4. /\ pc[r] = "validate"
      /\ UNCHANGED <<engine, request, resolved, audit, tool, ran, trace, stored>>
      /\ \/ pc'[r] = "finish" /\ result'[r] = "validate"
         \/ pc'[r] = "raised" /\ result'[r] = result[r]
         \/ pc'[r] = "execute" /\ result'[r] = result[r] /\ Permitted(r)
         \/ pc'[r] = "finish" /\ result'[r] = "permission_check" /\ ~Permitted(r)
  BY <1>1 DEF TypeOK
<1> HIDE DEF Validate
<1>5. Permitted(r)' <=> Permitted(r)
  BY <1>4 DEF Permitted, Effective, RequiredBy
<1>6. Thread(r)'
  BY <1>1, <1>4, <1>5 DEF RequestInv, Thread
<1>7. RunIsPermitted(r)' /\ Denied(r)' /\ RecordsOf(r)'
  BY <1>1, <1>4 DEF RequestInv, Thread, RunIsPermitted, Denied, RecordsOf, Decided
<1> QED
  BY <1>2, <1>3, <1>6, <1>7, OthersKeep DEF RequestInv

(* Here the tool that runs is the one the pipeline has just checked.       *)
LEMMA RunToolStep ==
  ASSUME IInv, NEW r \in Requests, NEW o \in {"ok", "failure", "error", "blank"},
         RunTool(r, o)
  PROVE  IInv'
<1> USE DEF RunTool, GoTo, Answer, Propagate, engine, registries
<1>1. TypeOK /\ RequestInv(r)
  BY DEF IInv
<1>2. TypeOK'
  BY <1>1 DEF TypeOK, FailureStages
<1>3. OnlyTouches(r)
  BY <1>1 DEF OnlyTouches, TypeOK
<1>4. /\ pc[r] = "execute" /\ ran'[r] = tool[r]
      /\ UNCHANGED <<engine, request, resolved, audit, tool, trace, stored>>
      /\ \/ pc'[r] = "finish" /\ result'[r] \in {"ok", "tool", "execute"}
         \/ pc'[r] = "raised" /\ result'[r] = result[r]
  BY <1>1 DEF TypeOK
<1> HIDE DEF RunTool
<1>5. Thread(r)'
  BY <1>1, <1>4 DEF RequestInv, Thread
<1>6. RunIsPermitted(r)'
  BY <1>1, <1>4 DEF RequestInv, Thread, RunIsPermitted, Permitted, RequiredBy, Effective
<1>7. Denied(r)' /\ RecordsOf(r)'
  BY <1>1, <1>4 DEF RequestInv, Thread, Denied, RecordsOf, Decided
<1> QED
  BY <1>2, <1>3, <1>5, <1>6, <1>7, OthersKeep DEF RequestInv

LEMMA InvokeProviderStep ==
  ASSUME IInv, NEW r \in Requests, NEW o \in {"ok", "error", "blank"},
         InvokeProvider(r, o)
  PROVE  IInv'
<1> USE DEF InvokeProvider, GoTo, Answer, Propagate, engine, registries
<1>1. TypeOK /\ RequestInv(r)
  BY DEF IInv
<1>2. TypeOK'
  <2>1. /\ UNCHANGED <<engine, registries, request, resolved, audit, tool, ran,
                       trace, stored>>
        /\ \/ /\ pc' = [pc EXCEPT ![r] = "finish"]
              /\ \E x \in {"ok", "provider", "unresolved"} :
                   result' = [result EXCEPT ![r] = x]
           \/ pc' = [pc EXCEPT ![r] = "raised"] /\ UNCHANGED result
    OBVIOUS
  <2> HIDE DEF InvokeProvider
  <2>2. pc' \in [Requests -> {"idle", "authorize", "dispatch", "validate",
                              "execute", "finish", "returned", "raised"}]
    BY <1>1, <2>1 DEF TypeOK
  <2>3. result' \in [Requests -> {"none", "ok"} \cup FailureStages]
    BY <1>1, <2>1 DEF TypeOK, FailureStages
  <2> QED
    BY <1>1, <2>1, <2>2, <2>3 DEF TypeOK
<1>3. OnlyTouches(r)
  BY <1>1 DEF OnlyTouches, TypeOK
<1>4. /\ pc[r] = "dispatch"
      /\ UNCHANGED <<engine, request, resolved, audit, tool, ran, trace, stored>>
      /\ \/ pc'[r] = "finish" /\ result'[r] \in {"ok", "provider", "unresolved"}
         \/ pc'[r] = "raised" /\ result'[r] = result[r]
  BY <1>1 DEF TypeOK
<1> HIDE DEF InvokeProvider
<1>5. Thread(r)' /\ RunIsPermitted(r)' /\ Denied(r)' /\ RecordsOf(r)'
  BY <1>1, <1>4 DEF RequestInv, Thread, RunIsPermitted, Denied, RecordsOf, Decided
<1> QED
  BY <1>2, <1>3, <1>5, OthersKeep DEF RequestInv

LEMMA FinishStep ==
  ASSUME IInv, NEW r \in Requests, Finish(r)
  PROVE  IInv'
<1> USE DEF Finish, GoTo, Publish, engine, registries
<1>1. TypeOK /\ RequestInv(r)
  BY DEF IInv
<1>2. TerminalEvent(r) \in {"completed", "failed"}
  BY DEF TerminalEvent
<1>3. TypeOK'
  <2>1. trace' \in [Requests -> Seq(EventNames)]
    BY <1>1, <1>2, PublishType DEF EventNames
  <2> QED
    BY <2>1, <1>1, <1>2 DEF TypeOK
<1>4. OnlyTouches(r)
  BY <1>1 DEF OnlyTouches, TypeOK
<1>5. /\ pc[r] = "finish" /\ pc'[r] = "returned"
      /\ trace'[r] = Append(trace[r], TerminalEvent(r))
      /\ UNCHANGED <<engine, request, resolved, audit, tool, ran, result>>
      /\ stored'[r] = stored[r] \/ (memory /\ stored'[r] = TerminalEvent(r))
  BY <1>1 DEF TypeOK
<1> HIDE DEF Finish
<1>6. Thread(r)' /\ RunIsPermitted(r)' /\ Denied(r)'
  BY <1>1, <1>5 DEF RequestInv, Thread, RunIsPermitted, Denied, Permitted, Effective, RequiredBy
<1>7. RecordsOf(r)'
  BY <1>1, <1>5 DEF RequestInv, Thread, RecordsOf, Decided, TerminalEvent
<1> QED
  BY <1>3, <1>4, <1>6, <1>7, OthersKeep DEF RequestInv

(* What the registries hold does not matter to a request under way: it     *)
(* keeps the tool object it was given.                                     *)
LEMMA RegistryStep ==
  ASSUME IInv,
         UNCHANGED <<engine, pc, request, resolved, audit, tool, ran, result, trace, stored>>,
         registry' \in [ToolIds -> Tools \cup {None}],
         providers' \in SUBSET ProviderNames
  PROVE  IInv'
<1> USE DEF IInv, engine
<1>1. TypeOK'
  BY DEF TypeOK
<1>2. ASSUME NEW r \in Requests PROVE RequestInv(r)'
  BY DEF RequestInv, Thread, RunIsPermitted, Denied, RecordsOf, Decided, Permitted,
         Effective, RequiredBy
<1> QED
  BY <1>1, <1>2

LEMMA NextStepKeepsIInv == IInv /\ [Next]_vars => IInv'
<1> SUFFICES ASSUME IInv, [Next]_vars PROVE IInv'
  OBVIOUS
<1>1. CASE \E r \in Requests : Request(r)
  BY <1>1, BeginStep, AuthorizeStep, LookUpStep, ValidateStep, RunToolStep,
     InvokeProviderStep, FinishStep DEF Request
<1>2. CASE Registry
  <2>1. registry \in [ToolIds -> Tools \cup {None}] /\ providers \in SUBSET ProviderNames
    BY DEF IInv, TypeOK
  <2>2. CASE \E t \in Tools : RegisterTool(t)
    BY <2>1, <2>2, RegistryStep, IdOfAssumption DEF RegisterTool
  <2>3. CASE \E id \in ToolIds : UnregisterTool(id)
    BY <2>1, <2>3, RegistryStep DEF UnregisterTool
  <2>4. CASE \E name \in ProviderNames : RegisterProvider(name)
    BY <2>1, <2>4, RegistryStep DEF RegisterProvider
  <2> QED
    BY <1>2, <2>2, <2>3, <2>4 DEF Registry
<1>3. CASE UNCHANGED vars
  BY <1>3, RegistryStep DEF vars, engine, registries, IInv, TypeOK
<1> QED
  BY <1>1, <1>2, <1>3 DEF Next

---------------------------------------------------------------------------
(* Theorems.                                                               *)

(* The inductive invariant holds in every reachable state.                 *)
THEOREM InductiveInvariant == Spec => []IInv
  BY InitIInv, NextStepKeepsIInv, PTL DEF Spec

(* Every variable keeps to its values.                                     *)
THEOREM TypeCorrect == Spec => []TypeOK
<1>1. IInv => TypeOK
  BY DEF IInv
<1> QED
  BY <1>1, InductiveInvariant, PTL

(* The registry may change between the authorizer's and the dispatcher's   *)
(* lookups as it likes: no tool is executed without its permissions.       *)
THEOREM NoUnpermittedRun == Spec => []NoRunWithoutPermission
<1>1. IInv => NoRunWithoutPermission
  BY DEF IInv, RequestInv, NoRunWithoutPermission
<1> QED
  BY <1>1, InductiveInvariant, PTL

(* A denied request is over: it reaches no tool and reports the denial.    *)
THEOREM DenialsAreFinal == Spec => []DenialIsFinal
<1>1. IInv => DenialIsFinal
  BY DEF IInv, RequestInv, DenialIsFinal
<1> QED
  BY <1>1, InductiveInvariant, PTL

(* Where both checks saw one object they agree: the second is there for    *)
(* the tool that was replaced in between.                                  *)
THEOREM ChecksAgreeOnOneTool == Spec => []ChecksDisagreeOnlyAfterReplacement
<1>1. IInv => ChecksDisagreeOnlyAfterReplacement
  BY DEF IInv, RequestInv, Thread, Permitted, Effective, RequiredBy,
         ChecksDisagreeOnlyAfterReplacement
<1> QED
  BY <1>1, InductiveInvariant, PTL

(* Events, audit record, memory entry and result never contradict another. *)
THEOREM RecordsAlwaysAgree == Spec => []RecordsAgree
<1>1. IInv => RecordsAgree
  BY DEF IInv, RequestInv, RecordsAgree
<1> QED
  BY <1>1, InductiveInvariant, PTL
=============================================================================
