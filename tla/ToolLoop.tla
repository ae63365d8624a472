------------------------------ MODULE ToolLoop ------------------------------
(***************************************************************************)
(* ToolCallLoop.run, called turn after turn by a consumer that keeps the   *)
(* messages each run returns.  Within a run, provider rounds and single    *)
(* tool calls are steps of their own; the hook, the tools and the          *)
(* provider's model answer freely, and a blank exception may escape from   *)
(* the execution engine (see ExecutionEngine) or any from the hook.        *)
(* Other threads change the registries at any time: what they hold is      *)
(* chosen where the loop reads them.                                       *)
(*                                                                         *)
(* MutX is a wrong version of the X below it; no definition uses it.       *)
(***************************************************************************)
EXTENDS ToolMessages

CONSTANTS Batches,        \* the lists of calls a model may ask for
          MaxIterations,  \* ToolLoopOptions.max_iterations
          MaxRuns         \* bound: calls of run()

ASSUME BatchesAssumption == Batches \subseteq Seq(Calls)
ASSUME IterationsAssumption == MaxIterations \in Nat \ {0}

VARIABLES conversation,  \* the messages the consumer holds
          runs,          \* calls of run() so far
          pc,            \* where the loop is; "idle" outside run()
          offered,       \* names of the ToolSpecs of this run
          iteration,     \* provider rounds begun
          history,       \* messages of this run
          calls,         \* calls of the round being handled
          blocks,        \* ToolResultBlocks of the round so far
          records,       \* ToolCallRecords
          trace,         \* events the loop published in this run
          outcome        \* how the last run ended

loop == <<offered, iteration, history, calls, blocks, records, trace>>
vars == <<conversation, runs, pc, loop, outcome>>

Outcomes == {"none", "answered", "provider", "exhausted", "refused", "raised"}

Records == [call : Calls, executed : BOOLEAN, success : BOOLEAN]

Events == [event : {"requested", "completed", "rejected"}, call : Calls]

Event(event, call) == [event |-> event, call |-> call]

---------------------------------------------------------------------------
Init ==
  /\ conversation = <<>> /\ runs = 0
  /\ pc = "idle"
  /\ offered = {} /\ iteration = 0 /\ history = <<>>
  /\ calls = <<>> /\ blocks = <<>> /\ records = <<>> /\ trace = <<>>
  /\ outcome = "none"

(* The consumer adds a user turn, or calls again after a failed run.       *)
Prompts == {Append(conversation, UserMessage)} \cup
           (IF outcome \in {"provider", "exhausted", "raised", "refused"}
            THEN {conversation} \ {<<>>} ELSE {})

(* _describe: every tool of the allowlist is there to be described.         *)
Describes(ids, registered) == ids \subseteq registered

(* run() before its loop: no tools, _describe or _require_tool_calls.      *)
Refuses(ids, registered, capable) ==
  ids = {} \/ ~Describes(ids, registered) \/ ~capable

(* run() up to its loop.                                                   *)
Run(ids, registered, capable, messages) ==
  /\ pc = "idle" /\ runs < MaxRuns
  /\ runs' = runs + 1
  /\ conversation' = messages
  /\ IF Refuses(ids, registered, capable)
     THEN outcome' = "refused" /\ UNCHANGED <<pc, loop>>
     ELSE /\ pc' = "ask"
          /\ offered' = ids /\ iteration' = 0 /\ history' = messages
          /\ calls' = <<>> /\ blocks' = <<>> /\ records' = <<>> /\ trace' = <<>>
          /\ outcome' = "none"

(* tuple(history), in every ToolLoopResult.                                *)
Returned(messages) == messages

(* run() returns; the consumer keeps the messages of the result.           *)
Return(how, messages) ==
  /\ outcome' = how
  /\ conversation' = Returned(messages)
  /\ pc' = "idle"

MutRaise == outcome' = "raised" /\ pc' = "idle" /\ conversation' = history

(* An exception leaves run(): the list that was passed in is untouched.    *)
Raise == outcome' = "raised" /\ pc' = "idle" /\ UNCHANGED conversation

MutBudgetLeft == iteration <= MaxIterations

BudgetLeft == iteration < MaxIterations

(* By either wire format: the next run may name another provider.          *)
AcceptsHistory ==
  \A i \in DOMAIN history :
    ChatAccepts(history[i]) /\ ClaudeAccepts(history[i])

MutTurn(text, batch) ==
  AssistantMessage(text, IF text THEN <<>> ELSE batch)

(* assistant_message                                                       *)
Turn(text, batch) == AssistantMessage(text, batch)

MutUsable(text, batch) == TRUE

(* The shipped providers raise on a response without text and calls.       *)
Usable(text, batch) == text \/ batch # <<>>

(* A provider round that succeeds.                                         *)
Reply(text, batch) ==
  /\ pc = "ask" /\ BudgetLeft /\ AcceptsHistory
  /\ Usable(text, batch)
  /\ iteration' = iteration + 1
  /\ history' = Append(history, Turn(text, batch))
  /\ IF batch = <<>>
     THEN Return("answered", history') /\ UNCHANGED calls
     ELSE calls' = batch /\ pc' = "request" /\ UNCHANGED <<outcome, conversation>>
  /\ UNCHANGED <<runs, offered, blocks, records, trace>>

(* A provider round whose result is not a success.                         *)
ProviderFails ==
  /\ pc = "ask" /\ BudgetLeft
  /\ iteration' = iteration + 1
  /\ Return("provider", history)
  /\ UNCHANGED <<runs, offered, history, calls, blocks, records, trace>>

ProviderRaises ==
  /\ pc = "ask" /\ BudgetLeft /\ AcceptsHistory
  /\ iteration' = iteration + 1
  /\ Raise
  /\ UNCHANGED <<runs, offered, history, calls, blocks, records, trace>>

MutExhaust ==
  /\ pc = "ask" /\ iteration > MaxIterations
  /\ Return("exhausted", history)
  /\ UNCHANGED <<runs, loop>>

(* Behind the while: the budget is spent and the model still wants tools.  *)
Exhaust ==
  /\ pc = "ask" /\ ~BudgetLeft
  /\ Return("exhausted", history)
  /\ UNCHANGED <<runs, loop>>

---------------------------------------------------------------------------
(* One call: _handle and _reject.                                          *)

Current == calls[Len(blocks) + 1]

Request ==
  /\ pc = "request"
  /\ trace' = Append(trace, Event("requested", Current))
  /\ pc' = "vet"
  /\ UNCHANGED <<conversation, runs, offered, iteration, history, calls,
                 blocks, records, outcome>>

MutBlock(call, success) == [id |-> call.id, error |-> FALSE]

Block(call, success) == [id |-> call.id, error |-> ~success]

MutVerdict(executed) == "completed"

Verdict(executed) == IF executed THEN "completed" ELSE "rejected"

MutSettle(executed, success) ==
  LET answered == IF executed THEN Append(blocks, Block(Current, success)) ELSE blocks
  IN  /\ records' = Append(records,
           [call |-> Current, executed |-> executed, success |-> success])
      /\ trace' = Append(trace,
           Event(Verdict(executed), Current))
      /\ IF Len(answered) = Len(calls) \/ ~executed
         THEN /\ history' = Append(history, ToolResultsMessage(answered))
              /\ calls' = <<>> /\ blocks' = <<>>
              /\ pc' = "ask"
         ELSE /\ blocks' = answered
              /\ pc' = "request"
              /\ UNCHANGED <<history, calls>>

(* Record, publish and answer the current call; behind the last call of    *)
(* the round the results join the history.                                 *)
Settle(executed, success) ==
  LET answered == Append(blocks, Block(Current, success))
  IN  /\ records' = Append(records,
           [call |-> Current, executed |-> executed, success |-> success])
      /\ trace' = Append(trace,
           Event(Verdict(executed), Current))
      /\ IF Len(answered) = Len(calls)
         THEN /\ history' = Append(history, ToolResultsMessage(answered))
              /\ calls' = <<>> /\ blocks' = <<>>
              /\ pc' = "ask"
         ELSE /\ blocks' = answered
              /\ pc' = "request"
              /\ UNCHANGED <<history, calls>>

MayRun(call) == call.name \in offered

(* Not in the offered set, or declined by before_tool_call.                *)
Reject ==
  /\ pc = "vet"
  /\ Settle(FALSE, FALSE)
  /\ UNCHANGED <<conversation, runs, offered, iteration, outcome>>

Approve ==
  /\ pc = "vet" /\ MayRun(Current)
  /\ pc' = "execute"
  /\ UNCHANGED <<conversation, runs, loop, outcome>>

HookRaises ==
  /\ pc = "vet" /\ MayRun(Current)
  /\ Raise
  /\ UNCHANGED <<runs, loop>>

(* ExecutionEngine.execute; it fails when the tool is gone by now.         *)
Execute(success) ==
  /\ pc = "execute"
  /\ Settle(TRUE, success)
  /\ UNCHANGED <<conversation, runs, offered, iteration, outcome>>

ToolRaises ==
  /\ pc = "execute"
  /\ Raise
  /\ UNCHANGED <<runs, loop>>

Step ==
  \/ \E text \in BOOLEAN, batch \in Batches \cup {<<>>} : Reply(text, batch)
  \/ ProviderFails
  \/ ProviderRaises
  \/ Exhaust
  \/ Request
  \/ Reject
  \/ Approve
  \/ HookRaises
  \/ \E success \in BOOLEAN : Execute(success)
  \/ ToolRaises

Next ==
  \/ \E ids, registered \in SUBSET ToolIds, capable \in BOOLEAN, messages \in Prompts :
       Run(ids, registered, capable, messages)
  \/ Step

Spec == Init /\ [][Next]_vars

(* The calling thread is scheduled; provider, hook and tools return.       *)
FairSpec == Spec /\ WF_vars(Step)

---------------------------------------------------------------------------
(* The values each variable can take.                                      *)
TypeOK ==
  /\ conversation \in Seq(Messages)
  /\ runs \in Nat
  /\ pc \in {"idle", "ask", "request", "vet", "execute"}
  /\ offered \in SUBSET ToolIds
  /\ iteration \in 0..MaxIterations
  /\ history \in Seq(Messages)
  /\ calls \in Seq(Calls)
  /\ blocks \in Seq(Results)
  /\ records \in Seq(Records)
  /\ trace \in Seq(Events)
  /\ outcome \in Outcomes

(* Whatever a round met (a refusal, a failing tool, a tool that is gone),  *)
(* the messages sent to the provider next, and those a run hands back,     *)
(* answer every tool call once, in order, in the message behind it.        *)
HistoryIsPaired ==
  /\ Paired(conversation)
  /\ pc = "ask" => Paired(history)

(* So no provider's translation ever refuses what the loop sends it.       *)
ProvidersAcceptHistory == pc = "ask" => AcceptsHistory

(* A call reaches the engine only when its tool was offered to the model   *)
(* in this run, whatever the registry holds by then.                       *)
OnlyOfferedToolsRun ==
  \A k \in DOMAIN records : records[k].executed => records[k].call.name \in offered

(* Requests published and not settled: one while a call is handled, and    *)
(* for ever when handling it raised.                                       *)
OpenRequests ==
  CASE pc \in {"vet", "execute"} -> {1}
    [] pc = "idle" /\ outcome \in {"raised", "refused"} -> {0, 1}
    [] OTHER -> {0}

(* Each record of a run is told by two events, in order: the request, and  *)
(* how it was settled.                                                     *)
EventsTellRecords ==
  /\ Len(trace) - 2 * Len(records) \in OpenRequests
  /\ \A k \in DOMAIN records :
       /\ trace[2 * k - 1] = Event("requested", records[k].call)
       /\ trace[2 * k] = Event(IF records[k].executed THEN "completed" ELSE "rejected",
                               records[k].call)

(* What the consumer holds only grows: no run rewrites or drops a message. *)
NothingIsRewritten ==
  [][/\ Len(conversation) <= Len(conversation')
     /\ conversation = SubSeq(conversation', 1, Len(conversation))]_vars

(* Every run ends: the budget bounds its rounds.                           *)
RunEnds == (pc # "idle") ~> (pc = "idle")

---------------------------------------------------------------------------
(* The loop implements the atomic rounds of ToolConversation: a round      *)
(* happens when its last call is settled.                                  *)
Conversation == INSTANCE ToolConversation WITH
  held <- conversation,
  messages <- IF calls = <<>> THEN history ELSE SubSeq(history, 1, Len(history) - 1),
  rounds <- IF pc \in {"request", "vet", "execute"} THEN iteration - 1 ELSE iteration,
  running <- pc # "idle"

RefinesConversation == Conversation!ConvSpec
=============================================================================
