---------------------------- MODULE ToolMessages ----------------------------
(***************************************************************************)
(* The provider-neutral messages of a conversation with tools and how the  *)
(* two tool-calling wire formats accept them.  A message is told apart by  *)
(* its role and the blocks in its content: a text block, tool_use blocks   *)
(* (calls), tool_result blocks (results).  String content counts as text.  *)
(***************************************************************************)
EXTENDS Naturals, Sequences

CONSTANTS CallIds,  \* provider-issued ids of tool calls
          ToolIds   \* names of kernel tools

Calls == [id : CallIds, name : ToolIds]

Results == [id : CallIds, error : BOOLEAN]

Messages == [role : {"system", "user", "assistant"}, text : BOOLEAN,
             calls : Seq(Calls), results : Seq(Results)]

UserMessage == [role |-> "user", text |-> TRUE, calls |-> <<>>, results |-> <<>>]

AssistantMessage(text, calls) ==
  [role |-> "assistant", text |-> text, calls |-> calls, results |-> <<>>]

ToolResultsMessage(results) ==
  [role |-> "user", text |-> FALSE, calls |-> <<>>, results |-> results]

Blank(m) == ~m.text /\ m.calls = <<>> /\ m.results = <<>>

(* What messages_to_chat translates without raising: results are alone in  *)
(* a user message, calls are in an assistant message.                      *)
ChatAccepts(m) ==
  /\ ~Blank(m)
  /\ IF m.results # <<>> THEN m.role = "user" /\ ~m.text /\ m.calls = <<>>
     ELSE m.calls # <<>> => m.role = "assistant"

(* What _to_anthropic_message translates without raising.                  *)
ClaudeAccepts(m) == m.role \in {"user", "assistant"} /\ ~Blank(m)

(* The message answers the calls one for one, in their order.              *)
Answers(m, calls) ==
  /\ m.role = "user" /\ ~m.text /\ m.calls = <<>>
  /\ Len(m.results) = Len(calls)
  /\ \A i \in DOMAIN calls : m.results[i].id = calls[i].id

(* Every assistant turn that asks for tools is answered by the next        *)
(* message, and results come nowhere else.                                 *)
Paired(messages) ==
  \A i \in DOMAIN messages :
    /\ messages[i].calls # <<>> =>
         i < Len(messages) /\ Answers(messages[i + 1], messages[i].calls)
    /\ messages[i].results # <<>> =>
         i > 1 /\ Answers(messages[i], messages[i - 1].calls)
=============================================================================
