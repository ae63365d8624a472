---------------------------- MODULE ToolLoopWire ----------------------------
(***************************************************************************)
(* The history of ToolLoop as _chat_completions.messages_to_chat puts it   *)
(* on the wire, where one message of results fans out into several, and    *)
(* as the records of the run tell it.                                      *)
(***************************************************************************)
EXTENDS ToolLoop, SequencesExt

(* _message_to_chat, for a message it accepts; "calls" and "answers" hold  *)
(* the ids on the wire.                                                    *)
ToChat(m) ==
  IF m.results # <<>>
  THEN [i \in DOMAIN m.results |->
          [role |-> "tool", calls |-> <<>>, answers |-> <<m.results[i].id>>]]
  ELSE << [role |-> m.role, calls |-> [i \in DOMAIN m.calls |-> m.calls[i].id],
           answers |-> <<>>] >>

Wire(messages) == FlattenSeq([i \in DOMAIN messages |-> ToChat(messages[i])])

(* A Chat Completions endpoint wants each assistant message with tool      *)
(* calls followed by exactly one tool message per call, and no other tool  *)
(* messages: so it is, position for position, in every request.            *)
WireIsPaired ==
  pc = "ask" =>
    LET wire == Wire(history) IN
    \A k \in DOMAIN wire :
      /\ \A i \in DOMAIN wire[k].calls :
           k + i \in DOMAIN wire /\ wire[k + i].answers = <<wire[k].calls[i]>>
      /\ wire[k].role = "tool" =>
           \E a \in 1..(k - 1) : k - a \in DOMAIN wire[a].calls

(* What a result reports as tool_calls is what its messages say: the calls *)
(* asked for and the outcome told to the model, in order, the assistant    *)
(* turns as many as the rounds that got a reply.                           *)
RecordsTellHistory ==
  pc = "ask" \/ (pc = "idle" /\ outcome \in {"answered", "provider", "exhausted"}) =>
    \E start \in 0..Len(history) :
      LET new == SubSeq(history, start + 1, Len(history))
          asked == FlattenSeq([i \in DOMAIN new |-> new[i].calls])
          told == FlattenSeq([i \in DOMAIN new |-> new[i].results])
      IN  /\ asked = [k \in DOMAIN records |-> records[k].call]
          /\ told = [k \in DOMAIN records |->
                        [id |-> records[k].call.id, error |-> ~records[k].success]]
          /\ Cardinality({i \in DOMAIN new : new[i].role = "assistant"}) =
               iteration - (IF outcome = "provider" THEN 1 ELSE 0)
=============================================================================
