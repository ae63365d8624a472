-------------------------- MODULE ToolConversation --------------------------
(***************************************************************************)
(* What ToolCallLoop.run promises the consumer of a conversation, with the *)
(* handling of single calls hidden: a round is one indivisible step that   *)
(* appends the assistant's turn and an answer to each call in it; a run    *)
(* hands back what it was given extended by its rounds and the final       *)
(* answer, or, when an exception escapes, leaves the consumer's messages   *)
(* as they were.                                                           *)
(***************************************************************************)
EXTENDS ToolMessages

CONSTANT MaxIterations

VARIABLES held,      \* the messages the consumer holds
          messages,  \* those of the run under way
          rounds,    \* provider rounds it has begun
          running    \* a run is under way

convVars == <<held, messages, rounds, running>>

ConvInit ==
  /\ held = <<>> /\ messages = <<>>
  /\ rounds = 0 /\ running = FALSE

Open ==
  /\ ~running
  /\ messages' \in {held, Append(held, UserMessage)}
  /\ held' = messages'
  /\ rounds' = 0
  /\ running' = TRUE

(* A run that cannot start leaves the consumer with its own message only.  *)
Decline ==
  /\ ~running
  /\ held' \in {held, Append(held, UserMessage)}
  /\ UNCHANGED <<messages, rounds, running>>

Round ==
  /\ running
  /\ rounds < MaxIterations
  /\ Len(messages') = Len(messages) + 2
  /\ LET turn == messages'[Len(messages) + 1]
         answer == messages'[Len(messages) + 2]
     IN  /\ turn.role = "assistant" /\ turn.calls # <<>> /\ turn.results = <<>>
         /\ Answers(answer, turn.calls)
         /\ messages' = Append(Append(messages, turn), answer)
  /\ rounds' = rounds + 1
  /\ UNCHANGED <<held, running>>

(* The final answer, or none: the provider failed or the budget is spent.  *)
Close(answered) ==
  /\ running
  /\ answered => rounds < MaxIterations
  /\ messages' = IF answered THEN Append(messages, AssistantMessage(TRUE, <<>>)) ELSE messages
  /\ held' = messages'
  /\ rounds' \in {rounds, rounds + 1}
  /\ running' = FALSE

Escape ==
  /\ running
  /\ rounds' \in {rounds, rounds + 1}
  /\ running' = FALSE
  /\ UNCHANGED <<held, messages>>

ConvNext ==
  \/ Open
  \/ Decline
  \/ Round
  \/ \E answered \in BOOLEAN : Close(answered)
  \/ Escape

ConvSpec == ConvInit /\ [][ConvNext]_convVars
=============================================================================
