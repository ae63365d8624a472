--------------------------- MODULE ToolLoopProofs ---------------------------
(***************************************************************************)
(* Proofs about ToolLoop, and about its history on the wire and in the     *)
(* records, for any tools, any answers of the model and any number of      *)
(* runs, rounds and calls.                                                 *)
(***************************************************************************)
EXTENDS ToolLoopWire, SequenceTheorems, FiniteSetTheorems, TLAPS

---------------------------------------------------------------------------
(* Conversations a provider accepts, and how they grow.                    *)

Sound(messages) ==
  /\ Paired(messages)
  /\ \A i \in DOMAIN messages :
       ChatAccepts(messages[i]) /\ ClaudeAccepts(messages[i])

(* The longer conversation begins with the shorter one.                    *)
Extends(long, short) ==
  /\ Len(short) <= Len(long)
  /\ \A i \in 1..Len(short) : long[i] = short[i]

Plain(m) ==
  /\ m \in Messages
  /\ m.role \in {"user", "assistant"} /\ m.text /\ m.calls = <<>> /\ m.results = <<>>

LEMMA AppendFacts ==
  ASSUME NEW S, NEW s \in Seq(S), NEW e \in S
  PROVE  /\ Append(s, e) \in Seq(S)
         /\ Len(Append(s, e)) = Len(s) + 1
         /\ DOMAIN Append(s, e) = 1..(Len(s) + 1)
         /\ \A i \in DOMAIN s : Append(s, e)[i] = s[i]
         /\ Append(s, e)[Len(s) + 1] = e
  OBVIOUS

(* Text never disturbs the pairing of calls and results.                   *)
LEMMA SoundPlain ==
  ASSUME NEW s \in Seq(Messages), Sound(s), NEW m, Plain(m)
  PROVE  Append(s, m) \in Seq(Messages) /\ Sound(Append(s, m))
<1> DEFINE t == Append(s, m)
<1>1. /\ m \in Messages /\ m.text /\ m.calls = <<>> /\ m.results = <<>>
      /\ m.role \in {"user", "assistant"}
  BY DEF Plain
<1>2. /\ t \in Seq(Messages) /\ Len(t) = Len(s) + 1 /\ DOMAIN t = 1..(Len(s) + 1)
      /\ \A i \in DOMAIN s : t[i] = s[i]
      /\ t[Len(s) + 1] = m /\ DOMAIN s = 1..Len(s) /\ Len(s) \in Nat
  BY <1>1, AppendFacts
<1> HIDE DEF t
<1>3. ChatAccepts(m) /\ ClaudeAccepts(m)
  BY <1>1 DEF ChatAccepts, ClaudeAccepts, Blank
<1>4. ASSUME NEW i \in DOMAIN t PROVE ChatAccepts(t[i]) /\ ClaudeAccepts(t[i])
  BY <1>2, <1>3, i \in DOMAIN s \/ i = Len(s) + 1 DEF Sound
<1>5. ASSUME NEW i \in DOMAIN t
      PROVE  /\ t[i].calls # <<>> => i < Len(t) /\ Answers(t[i + 1], t[i].calls)
             /\ t[i].results # <<>> => i > 1 /\ Answers(t[i], t[i - 1].calls)
  <2>1. CASE i \in DOMAIN s
    <3>1. t[i] = s[i] /\ i <= Len(s)
      BY <1>2, <2>1
    <3>2. s[i].calls # <<>> => i < Len(s) /\ Answers(s[i + 1], s[i].calls)
      BY <2>1 DEF Sound, Paired
    <3>3. s[i].results # <<>> => i > 1 /\ Answers(s[i], s[i - 1].calls)
      BY <2>1 DEF Sound, Paired
    <3>4. i < Len(s) => t[i + 1] = s[i + 1]
      BY <1>2, <2>1
    <3>5. i > 1 => t[i - 1] = s[i - 1]
      BY <1>2, <2>1
    <3> QED
      BY <1>2, <3>1, <3>2, <3>3, <3>4, <3>5
  <2>2. CASE i = Len(s) + 1
    BY <1>1, <1>2, <2>2
  <2> QED
    BY <1>2, <2>1, <2>2
<1> QED
  BY <1>2, <1>4, <1>5 DEF Sound, Paired, t

(* Nor does a whole round: a turn with calls and the answer to each.       *)
LEMMA SoundRound ==
  ASSUME NEW s \in Seq(Messages), Sound(s),
         NEW turn \in Messages, NEW answer \in Messages,
         turn.role = "assistant", turn.calls # <<>>, turn.results = <<>>,
         Answers(answer, turn.calls), answer.results # <<>>
  PROVE  /\ Append(Append(s, turn), answer) \in Seq(Messages)
         /\ Sound(Append(Append(s, turn), answer))
<1> DEFINE u == Append(s, turn)
           t == Append(u, answer)
           n == Len(s)
<1>1. /\ u \in Seq(Messages) /\ Len(u) = n + 1 /\ DOMAIN u = 1..(n + 1)
      /\ \A i \in DOMAIN s : u[i] = s[i]
      /\ u[n + 1] = turn /\ DOMAIN s = 1..n /\ n \in Nat
  BY AppendFacts
<1> HIDE DEF u
<1>2. /\ t \in Seq(Messages) /\ Len(t) = n + 2 /\ DOMAIN t = 1..(n + 2)
      /\ \A i \in DOMAIN u : t[i] = u[i]
      /\ t[n + 2] = answer
  <2>1. /\ t \in Seq(Messages) /\ Len(t) = Len(u) + 1 /\ DOMAIN t = 1..(Len(u) + 1)
        /\ \A i \in DOMAIN u : t[i] = u[i]
        /\ t[Len(u) + 1] = answer
    BY <1>1, AppendFacts
  <2> QED
    BY <1>1, <2>1
<1> HIDE DEF t, n
<1>3. /\ \A i \in 1..n : t[i] = s[i]
      /\ t[n + 1] = turn /\ t[n + 2] = answer
  BY <1>1, <1>2
<1>4. /\ ChatAccepts(turn) /\ ClaudeAccepts(turn)
      /\ ChatAccepts(answer) /\ ClaudeAccepts(answer)
  BY DEF ChatAccepts, ClaudeAccepts, Blank, Answers
<1>5. ASSUME NEW i \in DOMAIN t PROVE ChatAccepts(t[i]) /\ ClaudeAccepts(t[i])
  BY <1>1, <1>2, <1>3, <1>4, i \in 1..n \/ i = n + 1 \/ i = n + 2 DEF Sound
<1>6. ASSUME NEW i \in DOMAIN t
      PROVE  /\ t[i].calls # <<>> => i < Len(t) /\ Answers(t[i + 1], t[i].calls)
             /\ t[i].results # <<>> => i > 1 /\ Answers(t[i], t[i - 1].calls)
  <2>1. CASE i \in 1..n
    <3>1. t[i] = s[i]
      BY <1>3, <2>1
    <3>2. s[i].calls # <<>> => i < n /\ Answers(s[i + 1], s[i].calls)
      BY <1>1, <2>1 DEF Sound, Paired, n
    <3>3. s[i].results # <<>> => i > 1 /\ Answers(s[i], s[i - 1].calls)
      BY <1>1, <2>1 DEF Sound, Paired
    <3>4. (i < n => t[i + 1] = s[i + 1]) /\ (i > 1 => t[i - 1] = s[i - 1])
      BY <1>1, <1>3, <2>1
    <3> QED
      BY <1>1, <1>2, <2>1, <3>1, <3>2, <3>3, <3>4
  <2>2. CASE i = n + 1
    <3>1. t[i] = turn /\ t[i + 1] = answer /\ i < Len(t)
      BY <1>1, <1>2, <1>3, <2>2
    <3> QED
      BY <3>1
  <2>3. CASE i = n + 2
    <3>1. t[i] = answer /\ t[i - 1] = turn /\ i > 1
      BY <1>1, <1>2, <1>3, <2>3
    <3>2. answer.calls = <<>>
      BY DEF Answers
    <3> QED
      BY <3>1, <3>2
  <2> QED
    BY <1>1, <1>2, <2>1, <2>2, <2>3
<1> QED
  BY <1>2, <1>5, <1>6 DEF Sound, Paired, t, u

LEMMA ExtendsAppend ==
  ASSUME NEW S, NEW s \in Seq(S), NEW t \in Seq(S), NEW e \in S, Extends(t, s)
  PROVE  Extends(Append(t, e), s)
  BY AppendFacts DEF Extends

(* A sequence without its last element, and with it again.                 *)
LEMMA PrefixOf ==
  ASSUME NEW S, NEW t \in Seq(S), NEW n \in Nat, n <= Len(t)
  PROVE  /\ SubSeq(t, 1, n) \in Seq(S)
         /\ Len(SubSeq(t, 1, n)) = n
         /\ \A i \in 1..n : SubSeq(t, 1, n)[i] = t[i]
<1>1. \A i \in 1..n : t[i] \in S
  OBVIOUS
<1>2. /\ SubSeq(t, 1, n) \in Seq(S)
      /\ Len(SubSeq(t, 1, n)) = (IF 1 <= n THEN n - 1 + 1 ELSE 0)
      /\ \A i \in 1..(n - 1 + 1) : SubSeq(t, 1, n)[i] = t[1 + i - 1]
  BY <1>1, SubSeqProperties
<1> QED
  BY <1>2

LEMMA FrontOf ==
  ASSUME NEW S, NEW s \in Seq(S), NEW e \in S
  PROVE  SubSeq(Append(s, e), 1, Len(s)) = s
<1>1. /\ Append(s, e) \in Seq(S) /\ Len(Append(s, e)) = Len(s) + 1
      /\ \A i \in 1..Len(s) : Append(s, e)[i] = s[i]
      /\ Len(s) \in Nat
  BY AppendFacts
<1> DEFINE f == SubSeq(Append(s, e), 1, Len(s))
<1>2. f \in Seq(S) /\ Len(f) = Len(s) /\ \A i \in 1..Len(s) : f[i] = Append(s, e)[i]
  BY <1>1, PrefixOf
<1> HIDE DEF f
<1>3. \A i \in 1..Len(f) : f[i] = s[i]
  BY <1>1, <1>2
<1>4. f = s
  BY <1>2, <1>3, SeqEqual
<1> QED
  BY <1>4 DEF f

LEMMA AppendBack ==
  ASSUME NEW S, NEW t \in Seq(S), Len(t) > 0
  PROVE  /\ SubSeq(t, 1, Len(t) - 1) \in Seq(S)
         /\ Append(SubSeq(t, 1, Len(t) - 1), t[Len(t)]) = t
<1> DEFINE f == SubSeq(t, 1, Len(t) - 1)
           u == Append(f, t[Len(t)])
<1>1. Len(t) - 1 \in Nat /\ t[Len(t)] \in S
  OBVIOUS
<1>2. f \in Seq(S) /\ Len(f) = Len(t) - 1 /\ \A i \in 1..(Len(t) - 1) : f[i] = t[i]
  BY <1>1, PrefixOf, Len(t) - 1 <= Len(t)
<1> HIDE DEF f
<1>3. u \in Seq(S) /\ Len(u) = Len(t) /\ \A i \in 1..Len(u) : u[i] = t[i]
  BY <1>1, <1>2
<1>4. u = t
  BY <1>3, SeqEqual
<1> QED
  BY <1>2, <1>4 DEF f

(* The form in which NothingIsRewritten states the same.                   *)
LEMMA ExtendsIsPrefix ==
  ASSUME NEW S, NEW s \in Seq(S), NEW t \in Seq(S), Extends(t, s)
  PROVE  Len(s) <= Len(t) /\ s = SubSeq(t, 1, Len(s))
<1> DEFINE f == SubSeq(t, 1, Len(s))
<1>1. f \in Seq(S) /\ Len(f) = Len(s) /\ \A i \in 1..Len(s) : f[i] = t[i]
  BY PrefixOf DEF Extends
<1> HIDE DEF f
<1>2. \A i \in 1..Len(s) : s[i] = f[i]
  BY <1>1 DEF Extends
<1>3. s = f
  BY <1>1, <1>2, SeqEqual
<1> QED
  BY <1>3 DEF f, Extends

---------------------------------------------------------------------------
(* The inductive invariant.                                                *)

Handling == pc \in {"request", "vet", "execute"}

(* The history up to the last round that is complete.                      *)
Settled == IF calls = <<>> THEN history ELSE SubSeq(history, 1, Len(history) - 1)

(* While calls are handled, the history ends with the turn asking for them *)
(* and the blocks answer the first of them.                                *)
InRound ==
  /\ calls # <<>> /\ Len(blocks) < Len(calls) /\ iteration > 0
  /\ Len(history) > 0
  /\ history[Len(history)].role = "assistant"
  /\ history[Len(history)].calls = calls
  /\ history[Len(history)].results = <<>>
  /\ \A i \in DOMAIN blocks : blocks[i].id = calls[i].id

Inv ==
  /\ TypeOK
  /\ Sound(conversation)
  /\ pc = "ask" => calls = <<>> /\ blocks = <<>>
  /\ Handling => InRound
  /\ pc # "idle" => Sound(Settled) /\ Extends(Settled, conversation)
  /\ pc = "execute" => Current.name \in offered
  /\ OnlyOfferedToolsRun

LEMMA SettledType ==
  ASSUME Inv
  PROVE  /\ pc # "idle" => Settled \in Seq(Messages)
         /\ pc # "idle" /\ ~Handling => Settled = history
         /\ Handling => Append(Settled, history[Len(history)]) = history
<1>1. history \in Seq(Messages)
  BY DEF Inv, TypeOK
<1>2. CASE Handling
  <2>1. calls # <<>> /\ Len(history) > 0
    BY <1>2 DEF Inv, InRound
  <2> QED
    BY <1>1, <1>2, <2>1, AppendBack DEF Settled
<1>3. CASE ~Handling /\ pc # "idle"
  <2>1. calls = <<>>
    BY <1>3 DEF Inv, TypeOK, Handling
  <2> QED
    BY <1>1, <1>3, <2>1 DEF Settled
<1> QED
  BY <1>2, <1>3

LEMMA InitInv == Init => Inv
<1> SUFFICES ASSUME Init PROVE Inv
  OBVIOUS
<1>1. TypeOK
  BY IterationsAssumption DEF Init, TypeOK, Outcomes
<1>2. Sound(conversation) /\ OnlyOfferedToolsRun
  BY DEF Init, Sound, Paired, OnlyOfferedToolsRun
<1> QED
  BY <1>1, <1>2 DEF Init, Inv, Handling

(* What a consumer passes to run() is as sound as what it held.            *)
LEMMA PromptsAreSound ==
  ASSUME NEW held \in Seq(Messages), Sound(held),
         NEW messages \in {held, Append(held, UserMessage)}
  PROVE  messages \in Seq(Messages) /\ Sound(messages) /\ Extends(messages, held)
<1>1. Plain(UserMessage)
  BY DEF Plain, UserMessage, Messages
<1>2. Append(held, UserMessage) \in Seq(Messages) /\ Sound(Append(held, UserMessage))
  BY <1>1, SoundPlain
<1>3. Extends(held, held)
  BY DEF Extends
<1>4. Extends(Append(held, UserMessage), held)
  BY <1>1, <1>3, ExtendsAppend DEF Plain
<1> QED
  BY <1>2, <1>3, <1>4

LEMMA RunStep ==
  ASSUME Inv, NEW ids \in SUBSET ToolIds, NEW registered, NEW capable,
         NEW messages \in Prompts, Run(ids, registered, capable, messages)
  PROVE  Inv' /\ Extends(conversation', conversation)
<1>1. messages \in {conversation, Append(conversation, UserMessage)}
  BY DEF Prompts
<1>2. conversation \in Seq(Messages) /\ Sound(conversation)
  BY DEF Inv, TypeOK
<1>3. messages \in Seq(Messages) /\ Sound(messages) /\ Extends(messages, conversation)
  BY <1>1, <1>2, PromptsAreSound
<1>4. conversation' = messages /\ runs' = runs + 1 /\ pc = "idle"
  BY DEF Run
<1>5. CASE outcome' = "refused" /\ UNCHANGED <<pc, loop>>
  <2>1. TypeOK'
    BY <1>3, <1>4, <1>5 DEF Inv, TypeOK, Outcomes, loop
  <2> QED
    BY <1>3, <1>4, <1>5, <2>1 DEF Inv, Handling, loop, OnlyOfferedToolsRun
<1>6. CASE /\ pc' = "ask" /\ offered' = ids /\ iteration' = 0 /\ history' = messages
           /\ calls' = <<>> /\ blocks' = <<>> /\ records' = <<>> /\ trace' = <<>>
           /\ outcome' = "none"
  <2>1. TypeOK'
    BY <1>3, <1>4, <1>6, IterationsAssumption DEF Inv, TypeOK, Outcomes
  <2>2. Settled' = messages
    BY <1>6 DEF Settled
  <2>3. Sound(Settled)' /\ Extends(Settled, conversation)'
    BY <1>3, <1>4, <2>2 DEF Extends
  <2>4. OnlyOfferedToolsRun'
    BY <1>6 DEF OnlyOfferedToolsRun
  <2> QED
    BY <1>3, <1>4, <1>6, <2>1, <2>3, <2>4 DEF Inv, Handling
<1> QED
  BY <1>5, <1>6 DEF Run

(* The turn a reply appends.                                               *)
LEMMA ReplyStep ==
  ASSUME Inv, NEW text \in BOOLEAN, NEW batch \in Batches \cup {<<>>},
         Reply(text, batch)
  PROVE  Inv' /\ Extends(conversation', conversation)
<1> DEFINE turn == AssistantMessage(text, batch)
<1>1. /\ pc = "ask" /\ iteration < MaxIterations /\ iteration' = iteration + 1
      /\ history' = Append(history, turn)
      /\ text \/ batch # <<>>
      /\ UNCHANGED <<runs, offered, blocks, records, trace>>
  BY DEF Reply, BudgetLeft, Usable, Turn
<1>2. /\ TypeOK /\ calls = <<>> /\ blocks = <<>> /\ OnlyOfferedToolsRun
      /\ Sound(conversation) /\ Sound(history) /\ Extends(history, conversation)
  BY <1>1 DEF Inv, Settled
<1>3. /\ batch \in Seq(Calls) /\ turn \in Messages
      /\ turn.role = "assistant" /\ turn.text = text /\ turn.calls = batch
      /\ turn.results = <<>>
  <2>1. <<>> \in Seq(Calls) /\ <<>> \in Seq(Results)
    BY EmptySeq
  <2>2. batch \in Seq(Calls)
    BY <2>1, BatchesAssumption
  <2> QED
    BY <2>1, <2>2 DEF AssistantMessage, Messages
<1> HIDE DEF turn
<1>4. history' \in Seq(Messages) /\ iteration' \in 0..MaxIterations
  BY <1>1, <1>2, <1>3, IterationsAssumption DEF TypeOK
<1>5. CASE batch = <<>>
  <2>1. /\ outcome' = "answered" /\ conversation' = history' /\ pc' = "idle"
        /\ calls' = calls
    BY <1>5 DEF Reply, Return, Returned
  <2>2. Plain(turn)
    BY <1>1, <1>3, <1>5 DEF Plain
  <2>3. Sound(history')
    BY <1>1, <1>2, <2>2, SoundPlain DEF TypeOK
  <2>4. Extends(history', conversation)
    BY <1>1, <1>2, <1>3, ExtendsAppend DEF TypeOK
  <2>5. TypeOK'
    BY <1>1, <1>2, <1>4, <2>1 DEF TypeOK, Outcomes
  <2> QED
    BY <1>1, <1>2, <2>1, <2>3, <2>4, <2>5 DEF Inv, Handling, OnlyOfferedToolsRun
<1>6. CASE batch # <<>>
  <2>1. calls' = batch /\ pc' = "request" /\ UNCHANGED <<outcome, conversation>>
    BY <1>6 DEF Reply
  <2>2. TypeOK'
    BY <1>1, <1>2, <1>3, <1>4, <2>1 DEF TypeOK
  <2>3. Settled' = history
    <3>1. SubSeq(Append(history, turn), 1, Len(history)) = history
      BY <1>2, <1>3, FrontOf DEF TypeOK
    <3>2. Len(history') - 1 = Len(history)
      BY <1>1, <1>2, <1>3 DEF TypeOK
    <3> QED
      BY <1>1, <1>6, <2>1, <3>1, <3>2 DEF Settled
  <2>4. InRound'
    <3>1. Len(history') = Len(history) + 1 /\ history'[Len(history')] = turn
      BY <1>1, <1>2, <1>3 DEF TypeOK
    <3>2. Len(blocks') = 0 /\ Len(calls') > 0
      BY <1>1, <1>2, <1>3, <1>6, <2>1
    <3>3. iteration' > 0 /\ Len(history') > 0
      BY <1>1, <1>2, <3>1 DEF TypeOK
    <3> QED
      BY <1>1, <1>2, <1>3, <1>6, <2>1, <3>1, <3>2, <3>3 DEF InRound
  <2>5. Extends(conversation, conversation)
    BY DEF Extends
  <2> QED
    BY <1>1, <1>2, <2>1, <2>2, <2>3, <2>4, <2>5
       DEF Inv, Handling, OnlyOfferedToolsRun, Extends
<1> QED
  BY <1>5, <1>6

(* Steps that end a run without an answer.                                 *)
LEMMA EndingStep ==
  ASSUME Inv, pc # "idle", pc' = "idle", outcome' \in Outcomes,
         iteration' \in 0..MaxIterations,
         conversation' = conversation \/ (~Handling /\ conversation' = history),
         UNCHANGED <<runs, offered, history, calls, blocks, records, trace>>
  PROVE  Inv' /\ Extends(conversation', conversation)
<1>1. TypeOK /\ Sound(conversation) /\ OnlyOfferedToolsRun
  BY DEF Inv
<1>2. ~Handling => Sound(history) /\ Extends(history, conversation)
  BY SettledType DEF Inv
<1>3. Extends(conversation, conversation)
  BY DEF Extends
<1>4. Sound(conversation') /\ Extends(conversation', conversation)
  BY <1>1, <1>2, <1>3
<1>5. TypeOK'
  BY <1>1 DEF TypeOK
<1> QED
  BY <1>1, <1>4, <1>5 DEF Inv, Handling, OnlyOfferedToolsRun

(* Steps within the handling of one call.                                  *)
LEMMA CallStep ==
  ASSUME Inv, Request \/ Approve
  PROVE  Inv' /\ Extends(conversation', conversation)
<1> USE DEF Request, Approve, loop
<1>1. TypeOK /\ Handling /\ Handling' /\ InRound /\ pc # "idle"
  BY DEF Inv, Handling
<1>2. UNCHANGED <<conversation, runs, offered, iteration, history, calls, blocks,
                  records, outcome>>
  OBVIOUS
<1>3. Current \in Calls
  <2>1. Len(blocks) + 1 \in DOMAIN calls
    BY <1>1 DEF TypeOK, InRound
  <2> QED
    BY <1>1, <2>1 DEF TypeOK, Current
<1>4. trace' \in Seq(Events)
  <2>1. Event("requested", Current) \in Events
    BY <1>3 DEF Event, Events
  <2>2. trace \in Seq(Events)
    BY <1>1 DEF TypeOK
  <2>3. trace' = Append(trace, Event("requested", Current)) \/ trace' = trace
    OBVIOUS
  <2> QED
    BY <2>1, <2>2, <2>3, AppendFacts
<1>5. TypeOK'
  BY <1>1, <1>2, <1>4 DEF TypeOK
<1>6. InRound' /\ Settled' = Settled /\ Current' = Current
  BY <1>1, <1>2 DEF InRound, Settled, Current
<1>7. pc' = "execute" => Current.name \in offered
  BY DEF MayRun
<1>8. Extends(conversation', conversation)
  BY <1>2 DEF Extends
<1> HIDE DEF Request, Approve
<1> QED
  BY <1>1, <1>2, <1>5, <1>6, <1>7, <1>8 DEF Inv, OnlyOfferedToolsRun, Extends, Handling

(* What _handle and _reject do behind the decision: either the round goes  *)
(* on, or its answers join the history as one message.                     *)
LEMMA SettleEffect ==
  ASSUME Inv, Handling, NEW executed \in BOOLEAN, NEW success \in BOOLEAN,
         Settle(executed, success)
  PROVE  /\ Current \in Calls
         /\ records' = Append(records,
              [call |-> Current, executed |-> executed, success |-> success])
         /\ trace' = Append(trace, Event(Verdict(executed), Current))
         /\ \/ /\ pc' = "request" /\ UNCHANGED <<history, calls>>
               /\ blocks' \in Seq(Results) /\ Len(blocks') < Len(calls)
               /\ \A i \in DOMAIN blocks' : blocks'[i].id = calls[i].id
            \/ /\ pc' = "ask" /\ calls' = <<>> /\ blocks' = <<>>
               /\ \E answer \in Messages :
                    /\ history' = Append(history, answer)
                    /\ Answers(answer, calls) /\ answer.results # <<>>
<1> DEFINE answered == Append(blocks, Block(Current, success))
           answer == ToolResultsMessage(answered)
<1>1. /\ TypeOK /\ InRound /\ calls \in Seq(Calls) /\ blocks \in Seq(Results)
      /\ Len(blocks) < Len(calls)
  BY DEF Inv, TypeOK, InRound
<1>2. Current \in Calls
  <2>1. Len(blocks) + 1 \in DOMAIN calls
    BY <1>1
  <2> QED
    BY <1>1, <2>1 DEF Current
<1>3. Block(Current, success) \in Results /\ Block(Current, success).id = Current.id
  BY <1>2 DEF Block, Results, Calls
<1>4. /\ answered \in Seq(Results) /\ Len(answered) = Len(blocks) + 1
      /\ \A i \in DOMAIN answered : answered[i].id = calls[i].id
  <2>1. /\ answered \in Seq(Results) /\ Len(answered) = Len(blocks) + 1
        /\ DOMAIN answered = 1..(Len(blocks) + 1)
        /\ \A i \in DOMAIN blocks : answered[i] = blocks[i]
        /\ answered[Len(blocks) + 1] = Block(Current, success)
    BY <1>1, <1>3, AppendFacts
  <2>2. ASSUME NEW i \in DOMAIN answered PROVE answered[i].id = calls[i].id
    BY <1>1, <1>3, <2>1, <2>2, i \in DOMAIN blocks \/ i = Len(blocks) + 1
       DEF InRound, Current
  <2> QED
    BY <2>1, <2>2
<1>5. /\ records' = Append(records,
           [call |-> Current, executed |-> executed, success |-> success])
      /\ trace' = Append(trace, Event(Verdict(executed), Current))
  BY DEF Settle
<1>6. CASE Len(answered) = Len(calls)
  <2>1. pc' = "ask" /\ calls' = <<>> /\ blocks' = <<>> /\ history' = Append(history, answer)
    BY <1>6 DEF Settle
  <2>2. answer \in Messages /\ answer.results = answered
    <3>1. <<>> \in Seq(Calls)
      BY EmptySeq
    <3> QED
      BY <1>4, <3>1 DEF ToolResultsMessage, Messages
  <2>3. answer.role = "user" /\ ~answer.text /\ answer.calls = <<>>
    BY DEF ToolResultsMessage
  <2> HIDE DEF answer, answered
  <2>4. DOMAIN calls = DOMAIN answered /\ answered # <<>>
    BY <1>1, <1>4, <1>6
  <2>5. Answers(answer, calls)
    BY <1>4, <1>6, <2>2, <2>3, <2>4 DEF Answers
  <2> QED
    BY <1>2, <1>5, <2>1, <2>2, <2>4, <2>5
<1>7. CASE Len(answered) # Len(calls)
  <2>1. pc' = "request" /\ blocks' = answered /\ UNCHANGED <<history, calls>>
    BY <1>7 DEF Settle
  <2> HIDE DEF answered
  <2>2. Len(answered) < Len(calls)
    BY <1>1, <1>4, <1>7
  <2> QED
    BY <1>2, <1>4, <1>5, <2>1, <2>2
<1> QED
  BY <1>6, <1>7

LEMMA SettleStep ==
  ASSUME Inv, Handling, NEW executed \in BOOLEAN, NEW success \in BOOLEAN,
         executed => Current.name \in offered, Settle(executed, success),
         UNCHANGED <<conversation, runs, offered, iteration, outcome>>
  PROVE  Inv' /\ Extends(conversation', conversation)
<1> DEFINE record == [call |-> Current, executed |-> executed, success |-> success]
<1>1. /\ TypeOK /\ InRound /\ OnlyOfferedToolsRun /\ pc # "idle"
      /\ Sound(conversation) /\ Sound(Settled) /\ Extends(Settled, conversation)
      /\ Settled \in Seq(Messages) /\ Append(Settled, history[Len(history)]) = history
  BY SettledType DEF Inv, Handling
<1>2. /\ Current \in Calls /\ records' = Append(records, record)
      /\ trace' = Append(trace, Event(Verdict(executed), Current))
  BY SettleEffect
<1>3. records' \in Seq(Records) /\ OnlyOfferedToolsRun'
  <2>1. record \in Records /\ (record.executed => record.call.name \in offered)
    BY <1>2 DEF Records
  <2>2. records \in Seq(Records)
    BY <1>1 DEF TypeOK
  <2> HIDE DEF record
  <2>3. /\ records' \in Seq(Records) /\ DOMAIN records' = 1..(Len(records) + 1)
        /\ \A k \in DOMAIN records : records'[k] = records[k]
        /\ records'[Len(records) + 1] = record
    BY <1>2, <2>1, <2>2, AppendFacts
  <2>4. ASSUME NEW k \in DOMAIN records', records'[k].executed
        PROVE  records'[k].call.name \in offered'
    BY <1>1, <2>1, <2>2, <2>3, <2>4, k \in DOMAIN records \/ k = Len(records) + 1
       DEF OnlyOfferedToolsRun
  <2> QED
    BY <2>3, <2>4 DEF OnlyOfferedToolsRun
<1>4. trace' \in Seq(Events)
  <2>1. Event(Verdict(executed), Current) \in Events
    BY <1>2 DEF Event, Verdict, Events
  <2> QED
    BY <1>1, <1>2, <2>1, AppendFacts DEF TypeOK
<1>5. Extends(conversation', conversation)
  BY DEF Extends
<1>6. CASE /\ pc' = "request" /\ UNCHANGED <<history, calls>>
           /\ blocks' \in Seq(Results) /\ Len(blocks') < Len(calls)
           /\ \A i \in DOMAIN blocks' : blocks'[i].id = calls[i].id
  <2>1. TypeOK'
    BY <1>1, <1>3, <1>4, <1>6 DEF TypeOK
  <2>2. InRound' /\ Settled' = Settled
    BY <1>1, <1>6 DEF InRound, Settled
  <2> QED
    BY <1>1, <1>3, <1>5, <1>6, <2>1, <2>2 DEF Inv, Handling, Extends
<1>7. CASE /\ pc' = "ask" /\ calls' = <<>> /\ blocks' = <<>>
           /\ \E answer \in Messages :
                /\ history' = Append(history, answer)
                /\ Answers(answer, calls) /\ answer.results # <<>>
  <2> DEFINE turn == history[Len(history)]
  <2>1. PICK answer \in Messages :
          /\ history' = Append(history, answer)
          /\ Answers(answer, calls) /\ answer.results # <<>>
    BY <1>7
  <2>2. /\ turn \in Messages /\ turn.role = "assistant" /\ turn.calls = calls
        /\ turn.calls # <<>> /\ turn.results = <<>>
    BY <1>1 DEF InRound, TypeOK
  <2>3. history' = Append(Append(Settled, turn), answer)
    BY <1>1, <2>1
  <2> HIDE DEF turn
  <2>4. history' \in Seq(Messages) /\ Sound(history')
    BY <1>1, <2>1, <2>2, <2>3, SoundRound
  <2>5. Extends(history', conversation)
    <3>1. Append(Settled, turn) \in Seq(Messages) /\ conversation \in Seq(Messages)
      BY <1>1, <2>2 DEF TypeOK
    <3>2. Extends(Append(Settled, turn), conversation)
      BY <1>1, <2>2, <3>1, ExtendsAppend
    <3> QED
      BY <2>1, <2>3, <3>1, <3>2, ExtendsAppend
  <2>6. TypeOK'
    <3>1. calls' \in Seq(Calls) /\ blocks' \in Seq(Results)
      BY <1>7, EmptySeq
    <3> QED
      BY <1>1, <1>3, <1>4, <1>7, <2>4, <3>1 DEF TypeOK
  <2>7. Settled' = history'
    BY <1>7 DEF Settled
  <2> QED
    BY <1>1, <1>3, <1>5, <1>7, <2>4, <2>5, <2>6, <2>7 DEF Inv, Handling, Extends
<1> QED
  BY <1>6, <1>7, SettleEffect

LEMMA StepInv ==
  ASSUME Inv, [Next]_vars
  PROVE  Inv' /\ Extends(conversation', conversation)
<1> USE DEF Handling
<1>1. ASSUME NEW ids \in SUBSET ToolIds, NEW registered \in SUBSET ToolIds,
             NEW capable \in BOOLEAN, NEW messages \in Prompts,
             Run(ids, registered, capable, messages)
      PROVE  Inv' /\ Extends(conversation', conversation)
  BY <1>1, RunStep
<1>2. ASSUME NEW text \in BOOLEAN, NEW batch \in Batches \cup {<<>>}, Reply(text, batch)
      PROVE  Inv' /\ Extends(conversation', conversation)
  BY <1>2, ReplyStep
<1>3. iteration \in 0..MaxIterations /\ MaxIterations \in Nat /\ outcome \in Outcomes
  BY IterationsAssumption DEF Inv, TypeOK
<1>4. CASE ProviderFails
  <2>1. iteration' \in 0..MaxIterations
    BY <1>3, <1>4 DEF ProviderFails, BudgetLeft
  <2> QED
    BY <1>4, <2>1, EndingStep DEF ProviderFails, Return, Returned, Outcomes
<1>5. CASE ProviderRaises
  <2>1. iteration' \in 0..MaxIterations
    BY <1>3, <1>5 DEF ProviderRaises, BudgetLeft
  <2> QED
    BY <1>5, <2>1, EndingStep DEF ProviderRaises, Raise, Outcomes
<1>6. CASE Exhaust
  BY <1>3, <1>6, EndingStep DEF Exhaust, Return, Returned, Outcomes, loop
<1>7. CASE HookRaises \/ ToolRaises
  BY <1>3, <1>7, EndingStep DEF HookRaises, ToolRaises, Raise, Outcomes, loop
<1>8. CASE Request \/ Approve
  BY <1>8, CallStep
<1>9. CASE Reject
  BY <1>9, SettleStep DEF Reject
<1>10. ASSUME NEW success \in BOOLEAN, Execute(success)
       PROVE  Inv' /\ Extends(conversation', conversation)
  BY <1>10, SettleStep DEF Execute, Inv
<1>11. CASE UNCHANGED vars
  <2>1. UNCHANGED <<conversation, runs, pc, offered, iteration, history, calls, blocks,
                    records, trace, outcome>>
    BY <1>11 DEF vars, loop
  <2> QED
    BY <2>1 DEF Inv, TypeOK, InRound, Settled, Current, OnlyOfferedToolsRun, Extends
<1> QED
  BY <1>1, <1>2, <1>4, <1>5, <1>6, <1>7, <1>8, <1>9, <1>10, <1>11 DEF Next, Step

THEOREM InvAlways == Spec => []Inv
  BY InitInv, StepInv, PTL DEF Spec

(* Type correctness, for any tools, models and number of runs.             *)
THEOREM TypeCorrect == Spec => []TypeOK
<1>1. Inv => TypeOK
  BY DEF Inv
<1> QED
  BY <1>1, InvAlways, PTL

(* Every tool call in a history that is sent or handed back is answered    *)
(* once, in order, by the message behind it, however its calls fared.      *)
THEOREM AlwaysPaired == Spec => []HistoryIsPaired
<1>1. Inv => HistoryIsPaired
  BY SettledType DEF Inv, HistoryIsPaired, Sound, Handling
<1> QED
  BY <1>1, InvAlways, PTL

(* No provider's translation ever refuses a history the loop sends.        *)
THEOREM AlwaysAccepted == Spec => []ProvidersAcceptHistory
<1>1. Inv => ProvidersAcceptHistory
  BY SettledType DEF Inv, ProvidersAcceptHistory, AcceptsHistory, Sound, Handling
<1> QED
  BY <1>1, InvAlways, PTL

(* Only a tool offered in this run reaches the execution engine.           *)
THEOREM OnlyOffered == Spec => []OnlyOfferedToolsRun
<1>1. Inv => OnlyOfferedToolsRun
  BY DEF Inv
<1> QED
  BY <1>1, InvAlways, PTL

(* No run drops or rewrites a message the consumer holds.                  *)
THEOREM ConversationGrows == Spec => NothingIsRewritten
<1>1. ASSUME Inv, Inv', [Next]_vars
      PROVE  /\ Len(conversation) <= Len(conversation')
             /\ conversation = SubSeq(conversation', 1, Len(conversation))
  <2>1. Extends(conversation', conversation)
    BY <1>1, StepInv
  <2>2. conversation \in Seq(Messages) /\ conversation' \in Seq(Messages)
    BY <1>1 DEF Inv, TypeOK
  <2> QED
    BY <2>1, <2>2, ExtendsIsPrefix
<1> QED
  BY <1>1, InvAlways, PTL DEF NothingIsRewritten, Spec

---------------------------------------------------------------------------
(* What the events tell.  A call being handled has published its request,  *)
(* which is the last event.                                                *)

Told(t, r) ==
  \A k \in DOMAIN r :
    /\ t[2 * k - 1] = Event("requested", r[k].call)
    /\ t[2 * k] = Event(IF r[k].executed THEN "completed" ELSE "rejected", r[k].call)

TellInv ==
  /\ EventsTellRecords
  /\ pc \in {"vet", "execute"} => trace[Len(trace)] = Event("requested", Current)

LEMMA TellParts ==
  /\ EventsTellRecords <=>
       Len(trace) - 2 * Len(records) \in OpenRequests /\ Told(trace, records)
  /\ EventsTellRecords' <=>
       Len(trace') - 2 * Len(records') \in OpenRequests' /\ Told(trace', records')
  BY DEF EventsTellRecords, Told

LEMMA TellInit == Init => TellInv
  BY DEF Init, TellInv, EventsTellRecords, OpenRequests

(* A longer trace still tells the records there were.                      *)
LEMMA ToldAppend ==
  ASSUME NEW t \in Seq(Events), NEW r \in Seq(Records), NEW e \in Events,
         2 * Len(r) <= Len(t), Told(t, r)
  PROVE  Told(Append(t, e), r)
<1>1. DOMAIN t = 1..Len(t) /\ DOMAIN r = 1..Len(r) /\ Len(t) \in Nat /\ Len(r) \in Nat
  OBVIOUS
<1>2. \A i \in DOMAIN t : Append(t, e)[i] = t[i]
  BY AppendFacts
<1>3. ASSUME NEW k \in DOMAIN r
      PROVE  Append(t, e)[2 * k - 1] = t[2 * k - 1] /\ Append(t, e)[2 * k] = t[2 * k]
  <2>1. 2 * k - 1 \in DOMAIN t /\ 2 * k \in DOMAIN t
    BY <1>1
  <2> QED
    BY <1>2, <2>1
<1> QED
  BY <1>3 DEF Told

LEMMA TellRequest ==
  ASSUME Inv, TellInv, Request
  PROVE  TellInv'
<1> DEFINE e == Event("requested", Current)
<1>1. /\ pc = "request" /\ pc' = "vet" /\ trace' = Append(trace, e)
      /\ records' = records /\ Current' = Current
  BY DEF Request, Current
<1>2. trace \in Seq(Events) /\ records \in Seq(Records) /\ e \in Events
  <2>1. Current \in Calls
    <3>1. Len(blocks) + 1 \in DOMAIN calls /\ calls \in Seq(Calls)
      BY <1>1 DEF Inv, InRound, Handling, TypeOK
    <3> QED
      BY <3>1 DEF Current
  <2> QED
    BY <2>1 DEF Inv, TypeOK, Event, Events
<1> HIDE DEF e
<1>3. Len(trace) - 2 * Len(records) = 0 /\ Told(trace, records)
  BY <1>1, TellParts DEF TellInv, OpenRequests
<1>4. Len(trace) \in Nat /\ Len(records) \in Nat /\ Len(trace) = 2 * Len(records)
  BY <1>2, <1>3
<1>5. /\ Len(trace') = Len(trace) + 1 /\ trace'[Len(trace) + 1] = e
      /\ Told(trace', records')
  <2>1. Len(trace') = Len(trace) + 1 /\ trace'[Len(trace) + 1] = e
    BY <1>1, <1>2, AppendFacts
  <2>2. 2 * Len(records) <= Len(trace)
    BY <1>4
  <2>3. Told(Append(trace, e), records)
    BY <1>2, <1>3, <2>2, ToldAppend
  <2> QED
    BY <1>1, <2>1, <2>3
<1>6. Len(trace') - 2 * Len(records') \in OpenRequests'
  BY <1>1, <1>4, <1>5 DEF OpenRequests
<1> QED
  BY <1>1, <1>5, <1>6, TellParts DEF TellInv, e

LEMMA TellSettle ==
  ASSUME Inv, TellInv, pc \in {"vet", "execute"},
         NEW executed \in BOOLEAN, NEW success \in BOOLEAN, Settle(executed, success)
  PROVE  TellInv'
<1> DEFINE e == Event(Verdict(executed), Current)
           record == [call |-> Current, executed |-> executed, success |-> success]
           n == Len(records)
<1>1. /\ Current \in Calls /\ records' = Append(records, record)
      /\ trace' = Append(trace, e) /\ pc' \in {"request", "ask"}
  BY SettleEffect DEF Handling
<1>2. /\ trace \in Seq(Events) /\ records \in Seq(Records)
      /\ e \in Events /\ record \in Records
  BY <1>1 DEF Inv, TypeOK, Event, Events, Verdict, Records
<1>3. /\ record.call = Current
      /\ e = Event(IF record.executed THEN "completed" ELSE "rejected", Current)
  BY DEF Verdict
<1> HIDE DEF e, record
<1>4. /\ Len(trace) - 2 * n = 1 /\ Told(trace, records)
      /\ trace[Len(trace)] = Event("requested", Current)
  BY TellParts DEF TellInv, OpenRequests
<1>5. Len(trace) \in Nat /\ n \in Nat /\ Len(trace) = 2 * n + 1
  BY <1>2, <1>4
<1>6. /\ Len(trace') = 2 * n + 2 /\ trace'[2 * n + 1] = trace[2 * n + 1]
      /\ trace'[2 * n + 2] = e
  <2>1. 2 * n + 1 \in DOMAIN trace
    BY <1>2, <1>5
  <2>2. /\ Len(trace') = Len(trace) + 1 /\ trace'[Len(trace) + 1] = e
        /\ \A i \in DOMAIN trace : trace'[i] = trace[i]
    BY <1>1, <1>2, AppendFacts
  <2> QED
    BY <1>5, <2>1, <2>2
<1>7. /\ Len(records') = n + 1 /\ DOMAIN records' = 1..(n + 1)
      /\ \A k \in DOMAIN records : records'[k] = records[k]
      /\ records'[n + 1] = record /\ DOMAIN records = 1..n
  BY <1>1, <1>2, AppendFacts
<1>8. Told(trace', records)
  BY <1>1, <1>2, <1>4, <1>5, ToldAppend
<1>9. Told(trace', records')
  <2> SUFFICES ASSUME NEW k \in DOMAIN records'
               PROVE  /\ trace'[2 * k - 1] = Event("requested", records'[k].call)
                      /\ trace'[2 * k] =
                           Event(IF records'[k].executed THEN "completed" ELSE "rejected",
                                 records'[k].call)
    BY DEF Told
  <2>1. CASE k \in DOMAIN records
    BY <1>7, <1>8, <2>1 DEF Told
  <2>2. CASE k = n + 1
    <3>1. 2 * k - 1 = 2 * n + 1 /\ 2 * k = 2 * n + 2
      BY <1>5, <2>2
    <3>2. trace'[2 * k - 1] = Event("requested", Current) /\ trace'[2 * k] = e
      BY <1>4, <1>5, <1>6, <3>1
    <3>3. records'[k] = record
      BY <1>7, <2>2
    <3> QED
      BY <1>3, <3>2, <3>3
  <2> QED
    BY <1>5, <1>7, <2>1, <2>2
<1>10. Len(trace') - 2 * Len(records') \in OpenRequests'
  BY <1>1, <1>5, <1>6, <1>7 DEF OpenRequests
<1> QED
  BY <1>1, <1>9, <1>10, TellParts DEF TellInv

(* A step that publishes and records nothing, and at most leaves a call    *)
(* open when it raises.                                                    *)
LEMMA TellQuiet ==
  ASSUME TellInv, UNCHANGED <<trace, records, Current>>,
         \/ /\ pc = "ask" /\ pc' \in {"idle", "request"}
         \/ pc' = "idle" /\ outcome' = "raised"
         \/ pc = "idle" /\ pc' = "idle" /\ outcome' = "refused"
         \/ pc = "vet" /\ pc' = "execute"
         \/ UNCHANGED <<pc, outcome>>
  PROVE  TellInv'
<1>1. OpenRequests \subseteq OpenRequests'
  BY DEF OpenRequests
<1> QED
  BY <1>1, TellParts DEF TellInv, Told

LEMMA TellStep ==
  ASSUME Inv, TellInv, [Next]_vars
  PROVE  TellInv'
<1>1. ASSUME NEW ids, NEW registered, NEW capable, NEW messages,
             Run(ids, registered, capable, messages)
      PROVE  TellInv'
  <2>1. CASE outcome' = "refused" /\ UNCHANGED <<pc, loop>>
    <3>1. pc = "idle" /\ UNCHANGED <<trace, records, Current>>
      BY <1>1, <2>1 DEF Run, loop, Current
    <3> QED
      BY <2>1, <3>1, TellQuiet
  <2>2. CASE pc' = "ask" /\ records' = <<>> /\ trace' = <<>> /\ outcome' = "none"
    <3>1. Len(trace') - 2 * Len(records') = 0 /\ 0 \in OpenRequests'
      BY <2>2 DEF OpenRequests
    <3>2. Told(trace', records')
      BY <2>2 DEF Told
    <3> QED
      BY <2>2, <3>1, <3>2, TellParts DEF TellInv
  <2> QED
    BY <1>1, <2>1, <2>2 DEF Run
<1>2. ASSUME NEW text, NEW batch, Reply(text, batch)
      PROVE  TellInv'
  BY <1>2, TellParts DEF TellInv, Reply, Return, OpenRequests
<1>3. CASE ProviderFails \/ ProviderRaises \/ Exhaust
  <2>1. pc = "ask" /\ pc' = "idle" /\ UNCHANGED <<trace, records, Current>>
    BY <1>3 DEF ProviderFails, ProviderRaises, Exhaust, Return, Raise, loop, Current
  <2> QED
    BY <2>1, TellQuiet
<1>4. CASE HookRaises \/ ToolRaises
  <2>1. pc' = "idle" /\ outcome' = "raised" /\ UNCHANGED <<trace, records, Current>>
    BY <1>4 DEF HookRaises, ToolRaises, Raise, loop, Current
  <2> QED
    BY <2>1, TellQuiet
<1>5. CASE Approve
  <2>1. pc = "vet" /\ pc' = "execute" /\ UNCHANGED <<trace, records, Current>>
    BY <1>5 DEF Approve, loop, Current
  <2> QED
    BY <2>1, TellQuiet
<1>6. CASE Request
  BY <1>6, TellRequest
<1>7. CASE Reject
  BY <1>7, TellSettle DEF Reject
<1>8. ASSUME NEW success \in BOOLEAN, Execute(success)
      PROVE  TellInv'
  BY <1>8, TellSettle DEF Execute
<1>9. CASE UNCHANGED vars
  <2>1. UNCHANGED <<trace, records, Current, pc, outcome>>
    BY <1>9 DEF vars, loop, Current
  <2> QED
    BY <2>1, TellQuiet
<1> QED
  BY <1>1, <1>2, <1>3, <1>4, <1>5, <1>6, <1>7, <1>8, <1>9 DEF Next, Step

(* Two events tell of each record, in order, whatever calls are refused,   *)
(* fail or raise; only a call whose handling raised stays open.            *)
THEOREM EventsTellTheirRecords == Spec => []EventsTellRecords
<1>1. TellInv => EventsTellRecords
  BY DEF TellInv
<1> QED
  BY <1>1, TellInit, TellStep, InvAlways, PTL DEF Spec

---------------------------------------------------------------------------
(* The loop implements ToolConversation.                                   *)

Rounds == IF Handling THEN iteration - 1 ELSE iteration

LEMMA StaticsMapped ==
  /\ Conversation!UserMessage = UserMessage
  /\ \A t, b : Conversation!AssistantMessage(t, b) = AssistantMessage(t, b)
  /\ \A m, b : Conversation!Answers(m, b) <=> Answers(m, b)
  BY DEF Conversation!UserMessage, UserMessage, Conversation!AssistantMessage,
         AssistantMessage, Conversation!Answers, Answers

(* ToolConversation's actions, on the states they are mapped to.           *)
LEMMA StepsMapped ==
  /\ pc = "idle" /\ pc' # "idle" /\ Rounds' = 0 /\ conversation' = Settled'
     /\ Settled' \in {conversation, Append(conversation, UserMessage)}
       => Conversation!Open
  /\ pc = "idle" /\ pc' = "idle" /\ UNCHANGED <<Settled, Rounds>>
     /\ conversation' \in {conversation, Append(conversation, UserMessage)}
       => Conversation!Decline
  /\ pc # "idle" /\ pc' = "idle" /\ conversation' = Settled'
     /\ Rounds' \in {Rounds, Rounds + 1}
     /\ \/ Settled' = Settled
        \/ /\ Rounds < MaxIterations
           /\ Settled' = Append(Settled, AssistantMessage(TRUE, <<>>))
       => \E answered \in BOOLEAN : Conversation!Close(answered)
  /\ pc # "idle" /\ pc' = "idle" /\ UNCHANGED <<Settled, conversation>>
     /\ Rounds' \in {Rounds, Rounds + 1}
       => Conversation!Escape
  /\ UNCHANGED <<Settled, Rounds, conversation>> /\ (pc = "idle") = (pc' = "idle")
       => UNCHANGED Conversation!convVars
<1> USE StaticsMapped DEF Settled, Rounds, Handling
<1>1. pc # "idle" /\ pc' = "idle" /\ conversation' = Settled'
      /\ Rounds' \in {Rounds, Rounds + 1} /\ Settled' = Settled
        => Conversation!Close(FALSE)
  BY DEF Conversation!Close
<1>2. pc # "idle" /\ pc' = "idle" /\ conversation' = Settled'
      /\ Rounds' \in {Rounds, Rounds + 1} /\ Rounds < MaxIterations
      /\ Settled' = Append(Settled, AssistantMessage(TRUE, <<>>))
        => Conversation!Close(TRUE)
  BY DEF Conversation!Close
<1> QED
  BY <1>1, <1>2 DEF Conversation!Open, Conversation!Decline, Conversation!Escape,
     Conversation!convVars

LEMMA RoundMapped ==
  ASSUME Inv, Handling, NEW executed \in BOOLEAN, NEW success \in BOOLEAN,
         Settle(executed, success), UNCHANGED <<conversation, iteration>>
  PROVE  Conversation!Round \/ UNCHANGED Conversation!convVars
<1>1. /\ InRound /\ pc # "idle" /\ Settled \in Seq(Messages)
      /\ Append(Settled, history[Len(history)]) = history
      /\ iteration \in 0..MaxIterations /\ MaxIterations \in Nat
      /\ history[Len(history)] \in Messages
  BY SettledType, IterationsAssumption DEF Inv, Handling, TypeOK, InRound
<1>2. CASE pc' = "request" /\ UNCHANGED <<history, calls>>
  BY <1>1, <1>2, StepsMapped DEF Settled, Rounds, Handling
<1>3. ASSUME pc' = "ask", calls' = <<>>,
             NEW answer \in Messages, history' = Append(history, answer),
             Answers(answer, calls)
      PROVE  Conversation!Round
  <2> DEFINE turn == history[Len(history)]
             n == Len(Settled)
  <2>1. Settled' = Append(Append(Settled, turn), answer)
    BY <1>1, <1>3 DEF Settled
  <2>2. /\ turn \in Messages /\ turn.role = "assistant" /\ turn.calls # <<>>
        /\ turn.results = <<>> /\ Answers(answer, turn.calls)
    BY <1>1, <1>3 DEF InRound
  <2> HIDE DEF turn
  <2>3. /\ n \in Nat /\ Len(Settled') = n + 2
        /\ Settled'[n + 1] = turn /\ Settled'[n + 2] = answer
    BY <1>1, <2>1, <2>2
  <2>4. Rounds < MaxIterations /\ Rounds' = Rounds + 1 /\ pc' # "idle"
    BY <1>1, <1>3 DEF Rounds, Handling, InRound
  <2> QED
    BY <1>1, <2>1, <2>2, <2>3, <2>4, StaticsMapped
       DEF Conversation!Round, Settled, Rounds, Handling
<1> QED
  BY <1>2, <1>3, SettleEffect

LEMMA NextMapped ==
  ASSUME Inv, [Next]_vars
  PROVE  [Conversation!ConvNext]_(Conversation!convVars)
<1> USE DEF Conversation!ConvNext
<1>0. /\ pc = "ask" => Settled = history /\ ~Handling /\ calls = <<>>
      /\ iteration \in 0..MaxIterations /\ MaxIterations \in Nat
      /\ history \in Seq(Messages)
  BY IterationsAssumption DEF Inv, TypeOK, Settled, Handling
<1>1. ASSUME NEW ids \in SUBSET ToolIds, NEW registered \in SUBSET ToolIds,
             NEW capable \in BOOLEAN, NEW messages \in Prompts,
             Run(ids, registered, capable, messages)
      PROVE  Conversation!Open \/ Conversation!Decline
  <2>1. /\ messages \in {conversation, Append(conversation, UserMessage)}
        /\ pc = "idle" /\ conversation' = messages
    BY <1>1 DEF Prompts, Run
  <2>2. CASE UNCHANGED <<pc, loop>>
    BY <2>1, <2>2, StepsMapped DEF Settled, Rounds, Handling, loop
  <2>3. CASE pc' = "ask" /\ iteration' = 0 /\ history' = messages /\ calls' = <<>>
    BY <2>1, <2>3, StepsMapped DEF Settled, Rounds, Handling
  <2> QED
    BY <1>1, <2>2, <2>3 DEF Run
<1>2. ASSUME NEW text \in BOOLEAN, NEW batch \in Batches \cup {<<>>}, Reply(text, batch)
      PROVE  (\E answered \in BOOLEAN : Conversation!Close(answered))
             \/ UNCHANGED Conversation!convVars
  <2>1. /\ pc = "ask" /\ iteration < MaxIterations /\ iteration' = iteration + 1
        /\ history' = Append(history, AssistantMessage(text, batch))
        /\ text \/ batch # <<>>
    BY <1>2 DEF Reply, BudgetLeft, Usable, Turn
  <2>2. CASE batch = <<>>
    <3>1. pc' = "idle" /\ conversation' = history' /\ calls' = <<>> /\ text = TRUE
      BY <1>0, <1>2, <2>1, <2>2 DEF Reply, Return, Returned
    <3>2. Settled' = Append(Settled, AssistantMessage(TRUE, <<>>)) /\ Settled' = history'
      BY <1>0, <2>1, <2>2, <3>1 DEF Settled
    <3>3. Rounds = iteration /\ Rounds' = iteration + 1
      BY <1>0, <2>1, <3>1 DEF Rounds, Handling
    <3> QED
      BY <2>1, <3>1, <3>2, <3>3, StepsMapped
  <2>3. CASE batch # <<>>
    <3>1. pc' = "request" /\ calls' = batch /\ UNCHANGED conversation
      BY <1>2, <2>3 DEF Reply
    <3>2. AssistantMessage(text, batch) \in Messages
      <4>1. <<>> \in Seq(Results)
        BY EmptySeq
      <4> QED
        BY <2>3, <4>1, BatchesAssumption DEF AssistantMessage, Messages
    <3>3. Settled' = history
      <4>1. /\ SubSeq(history', 1, Len(history)) = history
            /\ Len(history') = Len(history) + 1
        BY <1>0, <2>1, <3>2, FrontOf, AppendFacts
      <4>2. Len(history') - 1 = Len(history)
        BY <1>0, <4>1
      <4> QED
        BY <2>3, <3>1, <4>1, <4>2 DEF Settled
    <3>4. Rounds = iteration /\ Rounds' = iteration
      BY <1>0, <2>1, <3>1 DEF Rounds, Handling
    <3> QED
      BY <1>0, <2>1, <3>1, <3>3, <3>4, StepsMapped
  <2> QED
    BY <2>2, <2>3
<1>3. CASE ProviderFails \/ Exhaust
  <2>1. pc = "ask" /\ pc' = "idle" /\ conversation' = history /\ UNCHANGED <<history, calls>>
    BY <1>3 DEF ProviderFails, Exhaust, Return, Returned, loop
  <2>2. iteration' \in {iteration, iteration + 1}
    BY <1>3 DEF ProviderFails, Exhaust, loop
  <2>3. Settled' = Settled /\ Rounds' \in {Rounds, Rounds + 1} /\ Settled = history
    BY <1>0, <2>1, <2>2 DEF Settled, Rounds, Handling
  <2> QED
    BY <2>1, <2>3, StepsMapped
<1>4. CASE ProviderRaises \/ HookRaises \/ ToolRaises
  <2>1. pc # "idle" /\ pc' = "idle" /\ UNCHANGED <<history, calls, conversation>>
    BY <1>4 DEF ProviderRaises, HookRaises, ToolRaises, Raise, loop
  <2>2. Rounds' \in {Rounds, Rounds + 1}
    BY <1>0, <1>4 DEF ProviderRaises, HookRaises, ToolRaises, Raise, loop, Rounds, Handling
  <2>3. Settled' = Settled
    BY <2>1 DEF Settled
  <2> QED
    BY <2>1, <2>2, <2>3, StepsMapped
<1>5. CASE Request \/ Approve
  <2>1. /\ UNCHANGED <<history, calls, iteration, conversation>>
        /\ Handling /\ Handling' /\ pc # "idle" /\ pc' # "idle"
    BY <1>5 DEF Request, Approve, loop, Handling
  <2>2. UNCHANGED <<Settled, Rounds>>
    BY <2>1 DEF Settled, Rounds
  <2> QED
    BY <2>1, <2>2, StepsMapped
<1>6. CASE Reject
  BY <1>6, RoundMapped DEF Reject, Handling
<1>7. ASSUME NEW success \in BOOLEAN, Execute(success)
      PROVE  Conversation!Round \/ UNCHANGED Conversation!convVars
  BY <1>7, RoundMapped DEF Execute, Handling
<1>8. CASE UNCHANGED vars
  BY <1>8, StepsMapped DEF vars, loop, Settled, Rounds, Handling
<1> QED
  BY <1>1, <1>2, <1>3, <1>4, <1>5, <1>6, <1>7, <1>8 DEF Next, Step

(* Handling the calls of a round one by one, with refusals, failures and   *)
(* exceptions in between, is nothing but whole rounds to the consumer.     *)
THEOREM LoopImplementsConversation == Spec => RefinesConversation
<1>1. Init => Conversation!ConvInit
  BY DEF Init, Conversation!ConvInit
<1> QED
  BY <1>1, NextMapped, InvAlways, PTL DEF Spec, RefinesConversation, Conversation!ConvSpec
---------------------------------------------------------------------------
(* FlattenSeq.  Facts about it for every length are had from the least     *)
(* length at which they would fail.                                        *)

LEMMA LeastNatural ==
  ASSUME NEW T, T \subseteq Nat, T # {}
  PROVE  \E x \in T : \A y \in T : x <= y
<1>1. \E x \in T : \A y \in T : <<y, x>> \notin OpToRel(<, Nat)
  BY NatLessThanWellFounded, WFMin
<1>2. \A x, y \in Nat : <<y, x>> \notin OpToRel(<, Nat) => x <= y
  BY DEF OpToRel
<1> QED
  BY <1>1, <1>2

(* f is the recursive function of FlattenSeq on the first n sequences.     *)
FlatTo(f, seqs, n) ==
  f = [i \in 1..n |-> IF i = 1 THEN seqs[i] ELSE f[i - 1] \o seqs[i]]

LEMMA FlatToAt ==
  ASSUME NEW f, NEW seqs, NEW n \in Nat, FlatTo(f, seqs, n), NEW i \in 1..n
  PROVE  f[i] = IF i = 1 THEN seqs[i] ELSE f[i - 1] \o seqs[i]
<1> DEFINE G(j) == IF j = 1 THEN seqs[j] ELSE f[j - 1] \o seqs[j]
<1>1. f = [j \in 1..n |-> G(j)]
  BY DEF FlatTo
<1> HIDE DEF G
<1>2. f[i] = G(i)
  BY <1>1
<1> QED
  BY <1>2 DEF G

(* One more sequence at the end.                                           *)
LEMMA FlatToNext ==
  ASSUME NEW n \in Nat, NEW seqs, NEW f, FlatTo(f, seqs, n)
  PROVE  FlatTo([i \in 1..(n + 1) |->
                   IF i <= n THEN f[i]
                   ELSE IF i = 1 THEN seqs[i] ELSE f[i - 1] \o seqs[i]],
                seqs, n + 1)
<1> DEFINE G(i) == IF i = 1 THEN seqs[i] ELSE f[i - 1] \o seqs[i]
           g == [i \in 1..(n + 1) |-> IF i <= n THEN f[i] ELSE G(i)]
           H(i) == IF i = 1 THEN seqs[i] ELSE g[i - 1] \o seqs[i]
<1>1. ASSUME NEW i \in 1..(n + 1) PROVE g[i] = H(i)
  <2>1. g[i] = G(i)
    <3>1. CASE i <= n
      <4>1. i \in 1..n
        BY <3>1
      <4>2. f[i] = G(i)
        BY <4>1, FlatToAt
      <4> HIDE DEF G
      <4> QED
        BY <3>1, <4>2
    <3>2. CASE ~(i <= n)
      <4> HIDE DEF G
      <4> QED
        BY <3>2
    <3> QED
      BY <3>1, <3>2
  <2>2. i # 1 => g[i - 1] = f[i - 1]
    <3> HIDE DEF G
    <3> QED
      OBVIOUS
  <2> QED
    BY <2>1, <2>2
<1>2. g = [i \in 1..(n + 1) |-> H(i)]
  <2>1. g = [i \in 1..(n + 1) |-> g[i]]
    <3> HIDE DEF G
    <3> QED
      OBVIOUS
  <2> HIDE DEF g, H
  <2> QED
    BY <1>1, <2>1
<1> QED
  BY <1>2 DEF FlatTo

LEMMA FlatExists ==
  ASSUME NEW S, NEW seqs \in Seq(Seq(S)), NEW n \in 0..Len(seqs)
  PROVE  \E f : FlatTo(f, seqs, n) /\ \A i \in 1..n : f[i] \in Seq(S)
<1> DEFINE P(m) == \E f : FlatTo(f, seqs, m) /\ \A i \in 1..m : f[i] \in Seq(S)
           T == {m \in 0..Len(seqs) : ~P(m)}
<1>1. P(0)
  <2>1. FlatTo([i \in 1..0 |-> <<>>], seqs, 0)
    BY DEF FlatTo
  <2> QED
    BY <2>1
<1>2. ASSUME NEW m \in Nat, m + 1 \in 0..Len(seqs), P(m) PROVE P(m + 1)
  <2>1. PICK f : FlatTo(f, seqs, m) /\ \A i \in 1..m : f[i] \in Seq(S)
    BY <1>2
  <2> DEFINE G(i) == IF i = 1 THEN seqs[i] ELSE f[i - 1] \o seqs[i]
             g == [i \in 1..(m + 1) |-> IF i <= m THEN f[i] ELSE G(i)]
  <2>2. FlatTo(g, seqs, m + 1)
    BY <2>1, FlatToNext
  <2>3. ASSUME NEW i \in 1..(m + 1) PROVE g[i] \in Seq(S)
    <3>1. CASE i <= m
      <4>1. i \in 1..m
        BY <3>1
      <4> HIDE DEF G
      <4> QED
        BY <2>1, <3>1, <4>1
    <3>2. CASE ~(i <= m)
      <4>1. i = m + 1 /\ seqs[i] \in Seq(S)
        BY <1>2, <3>2
      <4>2. i # 1 => f[i - 1] \in Seq(S)
        BY <2>1, <4>1
      <4>3. G(i) \in Seq(S)
        BY <4>1, <4>2, ConcatProperties
      <4> HIDE DEF G
      <4> QED
        BY <3>2, <4>3
    <3> QED
      BY <3>1, <3>2
  <2> HIDE DEF g
  <2> QED
    BY <2>2, <2>3
<1> HIDE DEF P
<1>3. T = {}
  <2>1. SUFFICES ASSUME T # {} PROVE FALSE
    OBVIOUS
  <2>2. T \subseteq Nat
    OBVIOUS
  <2> HIDE DEF T
  <2>3. PICK m \in T : \A k \in T : m <= k
    BY <2>1, <2>2, LeastNatural
  <2> USE DEF T
  <2>4. m \in 0..Len(seqs) /\ ~P(m) /\ m # 0
    BY <1>1
  <2>5. m - 1 \in 0..Len(seqs) /\ m - 1 \in Nat /\ m - 1 + 1 = m /\ m - 1 \notin T
    BY <2>3, <2>4
  <2> QED
    BY <1>2, <2>4, <2>5
<1>4. P(n)
  BY <1>3
<1> QED
  BY <1>4 DEF P

(* Where two sequences agree, so do these functions.                       *)
LEMMA FlatAgrees ==
  ASSUME NEW f, NEW g, NEW s, NEW t, NEW m \in Nat, NEW n \in Nat,
         FlatTo(f, s, m), FlatTo(g, t, n), m <= n, \A i \in 1..m : s[i] = t[i]
  PROVE  \A i \in 1..m : f[i] = g[i]
<1> DEFINE T == {i \in 1..m : f[i] # g[i]}
<1>1. SUFFICES ASSUME T # {} PROVE FALSE
  OBVIOUS
<1>2. T \subseteq Nat
  OBVIOUS
<1> HIDE DEF T
<1>3. PICK i \in T : \A y \in T : i <= y
  BY <1>1, <1>2, LeastNatural
<1> USE DEF T
<1>4. i \in 1..m /\ i \in 1..n /\ f[i] # g[i] /\ s[i] = t[i]
  OBVIOUS
<1>5. /\ f[i] = IF i = 1 THEN s[i] ELSE f[i - 1] \o s[i]
      /\ g[i] = IF i = 1 THEN t[i] ELSE g[i - 1] \o t[i]
  BY <1>4, FlatToAt
<1>6. i # 1
  BY <1>4, <1>5
<1>7. i - 1 \notin T /\ i - 1 \in 1..m
  BY <1>3, <1>6
<1>8. f[i - 1] = g[i - 1]
  BY <1>7
<1> QED
  BY <1>4, <1>5, <1>6, <1>8

LEMMA FlattenIs ==
  ASSUME NEW S, NEW seqs \in Seq(Seq(S))
  PROVE  /\ seqs = <<>> => FlattenSeq(seqs) = <<>>
         /\ seqs # <<>> => \A f : FlatTo(f, seqs, Len(seqs)) =>
                             FlattenSeq(seqs) = f[Len(seqs)]
         /\ FlattenSeq(seqs) \in Seq(S)
<1> DEFINE n == Len(seqs)
           c == CHOOSE f : f = [i \in 1..n |-> IF i = 1 THEN seqs[i] ELSE f[i - 1] \o seqs[i]]
<1>1. n \in Nat /\ n \in 0..Len(seqs) /\ (seqs = <<>> <=> n = 0)
  OBVIOUS
<1>2. FlattenSeq(seqs) = IF n = 0 THEN seqs ELSE c[n]
  BY DEF FlattenSeq
<1>3. PICK e : FlatTo(e, seqs, n) /\ \A i \in 1..n : e[i] \in Seq(S)
  BY <1>1, FlatExists
<1>4. FlatTo(c, seqs, n)
  BY <1>3 DEF FlatTo
<1> HIDE DEF c, n
<1>5. ASSUME NEW f, FlatTo(f, seqs, n), n # 0 PROVE c[n] = f[n]
  <2>1. n <= n /\ n \in 1..n
    BY <1>1, <1>5
  <2>2. \A i \in 1..n : c[i] = f[i]
    BY <1>1, <1>4, <1>5, <2>1, FlatAgrees
  <2> QED
    BY <2>1, <2>2
<1>6. n # 0 => c[n] \in Seq(S)
  BY <1>1, <1>3, <1>5
<1> QED
  BY <1>1, <1>2, <1>5, <1>6, EmptySeq DEF n

(* Flattening goes along with appending.                                   *)
LEMMA FlattenAppend ==
  ASSUME NEW S, NEW seqs \in Seq(Seq(S)), NEW s \in Seq(S)
  PROVE  FlattenSeq(Append(seqs, s)) = FlattenSeq(seqs) \o s
<1> DEFINE t == Append(seqs, s)
           n == Len(seqs)
<1>1. /\ t \in Seq(Seq(S)) /\ Len(t) = n + 1 /\ n \in Nat
      /\ \A i \in 1..n : seqs[i] = t[i]
      /\ t[n + 1] = s /\ t # <<>> /\ (seqs = <<>> <=> n = 0)
  <2>1. /\ t \in Seq(Seq(S)) /\ Len(t) = n + 1 /\ DOMAIN t = 1..(n + 1)
        /\ \A i \in DOMAIN seqs : t[i] = seqs[i]
        /\ t[n + 1] = s
    BY AppendFacts
  <2>2. n \in Nat /\ DOMAIN seqs = 1..n /\ (seqs = <<>> <=> n = 0)
    OBVIOUS
  <2> HIDE DEF t
  <2>3. t # <<>>
    BY <2>1, <2>2
  <2> QED
    BY <2>1, <2>2, <2>3
<1> HIDE DEF t
<1>2. PICK f : FlatTo(f, t, n + 1)
  BY <1>1, FlatExists, n + 1 \in 0..Len(t)
<1>3. PICK g : FlatTo(g, seqs, n)
  BY <1>1, FlatExists, n \in 0..Len(seqs)
<1>4. FlattenSeq(t) = f[n + 1]
  BY <1>1, <1>2, FlattenIs
<1>5. f[n + 1] = IF n + 1 = 1 THEN s ELSE f[n] \o s
  BY <1>1, <1>2, FlatToAt, n + 1 \in 1..(n + 1), n + 1 \in Nat, n + 1 - 1 = n
<1>6. FlattenSeq(seqs) = IF n = 0 THEN <<>> ELSE g[n]
  BY <1>1, <1>3, FlattenIs
<1> HIDE DEF n
<1>7. CASE n = 0
  <2>1. FlattenSeq(seqs) = <<>> /\ <<>> \o s = s
    BY <1>6, <1>7, ConcatEmptySeq
  <2> QED
    BY <1>4, <1>5, <1>7, <2>1 DEF t
<1>8. CASE n # 0
  <2>1. FlattenSeq(seqs) = g[n]
    BY <1>6, <1>8
  <2>2. n <= n + 1 /\ n \in 1..n /\ n + 1 \in Nat
    BY <1>1, <1>8
  <2>3. \A i \in 1..n : g[i] = f[i]
    <3>1. PICK k \in Nat : k = n + 1
      BY <2>2
    <3>2. FlatTo(f, t, k) /\ n <= k
      BY <1>2, <2>2, <3>1
    <3>3. n \in Nat /\ \A i \in 1..n : seqs[i] = t[i]
      BY <1>1
    <3> QED
      BY <1>3, <3>2, <3>3, FlatAgrees
  <2> QED
    <3>1. n + 1 # 1
      BY <1>1, <1>8
    <3>2. g[n] = f[n]
      BY <2>2, <2>3
    <3>3. FlattenSeq(t) = f[n] \o s
      BY <1>4, <1>5, <3>1
    <3> QED
      BY <2>1, <3>2, <3>3 DEF t
<1> QED
  BY <1>7, <1>8

(* What fails of some sequence fails of the empty one, or of one that      *)
(* extends by an element a sequence it does not fail of.                   *)
LEMMA ShortestFailure ==
  ASSUME NEW S, NEW Bad, Bad \subseteq Seq(S), Bad # {}
  PROVE  \/ <<>> \in Bad
         \/ \E s \in Seq(S), e \in S : s \notin Bad /\ Append(s, e) \in Bad
<1> DEFINE T == {Len(s) : s \in Bad}
<1>0. \A s \in Bad : s \in Seq(S) /\ Len(s) \in Nat
  OBVIOUS
<1>1. T \subseteq Nat /\ T # {}
  BY <1>0
<1> HIDE DEF T
<1>2. PICK n \in T : \A k \in T : n <= k
  BY <1>1, LeastNatural
<1> USE DEF T
<1>3. PICK t \in Bad : n = Len(t)
  OBVIOUS
<1>4. \A s \in Seq(S) : Len(s) < Len(t) => s \notin Bad
  <2>1. ASSUME NEW s \in Bad PROVE n <= Len(s)
    BY <1>2
  <2>2. \A s \in Seq(S) : Len(s) \in Nat
    OBVIOUS
  <2> HIDE DEF T
  <2> QED
    BY <1>0, <1>3, <2>1, <2>2
<1> HIDE DEF T
<1>5. CASE t = <<>>
  BY <1>5
<1>6. CASE t # <<>>
  <2> DEFINE s == SubSeq(t, 1, Len(t) - 1)
             e == t[Len(t)]
  <2>1. t \in Seq(S) /\ Len(t) > 0 /\ e \in S
    BY <1>6
  <2>2. s \in Seq(S) /\ Append(s, e) = t
    BY <2>1, AppendBack
  <2> HIDE DEF s, e
  <2>3. Len(Append(s, e)) = Len(s) + 1 /\ Len(s) \in Nat
    BY <2>1, <2>2, AppendFacts
  <2>4. s \notin Bad
    BY <1>4, <2>2, <2>3
  <2> QED
    BY <1>3, <2>1, <2>2, <2>4
<1> QED
  BY <1>5, <1>6

(* w lays the sequences out one behind the other, the i-th of them at the  *)
(* positions behind off[i - 1].                                            *)
Laid(w, seqs, off) ==
  /\ off \in [0..Len(seqs) -> Nat] /\ off[0] = 0
  /\ \A i \in 1..Len(seqs) : off[i] = off[i - 1] + Len(seqs[i])
  /\ Len(w) = off[Len(seqs)]
  /\ \A i \in 1..Len(seqs) : \A j \in 1..Len(seqs[i]) :
       off[i - 1] + j \in 1..Len(w) /\ w[off[i - 1] + j] = seqs[i][j]
  /\ \A k \in 1..Len(w) :
       \E i \in 1..Len(seqs) : \E j \in 1..Len(seqs[i]) : k = off[i - 1] + j

LEMMA LaidNext ==
  ASSUME NEW S, NEW w \in Seq(S), NEW seqs \in Seq(Seq(S)), NEW s \in Seq(S),
         NEW off, Laid(w, seqs, off)
  PROVE  \E new : Laid(w \o s, Append(seqs, s), new)
<1> DEFINE n == Len(seqs)
           t == Append(seqs, s)
           v == w \o s
           new == [i \in 0..(n + 1) |-> IF i <= n THEN off[i] ELSE Len(w) + Len(s)]
<1>1. /\ n \in Nat /\ Len(t) = n + 1 /\ t[n + 1] = s
      /\ \A i \in 1..n : t[i] = seqs[i] /\ seqs[i] \in Seq(S) /\ Len(seqs[i]) \in Nat
  <2>1. /\ Len(t) = n + 1 /\ t[n + 1] = s
        /\ \A i \in DOMAIN seqs : t[i] = seqs[i]
    BY AppendFacts
  <2> HIDE DEF t
  <2>2. n \in Nat /\ DOMAIN seqs = 1..n
    OBVIOUS
  <2>3. \A i \in 1..n : seqs[i] \in Seq(S)
    OBVIOUS
  <2>4. \A i \in 1..n : Len(seqs[i]) \in Nat
    BY <2>3
  <2> QED
    BY <2>1, <2>2, <2>3, <2>4
<1>2. /\ v \in Seq(S) /\ Len(v) = Len(w) + Len(s) /\ Len(w) \in Nat /\ Len(s) \in Nat
      /\ \A k \in 1..Len(w) : v[k] = w[k]
      /\ \A j \in 1..Len(s) : v[Len(w) + j] = s[j]
  <2>1. /\ v \in Seq(S) /\ Len(v) = Len(w) + Len(s)
        /\ \A i \in 1..(Len(w) + Len(s)) : v[i] =
             IF i <= Len(w) THEN w[i] ELSE s[i - Len(w)]
    BY ConcatProperties
  <2> HIDE DEF v
  <2>2. Len(w) \in Nat /\ Len(s) \in Nat
    OBVIOUS
  <2>3. ASSUME NEW j \in 1..Len(s) PROVE v[Len(w) + j] = s[j]
    <3>1. Len(w) + j \in 1..(Len(w) + Len(s)) /\ ~(Len(w) + j <= Len(w))
          /\ Len(w) + j - Len(w) = j
      BY <2>2
    <3> QED
      BY <2>1, <3>1
  <2>4. ASSUME NEW k \in 1..Len(w) PROVE v[k] = w[k]
    <3>1. k \in 1..(Len(w) + Len(s)) /\ k <= Len(w)
      BY <2>2
    <3> QED
      BY <2>1, <3>1
  <2> QED
    BY <2>1, <2>2, <2>3, <2>4
<1> HIDE DEF n, t, v
<1>3. /\ off \in [0..n -> Nat] /\ off[0] = 0
      /\ \A i \in 1..n : off[i] = off[i - 1] + Len(seqs[i])
      /\ Len(w) = off[n]
      /\ \A i \in 1..n : \A j \in 1..Len(seqs[i]) :
           off[i - 1] + j \in 1..Len(w) /\ w[off[i - 1] + j] = seqs[i][j]
      /\ \A k \in 1..Len(w) :
           \E i \in 1..n : \E j \in 1..Len(seqs[i]) : k = off[i - 1] + j
  BY DEF Laid, n
<1>4. /\ new \in [0..(n + 1) -> Nat] /\ \A i \in 0..n : new[i] = off[i]
      /\ new[n + 1] = Len(w) + Len(s)
  BY <1>1, <1>2, <1>3
<1> HIDE DEF new
<1>5. new[0] = 0 /\ new[n] = Len(w)
  BY <1>1, <1>3, <1>4
<1>6. ASSUME NEW i \in 1..(n + 1) PROVE new[i] = new[i - 1] + Len(t[i])
  <2>1. CASE i = n + 1
    <3>1. i - 1 = n /\ t[i] = s
      BY <1>1, <2>1
    <3> QED
      BY <1>4, <1>5, <2>1, <3>1
  <2>2. CASE i \in 1..n
    <3>1. t[i] = seqs[i] /\ i - 1 \in 0..n /\ i \in 0..n
      BY <1>1, <2>2
    <3>2. new[i] = off[i] /\ new[i - 1] = off[i - 1]
      BY <1>4, <3>1
    <3> QED
      BY <1>3, <2>2, <3>1, <3>2
  <2> QED
    BY <1>1, <2>1, <2>2
<1>7. ASSUME NEW i \in 1..(n + 1), NEW j \in 1..Len(t[i])
      PROVE  new[i - 1] + j \in 1..Len(v) /\ v[new[i - 1] + j] = t[i][j]
  <2>1. CASE i = n + 1
    <3>1. j \in 1..Len(s) /\ new[i - 1] = Len(w) /\ t[i][j] = s[j]
      BY <1>1, <1>5, <2>1
    <3> QED
      BY <1>2, <3>1
  <2>2. CASE i \in 1..n
    <3>1. j \in 1..Len(seqs[i]) /\ new[i - 1] = off[i - 1] /\ t[i][j] = seqs[i][j]
      <4>1. t[i] = seqs[i] /\ i - 1 \in 0..n
        BY <1>1, <2>2
      <4> QED
        BY <1>4, <4>1
    <3>2. off[i - 1] + j \in 1..Len(w) /\ w[off[i - 1] + j] = seqs[i][j]
      BY <1>3, <2>2, <3>1
    <3> QED
      BY <1>2, <3>1, <3>2
  <2> QED
    BY <1>1, <2>1, <2>2
<1>8. ASSUME NEW k \in 1..Len(v)
      PROVE  \E i \in 1..(n + 1) : \E j \in 1..Len(t[i]) : k = new[i - 1] + j
  <2>1. CASE k <= Len(w)
    <3>1. k \in 1..Len(w)
      BY <1>2, <2>1
    <3>2. PICK i \in 1..n : \E j \in 1..Len(seqs[i]) : k = off[i - 1] + j
      BY <1>3, <3>1
    <3>3. new[i - 1] = off[i - 1] /\ t[i] = seqs[i] /\ i \in 1..(n + 1)
      BY <1>1, <1>4
    <3> QED
      BY <3>2, <3>3
  <2>2. CASE ~(k <= Len(w))
    <3>1. k - Len(w) \in 1..Len(s) /\ k = Len(w) + (k - Len(w))
      BY <1>2, <2>2
    <3>2. PICK i \in 1..(n + 1) : i = n + 1
      BY <1>1
    <3>3. new[i - 1] = Len(w) /\ t[i] = s
      BY <1>1, <1>5, <3>2
    <3> QED
      BY <3>1, <3>3
  <2> QED
    BY <2>1, <2>2
<1>9. Laid(v, t, new)
  BY <1>1, <1>2, <1>4, <1>5, <1>6, <1>7, <1>8 DEF Laid
<1> QED
  BY <1>9 DEF t, v

LEMMA FlattenIsLaid ==
  ASSUME NEW S, NEW seqs \in Seq(Seq(S))
  PROVE  \E off : Laid(FlattenSeq(seqs), seqs, off)
<1> DEFINE P(q) == \E off : Laid(FlattenSeq(q), q, off)
           Bad == {q \in Seq(Seq(S)) : ~P(q)}
<1>1. P(<<>>)
  <2>1. <<>> \in Seq(Seq(S)) /\ Len(<<>>) = 0
    BY EmptySeq
  <2>2. FlattenSeq(<<>>) = <<>>
    BY <2>1, FlattenIs
  <2>3. Laid(<<>>, <<>>, [i \in 0..0 |-> 0])
    BY <2>1 DEF Laid
  <2> QED
    BY <2>2, <2>3
<1>2. ASSUME NEW q \in Seq(Seq(S)), NEW s \in Seq(S), P(q) PROVE P(Append(q, s))
  <2>1. FlattenSeq(q) \in Seq(S) /\ FlattenSeq(Append(q, s)) = FlattenSeq(q) \o s
    BY FlattenIs, FlattenAppend
  <2>2. PICK off : Laid(FlattenSeq(q), q, off)
    BY <1>2
  <2>3. \E new : Laid(FlattenSeq(q) \o s, Append(q, s), new)
    BY <2>1, <2>2, LaidNext
  <2> QED
    BY <2>1, <2>3
<1> HIDE DEF P
<1>3. Bad = {}
  <2>1. SUFFICES ASSUME Bad # {} PROVE FALSE
    OBVIOUS
  <2>2. Bad \subseteq Seq(Seq(S)) /\ <<>> \notin Bad
    BY <1>1
  <2> HIDE DEF Bad
  <2>3. PICK q \in Seq(Seq(S)), s \in Seq(S) : q \notin Bad /\ Append(q, s) \in Bad
    BY <2>1, <2>2, ShortestFailure
  <2> QED
    BY <1>2, <2>3 DEF Bad
<1> QED
  BY <1>3 DEF P

---------------------------------------------------------------------------
(* A sound history on the wire.                                            *)

WireMessages == [role : {"tool", "system", "user", "assistant"},
                 calls : Seq(CallIds), answers : Seq(CallIds)]

(* What one message becomes on the wire.                                   *)
LEMMA ToChatFacts ==
  ASSUME NEW m \in Messages
  PROVE  /\ ToChat(m) \in Seq(WireMessages)
         /\ m.results # <<>> =>
              /\ Len(ToChat(m)) = Len(m.results)
              /\ \A j \in 1..Len(m.results) :
                   /\ ToChat(m)[j].role = "tool" /\ ToChat(m)[j].calls = <<>>
                   /\ ToChat(m)[j].answers = <<m.results[j].id>>
         /\ m.results = <<>> =>
              /\ Len(ToChat(m)) = 1
              /\ ToChat(m)[1].role # "tool"
              /\ ToChat(m)[1].calls = [i \in DOMAIN m.calls |-> m.calls[i].id]
<1>1. /\ m.role \in {"system", "user", "assistant"}
      /\ m.calls \in Seq(Calls) /\ m.results \in Seq(Results)
  BY DEF Messages
<1>2. CASE m.results # <<>>
  <2> DEFINE W(i) == [role |-> "tool", calls |-> <<>>, answers |-> <<m.results[i].id>>]
  <2>1. ToChat(m) = [i \in 1..Len(m.results) |-> W(i)]
    BY <1>1, <1>2 DEF ToChat
  <2>2. ASSUME NEW i \in 1..Len(m.results)
        PROVE  /\ W(i) \in WireMessages /\ W(i).role = "tool" /\ W(i).calls = <<>>
               /\ W(i).answers = <<m.results[i].id>>
    <3>1. m.results[i] \in Results
      BY <1>1
    <3>2. m.results[i].id \in CallIds
      BY <3>1 DEF Results
    <3>3. <<>> \in Seq(CallIds) /\ <<m.results[i].id>> \in Seq(CallIds)
      BY <3>2
    <3> QED
      BY <3>3 DEF WireMessages
  <2> HIDE DEF W
  <2>3. ToChat(m) \in Seq(WireMessages) /\ Len(ToChat(m)) = Len(m.results)
    <3>1. Len(m.results) \in Nat
      BY <1>1
    <3> QED
      BY <2>1, <2>2, <3>1
  <2>4. \A i \in 1..Len(m.results) : ToChat(m)[i] = W(i)
    BY <2>1
  <2> QED
    BY <1>2, <2>2, <2>3, <2>4
<1>3. CASE m.results = <<>>
  <2> DEFINE ids == [i \in DOMAIN m.calls |-> m.calls[i].id]
             w == [role |-> m.role, calls |-> ids, answers |-> <<>>]
  <2>1. ids \in Seq(CallIds)
    <3>1. ids = [i \in 1..Len(m.calls) |-> m.calls[i].id] /\ Len(m.calls) \in Nat
      BY <1>1
    <3>2. \A i \in 1..Len(m.calls) : m.calls[i] \in Calls
      BY <1>1
    <3>3. \A i \in 1..Len(m.calls) : m.calls[i].id \in CallIds
      BY <3>2 DEF Calls
    <3> QED
      BY <3>1, <3>3
  <2>2. ToChat(m) = <<w>>
    BY <1>3 DEF ToChat
  <2> HIDE DEF ids
  <2>3. w \in WireMessages
    <3>1. <<>> \in Seq(CallIds)
      BY EmptySeq
    <3> QED
      BY <1>1, <2>1, <3>1 DEF WireMessages
  <2>4. w.role # "tool" /\ w.calls = ids
    BY <1>1
  <2> HIDE DEF w
  <2>5. <<w>> \in Seq(WireMessages) /\ Len(<<w>>) = 1 /\ <<w>>[1] = w
    BY <2>3
  <2> QED
    BY <1>3, <2>2, <2>4, <2>5 DEF ids
<1> QED
  BY <1>2, <1>3

(* Each tool message answers, position for position, the assistant message *)
(* in front of its block.                                                  *)
LEMMA SoundWire ==
  ASSUME NEW h \in Seq(Messages), Sound(h), NEW k \in DOMAIN Wire(h)
  PROVE  /\ \A c \in DOMAIN Wire(h)[k].calls :
              /\ k + c \in DOMAIN Wire(h)
              /\ Wire(h)[k + c].answers = <<Wire(h)[k].calls[c]>>
         /\ Wire(h)[k].role = "tool" =>
              \E a \in 1..(k - 1) : k - a \in DOMAIN Wire(h)[a].calls
<1> DEFINE n == Len(h)
           w == Wire(h)
           chats == [i \in DOMAIN h |-> ToChat(h[i])]
<1>1. n \in Nat /\ DOMAIN h = 1..n /\ \A i \in 1..n : h[i] \in Messages
  OBVIOUS
<1>2. /\ chats \in Seq(Seq(WireMessages)) /\ Len(chats) = n
      /\ \A i \in 1..n : chats[i] = ToChat(h[i])
  <2>1. \A i \in 1..n : ToChat(h[i]) \in Seq(WireMessages)
    BY <1>1, ToChatFacts
  <2>2. chats = [i \in 1..n |-> ToChat(h[i])]
    BY <1>1
  <2> HIDE DEF n, chats
  <2> QED
    BY <1>1, <2>1, <2>2
<1>3. w = FlattenSeq(chats)
  BY DEF Wire
<1> HIDE DEF w, chats, n
<1>4. w \in Seq(WireMessages) /\ DOMAIN w = 1..Len(w)
  BY <1>2, <1>3, FlattenIs
<1>5. PICK off : Laid(w, chats, off)
  BY <1>2, <1>3, FlattenIsLaid
<1>6. /\ \A i \in 0..n : off[i] \in Nat
      /\ \A i \in 1..n : off[i] = off[i - 1] + Len(ToChat(h[i]))
      /\ \A i \in 1..n : \A j \in 1..Len(ToChat(h[i])) :
           off[i - 1] + j \in DOMAIN w /\ w[off[i - 1] + j] = ToChat(h[i])[j]
      /\ \A l \in DOMAIN w :
           \E i \in 1..n : \E j \in 1..Len(ToChat(h[i])) : l = off[i - 1] + j
  <2>1. /\ off \in [0..n -> Nat]
        /\ \A i \in 1..n : off[i] = off[i - 1] + Len(chats[i])
        /\ \A i \in 1..n : \A j \in 1..Len(chats[i]) :
             off[i - 1] + j \in DOMAIN w /\ w[off[i - 1] + j] = chats[i][j]
        /\ \A l \in DOMAIN w :
             \E i \in 1..n : \E j \in 1..Len(chats[i]) : l = off[i - 1] + j
    BY <1>2, <1>4, <1>5 DEF Laid
  <2>2. ASSUME NEW i \in 1..n, NEW j \in 1..Len(ToChat(h[i]))
        PROVE  off[i - 1] + j \in DOMAIN w /\ w[off[i - 1] + j] = ToChat(h[i])[j]
    BY <1>2, <2>1
  <2>3. ASSUME NEW l \in DOMAIN w
        PROVE  \E i \in 1..n : \E j \in 1..Len(ToChat(h[i])) : l = off[i - 1] + j
    <3>1. PICK i \in 1..n : \E j \in 1..Len(chats[i]) : l = off[i - 1] + j
      BY <2>1
    <3> QED
      BY <1>2, <3>1
  <2> QED
    BY <1>2, <2>1, <2>2, <2>3
<1>7. PICK i \in 1..n : \E j \in 1..Len(ToChat(h[i])) : k = off[i - 1] + j
  BY <1>6 DEF w
<1>8. PICK j \in 1..Len(ToChat(h[i])) : k = off[i - 1] + j
  BY <1>7
<1>9. /\ h[i] \in Messages /\ ChatAccepts(h[i])
      /\ h[i].calls # <<>> => i < n /\ Answers(h[i + 1], h[i].calls)
      /\ h[i].results # <<>> => i > 1 /\ Answers(h[i], h[i - 1].calls)
  BY <1>1 DEF Sound, Paired, n
<1>10. w[k] = ToChat(h[i])[j] /\ off[i - 1] \in Nat
  BY <1>1, <1>6, <1>8
<1>11. CASE h[i].results = <<>>
  <2>1. /\ j = 1 /\ Len(ToChat(h[i])) = 1 /\ w[k].role # "tool"
        /\ w[k].calls = [c \in DOMAIN h[i].calls |-> h[i].calls[c].id]
    BY <1>9, <1>10, <1>11, ToChatFacts
  <2>2. off[i] = k
    BY <1>6, <1>8, <2>1
  <2>3. ASSUME NEW c \in DOMAIN w[k].calls
        PROVE  k + c \in DOMAIN w /\ w[k + c].answers = <<w[k].calls[c]>>
    <3>1. c \in DOMAIN h[i].calls /\ h[i].calls \in Seq(Calls) /\ h[i].calls # <<>>
      <4>1. c \in DOMAIN h[i].calls
        BY <2>1
      <4> QED
        BY <1>9, <4>1 DEF Messages
    <3>2. PICK next \in 2..n : next = i + 1
      BY <1>1, <1>9, <3>1
    <3>3. /\ h[next] \in Messages /\ h[next].results \in Seq(Results)
          /\ Len(h[next].results) = Len(h[i].calls)
          /\ h[next].results[c].id = h[i].calls[c].id
      BY <1>1, <1>9, <3>1, <3>2 DEF Messages, Answers
    <3>4. c \in 1..Len(h[next].results) /\ h[next].results # <<>>
      <4>1. c \in 1..Len(h[i].calls)
        BY <3>1
      <4>2. c \in 1..Len(h[next].results)
        BY <3>3, <4>1
      <4> QED
        BY <4>2
    <3>5. c \in 1..Len(ToChat(h[next])) /\ ToChat(h[next])[c].answers = <<h[next].results[c].id>>
      BY <3>3, <3>4, ToChatFacts
    <3>6. off[next - 1] = k /\ next \in 1..n
      BY <1>1, <2>2, <3>2
    <3>7. k + c \in DOMAIN w /\ w[k + c] = ToChat(h[next])[c]
      BY <1>6, <3>5, <3>6
    <3>8. w[k].calls[c] = h[i].calls[c].id
      BY <2>1, <3>1
    <3> QED
      BY <3>3, <3>5, <3>7, <3>8
  <2> QED
    BY <2>1, <2>3 DEF w
<1>12. CASE h[i].results # <<>>
  <2>1. /\ w[k].role = "tool" /\ w[k].calls = <<>>
        /\ j \in 1..Len(h[i].results)
    <3>1. /\ Len(ToChat(h[i])) = Len(h[i].results)
          /\ \A c \in 1..Len(h[i].results) :
               ToChat(h[i])[c].role = "tool" /\ ToChat(h[i])[c].calls = <<>>
      BY <1>9, <1>12, ToChatFacts
    <3> QED
      BY <1>10, <3>1
  <2>2. PICK p \in 1..(n - 1) : p = i - 1
    BY <1>1, <1>9, <1>12
  <2>3. /\ h[p] \in Messages /\ h[p].calls \in Seq(Calls)
        /\ Len(h[i].results) = Len(h[p].calls) /\ h[p].results = <<>>
    <3>1. p \in 1..n /\ h[p] \in Messages /\ Answers(h[i], h[p].calls) /\ ChatAccepts(h[p])
      BY <1>1, <1>9, <1>12, <2>2 DEF Sound
    <3>2. h[p].calls \in Seq(Calls) /\ h[i].results \in Seq(Results)
      BY <1>9, <3>1 DEF Messages
    <3>3. Len(h[i].results) = Len(h[p].calls) /\ Len(h[p].calls) # 0
      BY <1>12, <3>1, <3>2 DEF Answers
    <3>4. h[p].calls # <<>>
      BY <3>2, <3>3
    <3> QED
      BY <3>1, <3>2, <3>3, <3>4 DEF ChatAccepts
  <2>4. /\ Len(ToChat(h[p])) = 1
        /\ ToChat(h[p])[1].calls = [c \in DOMAIN h[p].calls |-> h[p].calls[c].id]
    BY <2>3, ToChatFacts
  <2>5. /\ off[p] = off[p - 1] + 1 /\ off[p - 1] + 1 \in DOMAIN w
        /\ w[off[p - 1] + 1] = ToChat(h[p])[1]
    <3>1. p \in 1..n /\ 1 \in 1..Len(ToChat(h[p]))
      BY <1>1, <2>2, <2>4
    <3> QED
      BY <1>6, <2>4, <3>1
  <2>6. w[off[p]] = ToChat(h[p])[1] /\ off[p] = off[i - 1] /\ off[p] \in DOMAIN w
    BY <1>1, <2>2, <2>5
  <2>7. DOMAIN w[off[p]].calls = 1..Len(h[p].calls)
    BY <2>3, <2>4, <2>6
  <2>8. off[p] \in 1..(k - 1) /\ k - off[p] = j
    BY <1>4, <1>8, <1>10, <2>6
  <2>9. k - off[p] \in DOMAIN w[off[p]].calls
    BY <2>1, <2>3, <2>7, <2>8
  <2>10. DOMAIN w[k].calls = {}
    BY <2>1
  <2> QED
    BY <2>1, <2>8, <2>9, <2>10 DEF w
<1> QED
  BY <1>11, <1>12

(* In every request each assistant turn with calls is followed by one tool *)
(* message per call, in the calls' order, and no other tool message is on  *)
(* the wire, for whatever batches the models ask.                          *)
THEOREM AlwaysPairedOnTheWire == Spec => []WireIsPaired
<1>1. ASSUME Inv PROVE WireIsPaired
  <2>1. SUFFICES ASSUME pc = "ask" PROVE WireIsPaired
    BY DEF WireIsPaired
  <2>2. history \in Seq(Messages) /\ Sound(history)
    BY <1>1, <2>1, SettledType DEF Inv, TypeOK, Handling
  <2> QED
    BY <2>2, SoundWire DEF WireIsPaired
<1> QED
  BY <1>1, InvAlways, PTL

---------------------------------------------------------------------------
(* What the records tell of the messages a run has added.                  *)

(* The calls asked for in messages, the results told, and the turns.       *)
Asked(messages) == FlattenSeq([i \in DOMAIN messages |-> messages[i].calls])

Answered(messages) == FlattenSeq([i \in DOMAIN messages |-> messages[i].results])

Turns(messages) == Cardinality({i \in DOMAIN messages : messages[i].role = "assistant"})

CallsIn(r) == [k \in DOMAIN r |-> r[k].call]

Outcome(record) == [id |-> record.call.id, error |-> ~record.success]

OutcomesIn(r) == [k \in DOMAIN r |-> Outcome(r[k])]

(* r records what the messages behind the first start ones say, in as many *)
(* turns as rounds.                                                        *)
Tells(messages, start, r, rounds) ==
  LET new == SubSeq(messages, start + 1, Len(messages)) IN
  /\ Asked(new) = CallsIn(r)
  /\ Answered(new) = OutcomesIn(r)
  /\ Turns(new) = rounds

(* The records of the calls settled in rounds that are complete.           *)
Complete == SubSeq(records, 1, Len(records) - Len(blocks))

RecordInv ==
  /\ Len(blocks) <= Len(records)
  /\ pc # "idle" => outcome = "none"
  /\ pc # "idle" =>
       \E start \in 0..Len(Settled) : Tells(Settled, start, Complete, Rounds)
  /\ Handling =>
       \A i \in DOMAIN blocks :
         LET k == Len(records) - Len(blocks) + i IN
         records[k].call = calls[i] /\ blocks[i] = Outcome(records[k])
  /\ pc = "idle" /\ outcome \in {"answered", "provider", "exhausted"} =>
       \E start \in 0..Len(history) :
         Tells(history, start, records,
               iteration - (IF outcome = "provider" THEN 1 ELSE 0))

(* The values of a function on the elements of a sequence.                 *)
Column(F, s) == [i \in DOMAIN s |-> F[s[i]]]

(* Projections along an appended message or record.                        *)
LEMMA ColumnAppend ==
  ASSUME NEW S, NEW s \in Seq(S), NEW e \in S, NEW F
  PROVE  Column(F, Append(s, e)) = Append(Column(F, s), F[e])
<1> DEFINE t == Append(s, e)
           left == [i \in DOMAIN t |-> F[t[i]]]
           col == [i \in DOMAIN s |-> F[s[i]]]
           right == Append(col, F[e])
<1>1. /\ Len(t) = Len(s) + 1 /\ DOMAIN t = 1..(Len(s) + 1)
      /\ \A i \in DOMAIN s : t[i] = s[i]
      /\ t[Len(s) + 1] = e /\ DOMAIN s = 1..Len(s) /\ Len(s) \in Nat
  BY AppendFacts
<1> HIDE DEF t
<1>2. /\ right = [i \in 1..(Len(s) + 1) |-> right[i]]
      /\ \A i \in 1..Len(s) : right[i] = F[s[i]]
      /\ right[Len(s) + 1] = F[e]
  <2> DEFINE R == {F[s[i]] : i \in DOMAIN s} \cup {F[e]}
  <2>1. col \in Seq(R) /\ Len(col) = Len(s) /\ DOMAIN col = DOMAIN s
    <3>1. col = [i \in 1..Len(s) |-> F[s[i]]] /\ \A i \in 1..Len(s) : F[s[i]] \in R
      BY <1>1
    <3> HIDE DEF R
    <3>2. col \in Seq(R)
      BY <1>1, <3>1
    <3>3. DOMAIN col = 1..Len(s)
      BY <3>1
    <3> HIDE DEF col
    <3>4. Len(col) = Len(s)
      BY <1>1, <3>2, <3>3
    <3> QED
      BY <1>1, <3>2, <3>3, <3>4
  <2>2. F[e] \in R /\ \A i \in DOMAIN s : col[i] = F[s[i]]
    OBVIOUS
  <2> HIDE DEF R, col
  <2>3. /\ right \in Seq(R) /\ Len(right) = Len(col) + 1
        /\ DOMAIN right = 1..(Len(col) + 1)
        /\ \A i \in DOMAIN col : right[i] = col[i]
        /\ right[Len(col) + 1] = F[e]
    BY <2>1, <2>2, AppendFacts
  <2> HIDE DEF right
  <2>4. right = [i \in DOMAIN right |-> right[i]]
    BY <2>3
  <2> QED
    BY <1>1, <2>1, <2>2, <2>3, <2>4
<1>3. left = [i \in 1..(Len(s) + 1) |-> F[t[i]]]
  BY <1>1
<1> HIDE DEF right, left
<1>4. ASSUME NEW i \in 1..(Len(s) + 1) PROVE F[t[i]] = right[i]
  BY <1>1, <1>2, i \in 1..Len(s) \/ i = Len(s) + 1
<1>5. left = right
  BY <1>2, <1>3, <1>4
<1> QED
  BY <1>5 DEF left, right, t, Column

(* Projections of a sequence are sequences.                                *)
LEMMA ColumnType ==
  ASSUME NEW S, NEW s \in Seq(S), NEW R, NEW F \in [S -> R]
  PROVE  Column(F, s) \in Seq(R) /\ Len(Column(F, s)) = Len(s)
<1> DEFINE col == [i \in DOMAIN s |-> F[s[i]]]
<1>1. Len(s) \in Nat /\ DOMAIN s = 1..Len(s) /\ \A i \in DOMAIN s : F[s[i]] \in R
  OBVIOUS
<1>2. col = [i \in 1..Len(s) |-> F[s[i]]]
  BY <1>1
<1> HIDE DEF col
<1>3. col \in Seq(R)
  BY <1>1, <1>2
<1>4. DOMAIN col = 1..Len(s)
  BY <1>2
<1> QED
  BY <1>1, <1>3, <1>4 DEF col, Column

LEMMA AskedAppend ==
  ASSUME NEW s \in Seq(Messages), NEW m \in Messages
  PROVE  /\ Asked(s) \in Seq(Calls) /\ Asked(Append(s, m)) = Asked(s) \o m.calls
         /\ Answered(s) \in Seq(Results) /\ Answered(Append(s, m)) = Answered(s) \o m.results
<1> DEFINE t == Append(s, m)
           C == [x \in Messages |-> x.calls]
           R == [x \in Messages |-> x.results]
<1>1. t \in Seq(Messages) /\ \A i \in DOMAIN t : t[i] \in Messages
  OBVIOUS
<1>2. /\ Column(C, t) = Append(Column(C, s), C[m])
      /\ Column(R, t) = Append(Column(R, s), R[m])
  BY ColumnAppend
<1>3. /\ C \in [Messages -> Seq(Calls)] /\ C[m] = m.calls
      /\ R \in [Messages -> Seq(Results)] /\ R[m] = m.results
  BY DEF Messages
<1>4. /\ Column(C, t) = [i \in DOMAIN t |-> t[i].calls]
      /\ Column(R, t) = [i \in DOMAIN t |-> t[i].results]
  <2> HIDE DEF t
  <2> QED
    BY <1>1 DEF Column
<1>5. /\ Column(C, s) = [i \in DOMAIN s |-> s[i].calls]
      /\ Column(R, s) = [i \in DOMAIN s |-> s[i].results]
  <2>1. \A i \in DOMAIN s : s[i] \in Messages
    OBVIOUS
  <2> QED
    BY <2>1 DEF Column
<1> HIDE DEF t, C, R
<1>6. Column(C, s) \in Seq(Seq(Calls)) /\ Column(R, s) \in Seq(Seq(Results))
  BY <1>3, ColumnType
<1>7. m.calls \in Seq(Calls) /\ m.results \in Seq(Results)
  BY DEF Messages
<1>8. Asked(s) \in Seq(Calls) /\ Asked(t) = Asked(s) \o m.calls
  <2> DEFINE c == [i \in DOMAIN s |-> s[i].calls]
  <2>1. c \in Seq(Seq(Calls))
    BY <1>5, <1>6
  <2>2. Asked(s) = FlattenSeq(c)
    BY DEF Asked
  <2>3. Asked(t) = FlattenSeq(Append(c, m.calls))
    BY <1>2, <1>3, <1>4, <1>5 DEF Asked
  <2> HIDE DEF c
  <2> QED
    BY <1>7, <2>1, <2>2, <2>3, FlattenIs, FlattenAppend
<1>9. Answered(s) \in Seq(Results) /\ Answered(t) = Answered(s) \o m.results
  <2> DEFINE c == [i \in DOMAIN s |-> s[i].results]
  <2>1. c \in Seq(Seq(Results))
    BY <1>5, <1>6
  <2>2. Answered(s) = FlattenSeq(c)
    BY DEF Answered
  <2>3. Answered(t) = FlattenSeq(Append(c, m.results))
    BY <1>2, <1>3, <1>4, <1>5 DEF Answered
  <2> HIDE DEF c
  <2> QED
    BY <1>7, <2>1, <2>2, <2>3, FlattenIs, FlattenAppend
<1> QED
  BY <1>8, <1>9 DEF t

LEMMA TurnsAppend ==
  ASSUME NEW s \in Seq(Messages), NEW m \in Messages
  PROVE  /\ Turns(s) \in Nat
         /\ Turns(Append(s, m)) = Turns(s) + (IF m.role = "assistant" THEN 1 ELSE 0)
<1> DEFINE t == Append(s, m)
           n == Len(s)
           I == {i \in DOMAIN s : s[i].role = "assistant"}
           J == {i \in DOMAIN t : t[i].role = "assistant"}
<1>1. /\ DOMAIN t = 1..(n + 1) /\ \A i \in DOMAIN s : t[i] = s[i]
      /\ t[n + 1] = m /\ DOMAIN s = 1..n /\ n \in Nat
  BY AppendFacts
<1> HIDE DEF t, n
<1>2. IsFiniteSet(1..n)
  BY <1>1, FS_Interval
<1>3. IsFiniteSet(I) /\ n + 1 \notin I
  <2>1. I \subseteq 1..n
    BY <1>1
  <2> QED
    BY <1>1, <1>2, <2>1, FS_Subset
<1>4. J = IF m.role = "assistant" THEN I \cup {n + 1} ELSE I
  BY <1>1
<1> HIDE DEF I, J
<1>5. Cardinality(I) \in Nat /\ Cardinality(I \cup {n + 1}) = Cardinality(I) + 1
  BY <1>3, FS_AddElement, FS_CardinalityType
<1> QED
  <2>1. Turns(s) = Cardinality(I) /\ Turns(t) = Cardinality(J)
    BY DEF Turns, I, J
  <2>2. Cardinality(J) = Cardinality(I) + (IF m.role = "assistant" THEN 1 ELSE 0)
    BY <1>4, <1>5
  <2> QED
    BY <1>5, <2>1, <2>2 DEF t

LEMMA PrefixAppend ==
  ASSUME NEW S, NEW s \in Seq(S), NEW e \in S, NEW n \in Nat, n <= Len(s)
  PROVE  SubSeq(Append(s, e), 1, n) = SubSeq(s, 1, n)
<1> DEFINE t == Append(s, e)
           f == SubSeq(t, 1, n)
           g == SubSeq(s, 1, n)
<1>1. /\ t \in Seq(S) /\ Len(t) = Len(s) + 1 /\ Len(s) \in Nat
      /\ \A i \in 1..n : t[i] = s[i]
  <2>1. /\ t \in Seq(S) /\ Len(t) = Len(s) + 1
        /\ \A i \in DOMAIN s : t[i] = s[i]
    BY AppendFacts
  <2>2. Len(s) \in Nat /\ \A i \in 1..n : i \in DOMAIN s
    OBVIOUS
  <2> HIDE DEF t
  <2> QED
    BY <2>1, <2>2
<1> HIDE DEF t
<1>2. f \in Seq(S) /\ Len(f) = n /\ \A i \in 1..n : f[i] = t[i]
  BY <1>1, PrefixOf, n <= Len(t)
<1>3. g \in Seq(S) /\ Len(g) = n /\ \A i \in 1..n : g[i] = s[i]
  BY PrefixOf
<1> HIDE DEF f, g
<1>4. \A i \in 1..Len(f) : f[i] = g[i]
  BY <1>1, <1>2, <1>3
<1>5. f = g
  BY <1>2, <1>3, <1>4, SeqEqual
<1> QED
  BY <1>5 DEF f, g, t

LEMMA WholePrefix ==
  ASSUME NEW S, NEW s \in Seq(S)
  PROVE  SubSeq(s, 1, Len(s)) = s
<1> DEFINE f == SubSeq(s, 1, Len(s))
<1>1. f \in Seq(S) /\ Len(f) = Len(s) /\ \A i \in 1..Len(s) : f[i] = s[i]
  BY PrefixOf, Len(s) \in Nat
<1> HIDE DEF f
<1>2. f = s
  BY <1>1, SeqEqual
<1> QED
  BY <1>2 DEF f

(* The messages behind the first few, with one more.                       *)
LEMMA TailAppend ==
  ASSUME NEW S, NEW s \in Seq(S), NEW e \in S, NEW n \in 0..Len(s)
  PROVE  /\ SubSeq(s, n + 1, Len(s)) \in Seq(S)
         /\ SubSeq(Append(s, e), n + 1, Len(Append(s, e))) =
              Append(SubSeq(s, n + 1, Len(s)), e)
<1> DEFINE t == Append(s, e)
           l == Len(s) - n
           f == SubSeq(t, n + 1, Len(t))
           g == SubSeq(s, n + 1, Len(s))
           h == Append(g, e)
<1>1. /\ t \in Seq(S) /\ Len(t) = Len(s) + 1 /\ Len(s) \in Nat /\ l \in Nat /\ n \in Nat
      /\ \A i \in 1..Len(s) : t[i] = s[i]
      /\ t[Len(s) + 1] = e
  BY AppendFacts
<1> HIDE DEF t
<1>2. /\ f \in Seq(S) /\ Len(f) = l + 1
      /\ \A i \in 1..(l + 1) : f[i] = t[n + i]
  <2>1. \A i \in (n + 1)..Len(t) : t[i] \in S
    BY <1>1
  <2>2. /\ f \in Seq(S)
        /\ Len(f) = (IF n + 1 <= Len(t) THEN Len(t) - (n + 1) + 1 ELSE 0)
        /\ \A i \in 1..(Len(t) - (n + 1) + 1) : f[i] = t[n + 1 + i - 1]
    BY <1>1, <2>1, SubSeqProperties
  <2> HIDE DEF f
  <2>3. ASSUME NEW i \in 1..(l + 1) PROVE f[i] = t[n + i]
    <3>1. i \in 1..(Len(t) - (n + 1) + 1) /\ n + 1 + i - 1 = n + i
      BY <1>1
    <3> QED
      BY <2>2, <3>1
  <2> QED
    BY <1>1, <2>2, <2>3
<1>3. /\ g \in Seq(S) /\ Len(g) = l
      /\ \A i \in 1..l : g[i] = s[n + i]
  <2>1. \A i \in (n + 1)..Len(s) : s[i] \in S
    BY <1>1
  <2>2. /\ g \in Seq(S)
        /\ Len(g) = (IF n + 1 <= Len(s) THEN Len(s) - (n + 1) + 1 ELSE 0)
        /\ \A i \in 1..(Len(s) - (n + 1) + 1) : g[i] = s[n + 1 + i - 1]
    BY <1>1, <2>1, SubSeqProperties
  <2> HIDE DEF g
  <2>3. ASSUME NEW i \in 1..l PROVE g[i] = s[n + i]
    <3>1. i \in 1..(Len(s) - (n + 1) + 1) /\ n + 1 + i - 1 = n + i
      BY <1>1
    <3> QED
      BY <2>2, <3>1
  <2> QED
    BY <1>1, <2>2, <2>3
<1> HIDE DEF f, g
<1>4. /\ h \in Seq(S) /\ Len(h) = l + 1
      /\ \A i \in 1..l : h[i] = g[i]
      /\ h[l + 1] = e
  <2>0. g \in Seq(S)
    BY <1>3
  <2>1. /\ h \in Seq(S) /\ Len(h) = Len(g) + 1
        /\ \A i \in DOMAIN g : h[i] = g[i]
        /\ h[Len(g) + 1] = e
    BY <2>0, AppendFacts
  <2> HIDE DEF h, l
  <2>2. DOMAIN g = 1..l
    BY <1>3
  <2> QED
    BY <1>3, <2>1, <2>2
<1> HIDE DEF h
<1>5. ASSUME NEW i \in 1..(l + 1) PROVE f[i] = h[i]
  <2>1. CASE i = l + 1
    <3>1. n + i = Len(s) + 1
      BY <1>1, <2>1
    <3> QED
      BY <1>1, <1>2, <1>4, <2>1, <3>1
  <2>2. CASE i \in 1..l
    <3>1. n + i \in 1..Len(s)
      BY <1>1, <2>2
    <3> QED
      BY <1>1, <1>2, <1>3, <1>4, <2>2, <3>1
  <2> QED
    BY <1>1, <2>1, <2>2
<1>6. f = h
  <2> HIDE DEF l
  <2> QED
    BY <1>2, <1>4, <1>5, SeqEqual
<1> QED
  BY <1>3, <1>6 DEF f, g, h, t

(* q holds the values of F on the elements behind the first n.             *)
Behind(F, s, n, q) ==
  Len(s) = n + Len(q) /\ \A i \in 1..Len(q) : q[i] = F[s[n + i]]

(* The projection of a sequence, split behind its first n elements.        *)
LEMMA ColumnSplit ==
  ASSUME NEW S, NEW R, NEW F \in [S -> R], NEW s \in Seq(S),
         NEW n \in Nat, n <= Len(s), NEW q \in Seq(R), Behind(F, s, n, q)
  PROVE  Column(F, SubSeq(s, 1, n)) \o q = Column(F, s)
<1> DEFINE p == SubSeq(s, 1, n)
           a == Column(F, p)
           b == Column(F, s)
           c == a \o q
<1>0. Len(s) = n + Len(q) /\ \A i \in 1..Len(q) : q[i] = F[s[n + i]]
  BY DEF Behind
<1>1. p \in Seq(S) /\ Len(p) = n /\ \A i \in 1..n : p[i] = s[i]
  BY PrefixOf
<1> HIDE DEF p
<1>2. /\ a \in Seq(R) /\ Len(a) = n
      /\ b \in Seq(R) /\ Len(b) = Len(s)
  BY <1>1, ColumnType
<1>3. /\ \A i \in 1..n : a[i] = F[s[i]]
      /\ \A i \in 1..Len(s) : b[i] = F[s[i]]
  BY <1>1 DEF Column
<1> HIDE DEF a, b
<1>4. /\ c \in Seq(R) /\ Len(c) = n + Len(q)
      /\ \A i \in 1..(n + Len(q)) : c[i] = IF i <= n THEN a[i] ELSE q[i - n]
  <2>1. /\ c \in Seq(R) /\ Len(c) = Len(a) + Len(q)
        /\ \A i \in 1..(Len(a) + Len(q)) :
             c[i] = IF i <= Len(a) THEN a[i] ELSE q[i - Len(a)]
    BY <1>2, ConcatProperties
  <2> HIDE DEF c
  <2> QED
    BY <1>2, <2>1
<1> HIDE DEF c
<1>5. ASSUME NEW i \in 1..Len(c) PROVE c[i] = b[i]
  <2>1. Len(q) \in Nat /\ i \in 1..(n + Len(q)) /\ i \in 1..Len(s)
    BY <1>0, <1>4
  <2>2. CASE i <= n
    BY <1>3, <1>4, <2>1, <2>2, i \in 1..n
  <2>3. CASE ~(i <= n)
    <3>1. PICK j \in 1..Len(q) : j = i - n
      BY <2>1, <2>3
    <3>2. c[i] = q[j] /\ n + j = i
      BY <1>4, <2>1, <2>3, <3>1
    <3> QED
      BY <1>0, <1>3, <2>1, <3>2
  <2> QED
    BY <2>2, <2>3
<1>6. c = b
  BY <1>0, <1>2, <1>4, <1>5, SeqEqual
<1> QED
  BY <1>6 DEF a, b, c, p

CallOf == [x \in Records |-> x.call]

OutcomeOf == [x \in Records |-> Outcome(x)]

LEMMA RecordColumns ==
  /\ CallOf \in [Records -> Calls] /\ OutcomeOf \in [Records -> Results]
  /\ \A r \in Seq(Records) : CallsIn(r) = Column(CallOf, r)
                          /\ OutcomesIn(r) = Column(OutcomeOf, r)
<1>1. CallOf \in [Records -> Calls]
  BY DEF CallOf, Records
<1>2. OutcomeOf \in [Records -> Results]
  BY DEF OutcomeOf, Outcome, Records, Results, Calls
<1>3. ASSUME NEW r \in Seq(Records)
      PROVE  CallsIn(r) = Column(CallOf, r) /\ OutcomesIn(r) = Column(OutcomeOf, r)
  <2>1. \A k \in DOMAIN r : r[k] \in Records
    OBVIOUS
  <2>2. \A k \in DOMAIN r : CallOf[r[k]] = r[k].call /\ OutcomeOf[r[k]] = Outcome(r[k])
    BY <2>1 DEF CallOf, OutcomeOf
  <2> QED
    BY <2>2 DEF CallsIn, OutcomesIn, Column
<1> QED
  BY <1>1, <1>2, <1>3

LEMMA CallsInSplit ==
  ASSUME NEW r \in Seq(Records), NEW n \in Nat, n <= Len(r),
         NEW q \in Seq(Calls), Behind(CallOf, r, n, q)
  PROVE  CallsIn(SubSeq(r, 1, n)) \o q = CallsIn(r)
<1>1. Column(CallOf, SubSeq(r, 1, n)) \o q = Column(CallOf, r)
  BY RecordColumns, ColumnSplit
<1>2. SubSeq(r, 1, n) \in Seq(Records)
  BY PrefixOf
<1> QED
  BY <1>1, <1>2, RecordColumns

LEMMA OutcomesInSplit ==
  ASSUME NEW r \in Seq(Records), NEW n \in Nat, n <= Len(r),
         NEW q \in Seq(Results), Behind(OutcomeOf, r, n, q)
  PROVE  OutcomesIn(SubSeq(r, 1, n)) \o q = OutcomesIn(r)
<1>1. Column(OutcomeOf, SubSeq(r, 1, n)) \o q = Column(OutcomeOf, r)
  BY RecordColumns, ColumnSplit
<1>2. SubSeq(r, 1, n) \in Seq(Records)
  BY PrefixOf
<1> QED
  BY <1>1, <1>2, RecordColumns

(* A run that has just begun has recorded nothing of nothing.              *)
LEMMA TellsNothing ==
  ASSUME NEW s \in Seq(Messages)
  PROVE  Tells(s, Len(s), <<>>, 0)
<1>1. SubSeq(s, Len(s) + 1, Len(s)) = <<>>
  OBVIOUS
<1>2. <<>> \in Seq(Seq(Calls)) /\ <<>> \in Seq(Seq(Results))
  BY EmptySeq
<1>3. FlattenSeq(<<>>) = <<>>
  BY <1>2, FlattenIs
<1>4. Asked(<<>>) = <<>> /\ Answered(<<>>) = <<>>
  <2>1. /\ [i \in DOMAIN <<>> |-> <<>>[i].calls] = <<>>
        /\ [i \in DOMAIN <<>> |-> <<>>[i].results] = <<>>
    OBVIOUS
  <2> QED
    BY <1>3, <2>1 DEF Asked, Answered
<1>5. CallsIn(<<>>) = <<>> /\ OutcomesIn(<<>>) = <<>>
  BY DEF CallsIn, OutcomesIn
<1>6. Turns(<<>>) = 0
  <2>1. {i \in DOMAIN <<>> : <<>>[i].role = "assistant"} = {}
    OBVIOUS
  <2> QED
    BY <2>1, FS_EmptySet DEF Turns
<1> QED
  BY <1>1, <1>4, <1>5, <1>6 DEF Tells

(* A turn without calls is one more round and nothing to record.           *)
LEMMA TellsTurn ==
  ASSUME NEW s \in Seq(Messages), NEW turn \in Messages, turn.role = "assistant",
         turn.calls = <<>>, turn.results = <<>>,
         NEW start \in 0..Len(s), NEW r, NEW rounds, Tells(s, start, r, rounds)
  PROVE  Tells(Append(s, turn), start, r, rounds + 1)
<1> DEFINE new == SubSeq(s, start + 1, Len(s))
           after == SubSeq(Append(s, turn), start + 1, Len(Append(s, turn)))
<1>1. new \in Seq(Messages) /\ after = Append(new, turn)
  BY TailAppend
<1>2. Asked(new) = CallsIn(r) /\ Answered(new) = OutcomesIn(r) /\ Turns(new) = rounds
  BY DEF Tells
<1>3. Tells(Append(s, turn), start, r, rounds + 1) <=>
        /\ Asked(after) = CallsIn(r)
        /\ Answered(after) = OutcomesIn(r)
        /\ Turns(after) = rounds + 1
  BY DEF Tells
<1> HIDE DEF new, after
<1>4. Asked(after) = Asked(new) /\ Answered(after) = Answered(new)
  <2>1. /\ Asked(new) \in Seq(Calls) /\ Asked(after) = Asked(new) \o <<>>
        /\ Answered(new) \in Seq(Results) /\ Answered(after) = Answered(new) \o <<>>
    BY <1>1, AskedAppend
  <2> QED
    BY <2>1, ConcatEmptySeq
<1>5. Turns(after) = rounds + 1
  BY <1>1, <1>2, TurnsAppend
<1> QED
  BY <1>2, <1>3, <1>4, <1>5

(* A whole round adds the records of its calls.                            *)
LEMMA TellsRound ==
  ASSUME NEW s \in Seq(Messages), NEW turn \in Messages, NEW answer \in Messages,
         turn.role = "assistant", turn.results = <<>>,
         answer.role = "user", answer.calls = <<>>,
         NEW start \in 0..Len(s), NEW r \in Seq(Records), NEW n \in Nat, NEW rounds,
         n <= Len(r), Tells(s, start, SubSeq(r, 1, n), rounds),
         Len(r) = n + Len(turn.calls), Len(answer.results) = Len(turn.calls),
         \A i \in 1..Len(turn.calls) :
           turn.calls[i] = r[n + i].call /\ answer.results[i] = Outcome(r[n + i])
  PROVE  Tells(Append(Append(s, turn), answer), start, r, rounds + 1)
<1> DEFINE t == Append(s, turn)
           u == Append(t, answer)
           new == SubSeq(s, start + 1, Len(s))
           mid == SubSeq(t, start + 1, Len(t))
           after == SubSeq(u, start + 1, Len(u))
           r0 == SubSeq(r, 1, n)
<1>1. t \in Seq(Messages) /\ start \in 0..Len(t) /\ start \in Nat
  <2>1. t \in Seq(Messages) /\ Len(t) = Len(s) + 1
    BY AppendFacts
  <2> HIDE DEF t
  <2> QED
    BY <2>1
<1>2. new \in Seq(Messages) /\ mid = Append(new, turn)
  BY TailAppend
<1> HIDE DEF t
<1>3. mid \in Seq(Messages) /\ after = Append(mid, answer)
  BY <1>1, TailAppend
<1>4. Asked(new) = CallsIn(r0) /\ Answered(new) = OutcomesIn(r0) /\ Turns(new) = rounds
  BY DEF Tells
<1>5. Tells(u, start, r, rounds + 1) <=>
        /\ Asked(after) = CallsIn(r)
        /\ Answered(after) = OutcomesIn(r)
        /\ Turns(after) = rounds + 1
  BY DEF Tells
<1> HIDE DEF u, new, mid, after
<1>6. turn.calls \in Seq(Calls) /\ answer.results \in Seq(Results)
  BY DEF Messages
<1>7. /\ Asked(after) = Asked(new) \o turn.calls
      /\ Answered(after) = Answered(new) \o answer.results
  <2>1. /\ Asked(new) \in Seq(Calls) /\ Asked(mid) = Asked(new) \o turn.calls
        /\ Answered(new) \in Seq(Results) /\ Answered(mid) = Answered(new) \o <<>>
    BY <1>2, AskedAppend
  <2>2. Answered(mid) = Answered(new)
    BY <2>1, ConcatEmptySeq
  <2>3. /\ Asked(mid) \in Seq(Calls) /\ Asked(after) = Asked(mid) \o <<>>
        /\ Answered(after) = Answered(mid) \o answer.results
    BY <1>3, AskedAppend
  <2> QED
    BY <2>1, <2>2, <2>3, ConcatEmptySeq
<1>8. Turns(after) = rounds + 1
  <2>1. Turns(new) \in Nat /\ Turns(mid) = Turns(new) + 1
    BY <1>2, TurnsAppend
  <2>2. Turns(after) = Turns(mid) + 0
    BY <1>3, TurnsAppend
  <2> QED
    BY <1>4, <2>1, <2>2
<1>9. /\ Behind(CallOf, r, n, turn.calls)
      /\ Behind(OutcomeOf, r, n, answer.results)
  <2>1. ASSUME NEW i \in 1..Len(turn.calls)
        PROVE  turn.calls[i] = CallOf[r[n + i]] /\ answer.results[i] = OutcomeOf[r[n + i]]
    <3>1. n + i \in 1..Len(r)
      BY <1>6
    <3>2. r[n + i] \in Records
      BY <3>1
    <3> QED
      BY <3>2 DEF CallOf, OutcomeOf
  <2> QED
    BY <2>1 DEF Behind
<1>10. CallsIn(r0) \o turn.calls = CallsIn(r)
  <2>1. PICK q \in Seq(Calls) : q = turn.calls
    BY <1>6
  <2>2. CallsIn(SubSeq(r, 1, n)) \o q = CallsIn(r)
    BY <1>9, <2>1, CallsInSplit
  <2> QED
    BY <2>1, <2>2
<1>11. OutcomesIn(r0) \o answer.results = OutcomesIn(r)
  <2>1. PICK q \in Seq(Results) : q = answer.results
    BY <1>6
  <2>2. OutcomesIn(SubSeq(r, 1, n)) \o q = OutcomesIn(r)
    BY <1>9, <2>1, OutcomesInSplit
  <2> QED
    BY <2>1, <2>2
<1> QED
  BY <1>4, <1>5, <1>7, <1>8, <1>10, <1>11 DEF u, t

LEMMA RecordInit == Init => RecordInv
  BY DEF Init, RecordInv, Handling

(* Between rounds the records are complete.                                *)
LEMMA RecordsAtAsk ==
  ASSUME Inv, RecordInv, pc = "ask"
  PROVE  /\ Settled = history /\ history \in Seq(Messages) /\ blocks = <<>> /\ calls = <<>>
         /\ records \in Seq(Records) /\ Complete = records
         /\ Rounds = iteration /\ iteration \in Nat /\ outcome = "none"
         /\ \E start \in 0..Len(history) : Tells(history, start, records, iteration)
<1>1. /\ history \in Seq(Messages) /\ blocks = <<>> /\ calls = <<>>
      /\ records \in Seq(Records) /\ iteration \in Nat
  BY DEF Inv, TypeOK
<1>2. Settled = history /\ Rounds = iteration /\ outcome = "none"
  BY <1>1 DEF Settled, Rounds, Handling, RecordInv
<1>3. Complete = records
  <2>1. Len(records) - Len(blocks) = Len(records)
    BY <1>1
  <2> QED
    BY <1>1, <2>1, WholePrefix DEF Complete
<1>4. \E start \in 0..Len(Settled) : Tells(Settled, start, Complete, Rounds)
  BY DEF RecordInv
<1> QED
  BY <1>1, <1>2, <1>3, <1>4

(* A step that leaves the records of a run as they are.                    *)
LEMMA RecordQuiet ==
  ASSUME Inv, RecordInv, UNCHANGED <<records, blocks>>,
         \/ pc' = "idle" /\ outcome' \notin {"answered", "provider", "exhausted"}
         \/ UNCHANGED <<pc, outcome, history, calls, iteration>>
         \/ /\ Handling /\ Handling' /\ UNCHANGED <<outcome, history, calls, iteration>>
  PROVE  RecordInv'
<1>1. CASE pc' = "idle" /\ outcome' \notin {"answered", "provider", "exhausted"}
  BY <1>1 DEF RecordInv, Handling
<1>2. CASE UNCHANGED <<pc, outcome, history, calls, iteration>>
  <2>1. UNCHANGED <<Settled, Complete, Rounds, Handling>>
    BY <1>2 DEF Settled, Complete, Rounds, Handling
  <2> QED
    BY <1>2, <2>1 DEF RecordInv
<1>3. CASE Handling /\ Handling' /\ UNCHANGED <<outcome, history, calls, iteration>>
  <2>1. /\ UNCHANGED <<Settled, Complete, Rounds>>
        /\ pc # "idle" /\ pc' # "idle"
    BY <1>3 DEF Settled, Complete, Rounds, Handling
  <2> QED
    BY <1>3, <2>1 DEF RecordInv
<1> QED
  BY <1>1, <1>2, <1>3

LEMMA RecordRun ==
  ASSUME Inv', RecordInv, NEW ids, NEW registered, NEW capable, NEW messages,
         Inv, Run(ids, registered, capable, messages)
  PROVE  RecordInv'
<1>1. CASE outcome' = "refused" /\ UNCHANGED <<pc, loop>>
  BY <1>1, RecordQuiet DEF Run, loop
<1>2. CASE /\ pc' = "ask" /\ iteration' = 0 /\ history' = messages
           /\ calls' = <<>> /\ blocks' = <<>> /\ records' = <<>> /\ outcome' = "none"
  <2>1. messages \in Seq(Messages)
    BY <1>2 DEF Inv, TypeOK
  <2>2. Settled' = messages /\ Rounds' = 0 /\ Complete' = <<>>
    BY <1>2 DEF Settled, Rounds, Handling, Complete
  <2>3. Tells(messages, Len(messages), <<>>, 0) /\ Len(messages) \in 0..Len(messages)
    BY <2>1, TellsNothing
  <2>4. \E start \in 0..Len(Settled') : Tells(Settled', start, Complete', Rounds')
    BY <2>2, <2>3
  <2> QED
    BY <1>2, <2>4 DEF RecordInv, Handling
<1> QED
  BY <1>1, <1>2 DEF Run

LEMMA RecordReply ==
  ASSUME Inv, RecordInv, NEW text \in BOOLEAN, NEW batch \in Batches \cup {<<>>},
         Reply(text, batch)
  PROVE  RecordInv'
<1> DEFINE turn == AssistantMessage(text, batch)
<1>1. /\ pc = "ask" /\ iteration' = iteration + 1
      /\ history' = Append(history, turn)
      /\ UNCHANGED <<blocks, records>>
  BY DEF Reply, Turn
<1>2. /\ Settled = history /\ history \in Seq(Messages) /\ blocks = <<>> /\ calls = <<>>
      /\ records \in Seq(Records) /\ Complete = records
      /\ Rounds = iteration /\ iteration \in Nat /\ outcome = "none"
      /\ \E start \in 0..Len(history) : Tells(history, start, records, iteration)
  BY <1>1, RecordsAtAsk
<1>3. PICK start \in 0..Len(history) : Tells(history, start, records, iteration)
  BY <1>2
<1>4. /\ turn \in Messages /\ turn.role = "assistant"
      /\ turn.calls = batch /\ turn.results = <<>>
  <2>1. <<>> \in Seq(Calls) /\ <<>> \in Seq(Results)
    BY EmptySeq
  <2>2. batch \in Seq(Calls)
    BY <2>1, BatchesAssumption
  <2> QED
    BY <2>1, <2>2 DEF AssistantMessage, Messages
<1> HIDE DEF turn
<1>5. Len(history') = Len(history) + 1 /\ Len(history) \in Nat
  BY <1>1, <1>2, <1>4, AppendFacts
<1>6. CASE batch = <<>>
  <2>1. outcome' = "answered" /\ pc' = "idle"
    BY <1>6 DEF Reply, Return
  <2>2. Tells(history', start, records, iteration + 1)
    BY <1>1, <1>2, <1>3, <1>4, <1>6, TellsTurn
  <2>3. start \in 0..Len(history') /\ iteration' - 0 = iteration + 1
    BY <1>1, <1>2, <1>5
  <2>4. \E s \in 0..Len(history') :
          Tells(history', s, records', iteration' - (IF outcome' = "provider" THEN 1 ELSE 0))
    BY <1>1, <2>1, <2>2, <2>3
  <2> QED
    BY <1>1, <1>2, <2>1, <2>4 DEF RecordInv, Handling
<1>7. CASE batch # <<>>
  <2>1. calls' = batch /\ pc' = "request" /\ outcome' = outcome
    BY <1>7 DEF Reply
  <2>2. Settled' = history
    <3>1. SubSeq(history', 1, Len(history)) = history /\ Len(history') - 1 = Len(history)
      BY <1>1, <1>2, <1>4, <1>5, FrontOf
    <3> QED
      BY <1>7, <2>1, <3>1 DEF Settled
  <2>3. Rounds' = iteration /\ Complete' = records
    BY <1>1, <1>2, <2>1 DEF Rounds, Handling, Complete
  <2> QED
    BY <1>1, <1>2, <1>3, <2>1, <2>2, <2>3 DEF RecordInv, Handling
<1> QED
  BY <1>6, <1>7

(* The budget ends a run with what its rounds have recorded.               *)
LEMMA RecordEnd ==
  ASSUME Inv, RecordInv, ProviderFails \/ Exhaust
  PROVE  RecordInv'
<1>1. pc = "ask" /\ pc' = "idle" /\ UNCHANGED <<history, blocks, records>>
  BY DEF ProviderFails, Exhaust, Return, loop
<1>2. /\ iteration \in Nat /\ blocks = <<>>
      /\ \E start \in 0..Len(history) : Tells(history, start, records, iteration)
  BY <1>1, RecordsAtAsk
<1>3. iteration' - (IF outcome' = "provider" THEN 1 ELSE 0) = iteration
  BY <1>2 DEF ProviderFails, Exhaust, Return, loop
<1> QED
  BY <1>1, <1>2, <1>3 DEF RecordInv, Handling

(* A call settled is recorded and answered; the last of a round joins the  *)
(* round to the history.                                                   *)
LEMMA RecordSettle ==
  ASSUME Inv, RecordInv, Handling, NEW executed \in BOOLEAN, NEW success \in BOOLEAN,
         Settle(executed, success), UNCHANGED <<iteration, outcome>>
  PROVE  RecordInv'
<1> DEFINE record == [call |-> Current, executed |-> executed, success |-> success]
           block == Block(Current, success)
           answered == Append(blocks, block)
           n == Len(records) - Len(blocks)
           turn == history[Len(history)]
<1>1. /\ TypeOK /\ InRound /\ calls \in Seq(Calls) /\ blocks \in Seq(Results)
      /\ records \in Seq(Records) /\ pc # "idle" /\ outcome = "none"
      /\ Settled \in Seq(Messages) /\ Append(Settled, turn) = history
      /\ iteration \in Nat /\ history \in Seq(Messages)
  BY SettledType DEF Inv, TypeOK, Handling, RecordInv
<1>2. /\ Current \in Calls /\ Current = calls[Len(blocks) + 1]
      /\ Len(blocks) < Len(calls) /\ Len(blocks) \in Nat /\ Len(calls) \in Nat
      /\ Len(records) \in Nat /\ n \in Nat /\ n <= Len(records)
      /\ n + Len(blocks) = Len(records)
  <2>1. Len(blocks) < Len(calls) /\ Len(blocks) \in Nat /\ Len(calls) \in Nat
        /\ Len(records) \in Nat /\ Len(blocks) <= Len(records)
    BY <1>1 DEF InRound, RecordInv
  <2> QED
    BY <1>1, <2>1, SettleEffect DEF Current
<1>3. /\ block \in Results /\ block = Outcome(record)
      /\ record \in Records /\ record.call = Current
  BY <1>2 DEF Block, Outcome, Records, Results, Calls
<1>4. \A i \in 1..Len(blocks) :
        records[n + i].call = calls[i] /\ blocks[i] = Outcome(records[n + i])
  BY <1>1 DEF RecordInv
<1>5. PICK start \in 0..Len(Settled) :
        Tells(Settled, start, SubSeq(records, 1, n), iteration - 1)
  BY <1>1 DEF RecordInv, Complete, Rounds
<1>6. records' = Append(records, record)
  BY DEF Settle
<1> HIDE DEF record, block, n
<1>7. /\ answered \in Seq(Results) /\ Len(answered) = Len(blocks) + 1
      /\ \A i \in 1..Len(blocks) : answered[i] = blocks[i]
      /\ answered[Len(blocks) + 1] = block
  BY <1>1, <1>2, <1>3, AppendFacts
<1>8. /\ records' \in Seq(Records) /\ Len(records') = Len(records) + 1
      /\ \A k \in 1..Len(records) : records'[k] = records[k]
      /\ records'[Len(records) + 1] = record
  BY <1>1, <1>2, <1>3, <1>6, AppendFacts
<1> HIDE DEF answered
<1>9. ASSUME NEW i \in 1..Len(answered)
      PROVE  records'[n + i].call = calls[i] /\ answered[i] = Outcome(records'[n + i])
  <2>1. CASE i \in 1..Len(blocks)
    <3>1. n + i \in 1..Len(records)
      BY <1>2, <2>1
    <3> QED
      BY <1>4, <1>7, <1>8, <2>1, <3>1
  <2>2. CASE i = Len(blocks) + 1
    <3>1. n + i = Len(records) + 1
      BY <1>2, <2>2
    <3> QED
      BY <1>2, <1>3, <1>7, <1>8, <2>2, <3>1
  <2> QED
    BY <1>2, <1>7, <2>1, <2>2
<1>10. /\ n + Len(answered) = Len(records') /\ n <= Len(records')
       /\ SubSeq(records', 1, n) = SubSeq(records, 1, n)
  <2>1. SubSeq(Append(records, record), 1, n) = SubSeq(records, 1, n)
    BY <1>1, <1>2, <1>3, PrefixAppend
  <2>2. Len(answered) = Len(blocks) + 1 /\ Len(records') = Len(records) + 1
    BY <1>7, <1>8
  <2>3. n + Len(answered) = Len(records') /\ n <= Len(records')
    BY <1>2, <2>2
  <2> QED
    BY <1>6, <2>1, <2>3
<1>11. CASE Len(answered) # Len(calls)
  <2>1. pc' = "request" /\ blocks' = answered /\ UNCHANGED <<history, calls>>
    BY <1>11 DEF Settle, answered, block
  <2>2. Len(records') - Len(blocks') = n
    <3>1. Len(answered) = Len(blocks) + 1 /\ Len(records') = Len(records) + 1
      BY <1>7, <1>8
    <3>2. Len(records') - Len(answered) = n
      BY <1>2, <3>1
    <3> QED
      BY <2>1, <3>2
  <2>3. Settled' = Settled /\ Complete' = SubSeq(records, 1, n) /\ Rounds' = iteration - 1
    BY <1>10, <2>1, <2>2 DEF Settled, Complete, Rounds, Handling
  <2>4. Len(blocks') <= Len(records') /\ DOMAIN blocks' = 1..Len(answered)
    BY <1>2, <1>7, <1>10, <2>1
  <2>5. \A i \in DOMAIN blocks' :
          LET k == Len(records') - Len(blocks') + i IN
          records'[k].call = calls'[i] /\ blocks'[i] = Outcome(records'[k])
    BY <1>9, <2>1, <2>2, <2>4
  <2>6. \E s \in 0..Len(Settled') : Tells(Settled', s, Complete', Rounds')
    BY <1>5, <2>3
  <2> QED
    BY <1>1, <2>1, <2>4, <2>5, <2>6 DEF RecordInv, Handling
<1>12. CASE Len(answered) = Len(calls)
  <2> DEFINE answer == ToolResultsMessage(answered)
  <2>1. /\ pc' = "ask" /\ calls' = <<>> /\ blocks' = <<>>
        /\ history' = Append(history, answer)
    BY <1>12 DEF Settle, answered, block
  <2>2. /\ answer \in Messages /\ answer.role = "user" /\ answer.calls = <<>>
        /\ answer.results = answered
    <3>1. <<>> \in Seq(Calls)
      BY EmptySeq
    <3> QED
      BY <1>7, <3>1 DEF ToolResultsMessage, Messages
  <2> HIDE DEF answer
  <2>3. /\ turn \in Messages /\ turn.role = "assistant" /\ turn.calls = calls
        /\ turn.results = <<>>
    BY <1>1 DEF InRound
  <2> HIDE DEF turn
  <2>4. Tells(Settled, start, SubSeq(records', 1, n), iteration - 1)
    BY <1>5, <1>10
  <2>5. Len(records') = n + Len(turn.calls) /\ Len(answer.results) = Len(turn.calls)
    BY <1>10, <1>12, <2>2, <2>3
  <2>6. \A i \in 1..Len(turn.calls) :
          turn.calls[i] = records'[n + i].call /\ answer.results[i] = Outcome(records'[n + i])
    BY <1>9, <1>12, <2>2, <2>3
  <2>7. Tells(Append(Append(Settled, turn), answer), start, records', iteration - 1 + 1)
    BY <1>1, <1>2, <1>8, <1>10, <2>2, <2>3, <2>4, <2>5, <2>6, TellsRound
  <2>8. Settled' = history' /\ Rounds' = iteration' /\ Complete' = records'
    <3>1. Len(records') - Len(blocks') = Len(records')
      BY <1>2, <1>8, <2>1
    <3>2. Complete' = records'
      BY <1>8, <3>1, WholePrefix DEF Complete
    <3> QED
      BY <2>1, <3>2 DEF Settled, Rounds, Handling
  <2>9. Tells(Settled', start, Complete', Rounds')
    BY <1>1, <2>1, <2>7, <2>8
  <2>10. start \in 0..Len(Settled')
    <3>1. Append(Settled, turn) \in Seq(Messages) /\ Len(history) = Len(Settled) + 1
      BY <1>1, <2>3, AppendFacts
    <3>2. Len(history') = Len(history) + 1
      BY <1>1, <2>1, <2>2, AppendFacts
    <3> QED
      BY <1>1, <2>8, <3>1, <3>2
  <2> QED
    BY <1>1, <2>1, <2>9, <2>10 DEF RecordInv, Handling
<1> QED
  BY <1>11, <1>12

LEMMA RecordStep ==
  ASSUME Inv, Inv', RecordInv, [Next]_vars
  PROVE  RecordInv'
<1>1. ASSUME NEW ids, NEW registered, NEW capable, NEW messages,
             Run(ids, registered, capable, messages)
      PROVE  RecordInv'
  BY <1>1, RecordRun
<1>2. ASSUME NEW text \in BOOLEAN, NEW batch \in Batches \cup {<<>>}, Reply(text, batch)
      PROVE  RecordInv'
  BY <1>2, RecordReply
<1>3. CASE ProviderFails \/ Exhaust
  BY <1>3, RecordEnd
<1>4. CASE ProviderRaises \/ HookRaises \/ ToolRaises
  <2>1. pc' = "idle" /\ outcome' = "raised" /\ UNCHANGED <<records, blocks>>
    BY <1>4 DEF ProviderRaises, HookRaises, ToolRaises, Raise, loop
  <2> QED
    BY <2>1, RecordQuiet
<1>5. CASE Request \/ Approve
  <2>1. Handling /\ Handling' /\ UNCHANGED <<records, blocks, outcome, history, calls, iteration>>
    BY <1>5 DEF Request, Approve, loop, Handling
  <2> QED
    BY <2>1, RecordQuiet
<1>6. CASE Reject
  BY <1>6, RecordSettle DEF Reject, Handling
<1>7. ASSUME NEW success \in BOOLEAN, Execute(success)
      PROVE  RecordInv'
  BY <1>7, RecordSettle DEF Execute, Handling
<1>8. CASE UNCHANGED vars
  <2>1. UNCHANGED <<records, blocks, pc, outcome, history, calls, iteration>>
    BY <1>8 DEF vars, loop
  <2> QED
    BY <2>1, RecordQuiet
<1> QED
  BY <1>1, <1>2, <1>3, <1>4, <1>5, <1>6, <1>7, <1>8 DEF Next, Step

LEMMA RecordsTell ==
  ASSUME Inv, RecordInv
  PROVE  RecordsTellHistory
<1>1. SUFFICES ASSUME pc = "ask" \/
                        (pc = "idle" /\ outcome \in {"answered", "provider", "exhausted"})
               PROVE  \E start \in 0..Len(history) :
                        Tells(history, start, records,
                              iteration - (IF outcome = "provider" THEN 1 ELSE 0))
  BY DEF RecordsTellHistory, Tells, Asked, Answered, Turns, CallsIn, OutcomesIn, Outcome
<1>2. CASE pc = "ask"
  <2>1. /\ iteration - (IF outcome = "provider" THEN 1 ELSE 0) = iteration
        /\ \E start \in 0..Len(history) : Tells(history, start, records, iteration)
    BY <1>2, RecordsAtAsk
  <2> QED
    BY <2>1
<1>3. CASE pc = "idle" /\ outcome \in {"answered", "provider", "exhausted"}
  BY <1>3 DEF RecordInv
<1> QED
  BY <1>1, <1>2, <1>3

(* A run's records are, call for call and outcome for outcome, what its    *)
(* messages tell the model, over every round, refusal and failure.         *)
THEOREM RecordsAlwaysTell == Spec => []RecordsTellHistory
  BY InvAlways, RecordInit, RecordStep, RecordsTell, PTL DEF Spec

---------------------------------------------------------------------------
(* Why a run ends.  RunEnds itself needs fairness and stays with TLC; here *)
(* every step inside run() lowers three natural numbers, the earlier ones  *)
(* first: rounds the budget leaves, calls of the round without an answer,  *)
(* steps of the call being handled.                                        *)

RoundsLeft == MaxIterations - iteration
CallsLeft == Len(calls) - Len(blocks)
CallStepsLeft ==
  CASE pc = "request" -> 3
    [] pc = "vet" -> 2
    [] pc \in {"execute", "ask"} -> 1
    [] OTHER -> 0

Descends ==
  \/ RoundsLeft' < RoundsLeft
  \/ RoundsLeft' = RoundsLeft /\ CallsLeft' < CallsLeft
  \/ RoundsLeft' = RoundsLeft /\ CallsLeft' = CallsLeft /\ CallStepsLeft' < CallStepsLeft

(* The numbers are natural ones: the budget is never exceeded, and no round*)
(* holds more answers than calls.                                          *)
BudgetIsKept == iteration <= MaxIterations /\ (pc # "idle" => CallsLeft >= 0)

(* No step inside run() leaves them as they were.                          *)
RunsDescend == [][pc # "idle" => Descends]_vars

(* Settling a call leaves one call less.                                   *)
LEMMA SettleDescends ==
  ASSUME Inv, Handling, NEW executed, NEW success,
         Settle(executed, success), UNCHANGED iteration
  PROVE  Descends
<1> DEFINE answered == Append(blocks, Block(Current, success))
<1>1. blocks \in Seq(Results) /\ calls \in Seq(Calls) /\ Len(blocks) < Len(calls)
  BY DEF Inv, TypeOK, InRound
<1>2. Len(blocks) \in Nat /\ Len(calls) \in Nat
  BY <1>1
<1>3. \/ calls' = <<>> /\ blocks' = <<>>
      \/ calls' = calls /\ blocks' = answered
  BY DEF Settle
<1>4. Len(answered) = Len(blocks) + 1
  BY <1>1
<1> HIDE DEF answered
<1>5. CallsLeft' < CallsLeft
  <2>1. CASE calls' = <<>> /\ blocks' = <<>>
    <3>1. Len(calls') = 0 /\ Len(blocks') = 0
      BY <2>1
    <3> QED
      BY <1>1, <1>2, <3>1 DEF CallsLeft
  <2>2. CASE calls' = calls /\ blocks' = answered
    <3>1. Len(calls') = Len(calls) /\ Len(blocks') = Len(blocks) + 1
      BY <2>2, <1>4
    <3> QED
      BY <1>1, <1>2, <3>1 DEF CallsLeft
  <2> QED
    BY <1>3, <2>1, <2>2
<1>6. RoundsLeft' = RoundsLeft
  BY DEF RoundsLeft
<1> QED
  BY <1>5, <1>6 DEF Descends

(* A provider round, whatever comes of it, is one of the budget's.         *)
LEMMA RoundDescends ==
  ASSUME Inv, iteration' = iteration + 1
  PROVE  Descends
<1>1. iteration \in Nat /\ MaxIterations \in Nat
  BY IterationsAssumption DEF Inv, TypeOK
<1>2. MaxIterations - (iteration + 1) < MaxIterations - iteration
  BY <1>1
<1>3. RoundsLeft' < RoundsLeft
  BY <1>2 DEF RoundsLeft
<1> QED
  BY <1>3 DEF Descends

LEMMA StepDescends ==
  ASSUME Inv, Step
  PROVE  Descends
<1>1. CASE \E text \in BOOLEAN, batch \in Batches \cup {<<>>} : Reply(text, batch)
  BY <1>1, RoundDescends DEF Reply
<1>2. CASE ProviderFails
  BY <1>2, RoundDescends DEF ProviderFails
<1>3. CASE ProviderRaises
  BY <1>3, RoundDescends DEF ProviderRaises
<1>4. CASE Exhaust \/ Request \/ Approve \/ HookRaises \/ ToolRaises
  <2>1. UNCHANGED <<iteration, calls, blocks>>
    BY <1>4 DEF Exhaust, Request, Approve, HookRaises, ToolRaises, loop
  <2>2. RoundsLeft' = RoundsLeft /\ CallsLeft' = CallsLeft
    BY <2>1 DEF RoundsLeft, CallsLeft
  <2>3. \/ pc = "ask" /\ pc' = "idle"
        \/ pc = "request" /\ pc' = "vet"
        \/ pc = "vet" /\ pc' = "execute"
        \/ pc \in {"vet", "execute"} /\ pc' = "idle"
    BY <1>4 DEF Exhaust, Request, Approve, HookRaises, ToolRaises, Return, Raise
  <2>4. CallStepsLeft' < CallStepsLeft
    BY <2>3 DEF CallStepsLeft
  <2> QED
    BY <2>2, <2>4 DEF Descends
<1>5. CASE Reject
  <2>1. Settle(FALSE, FALSE) /\ UNCHANGED iteration /\ Handling
    BY <1>5 DEF Reject, Handling
  <2> QED
    BY <2>1, SettleDescends
<1>6. ASSUME NEW success \in BOOLEAN, Execute(success)
      PROVE  Descends
  <2>1. Settle(TRUE, success) /\ UNCHANGED iteration /\ Handling
    BY <1>6 DEF Execute, Handling
  <2> QED
    BY <2>1, SettleDescends
<1> QED
  BY <1>1, <1>2, <1>3, <1>4, <1>5, <1>6 DEF Step

(* No run goes on for ever: a round is never begun beyond the budget, no   *)
(* call is answered twice, and nothing inside run() goes back.             *)
THEOREM RunsAreFinite == Spec => []BudgetIsKept /\ RunsDescend
<1>1. Inv => BudgetIsKept
  <2> SUFFICES ASSUME Inv PROVE BudgetIsKept
    OBVIOUS
  <2>1. iteration <= MaxIterations
    BY IterationsAssumption DEF Inv, TypeOK
  <2>2. calls \in Seq(Calls) /\ blocks \in Seq(Results)
    BY DEF Inv, TypeOK
  <2>3. Len(calls) \in Nat /\ Len(blocks) \in Nat
    BY <2>2
  <2>4. CASE Handling
    <3>1. Len(blocks) < Len(calls)
      BY <2>4 DEF Inv, InRound
    <3> QED
      BY <2>1, <2>3, <3>1 DEF BudgetIsKept, CallsLeft
  <2>5. CASE pc = "ask"
    <3>1. Len(calls) = 0 /\ Len(blocks) = 0
      BY <2>5 DEF Inv
    <3> QED
      BY <2>1, <3>1 DEF BudgetIsKept, CallsLeft
  <2>6. CASE pc = "idle"
    BY <2>1, <2>6 DEF BudgetIsKept
  <2> QED
    BY <2>4, <2>5, <2>6 DEF Handling, Inv, TypeOK
<1>2. Inv /\ [Next]_vars => [pc # "idle" => Descends]_vars
  <2>1. ASSUME Next, pc # "idle" PROVE Step
    BY <2>1 DEF Next, Run
  <2> QED
    BY <2>1, StepDescends
<1> QED
  BY <1>1, <1>2, InvAlways, PTL DEF Spec, RunsDescend
=============================================================================
