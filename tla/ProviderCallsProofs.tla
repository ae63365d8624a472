------------------------ MODULE ProviderCallsProofs ------------------------
(***************************************************************************)
(* What an adapter promises of one call, for every retry limit and batch   *)
(* size.  The tests an adapter makes of a reply are sequences of           *)
(* <<failed, error>> pairs, of which FirstFailing picks the first that     *)
(* failed; the first part says what such a sequence that finds nothing     *)
(* wrong tells about the reply, the second that Fits leaves one item for   *)
(* every text, the third that the call keeps count of its attempts.        *)
(***************************************************************************)
EXTENDS ProviderCalls, SequenceTheorems, FiniteSetTheorems,
        WellFoundedInduction, TLAPS

ReplyErrors == {"AuthenticationError", "ProviderError", "ToolCallingError",
                "IndexError", "ResponseError", "EmbeddingError"}

ConfigErrors == {"RegistrationError", "ConfigurationError"}

Checks(E) == Seq(BOOLEAN \X E)

(* None of the tests failed.                                               *)
Quiet(checks) == \A i \in DOMAIN checks : ~checks[i][1]

---------------------------------------------------------------------------
LEMMA Least ==
  ASSUME NEW S \in SUBSET Nat, S # {}
  PROVE  \E i \in S : \A j \in S : i <= j
<1> DEFINE below == OpToRel(<, Nat)
<1>1. IsWellFoundedOn(below, Nat)
  BY NatLessThanWellFounded
<1>2. PICK i \in S : \A j \in S : ~(<<j, i>> \in below)
  <2> HIDE DEF below
  <2> QED BY <1>1, WFMin
<1>3. \A j \in S : <<j, i>> \in Nat \X Nat /\ ~(j < i)
  BY <1>2 DEF OpToRel
<1>4. \A j \in S : i <= j
  <2> HIDE DEF below
  <2> TAKE j \in S
  <2>1. i \in Nat /\ j \in Nat /\ ~(j < i)
    BY <1>2, <1>3
  <2> QED
    BY <2>1
<1> QED
  BY <1>2, <1>4

LEMMA FirstFailingFacts ==
  ASSUME NEW E, "none" \notin E, NEW c \in Checks(E)
  PROVE  /\ FirstFailing(c) \in E \cup {"none"}
         /\ FirstFailing(c) = "none" => Quiet(c)
<1> DEFINE failing == {i \in DOMAIN c : c[i][1]}
<1>1. DOMAIN c = 1..Len(c) /\ Len(c) \in Nat
  BY DEF Checks
<1>2. CASE failing = {}
  BY <1>2 DEF FirstFailing, Quiet
<1>3. CASE failing # {}
  <2> DEFINE first == CHOOSE i \in failing : \A j \in failing : i <= j
  <2>1. failing \in SUBSET Nat
    BY <1>1
  <2>2. \E i \in failing : \A j \in failing : i <= j
    <3> HIDE DEF failing
    <3> QED
      BY <2>1, <1>3, Least
  <2>3. first \in failing
    <3> HIDE DEF failing
    <3> QED
      BY <2>2
  <2>4. FirstFailing(c) = c[first][2]
    BY <1>3 DEF FirstFailing
  <2>5. first \in DOMAIN c
    BY <2>3
  <2>6. c[first] \in BOOLEAN \X E
    <3> HIDE DEF first
    <3> QED
      BY <2>5, <1>1 DEF Checks
  <2>7. c[first][2] \in E
    BY <2>6
  <2> QED
    BY <2>4, <2>7
<1> QED
  BY <1>2, <1>3

LEMMA JoinFacts ==
  ASSUME NEW E, NEW s \in Checks(E), NEW t \in Checks(E)
  PROVE  /\ s \o t \in Checks(E)
         /\ Quiet(s \o t) => Quiet(s) /\ Quiet(t)
<1>1. /\ s \o t \in Seq(BOOLEAN \X E)
      /\ Len(s \o t) = Len(s) + Len(t)
      /\ \A i \in 1..(Len(s) + Len(t)) :
           (s \o t)[i] = IF i <= Len(s) THEN s[i] ELSE t[i - Len(s)]
  BY ConcatProperties DEF Checks
<1>2. /\ Len(s) \in Nat /\ DOMAIN s = 1..Len(s)
      /\ Len(t) \in Nat /\ DOMAIN t = 1..Len(t)
      /\ DOMAIN (s \o t) = 1..(Len(s) + Len(t))
  BY <1>1 DEF Checks
<1>3. ASSUME Quiet(s \o t), NEW i \in DOMAIN s
      PROVE  ~s[i][1]
  <2>1. i \in DOMAIN (s \o t) /\ (s \o t)[i] = s[i]
    BY <1>1, <1>2
  <2> QED
    BY <2>1, <1>3 DEF Quiet
<1>4. ASSUME Quiet(s \o t), NEW i \in DOMAIN t
      PROVE  ~t[i][1]
  <2>1. i + Len(s) \in DOMAIN (s \o t) /\ (s \o t)[i + Len(s)] = t[i]
    BY <1>1, <1>2
  <2> QED
    BY <2>1, <1>4 DEF Quiet
<1> QED
  BY <1>1, <1>3, <1>4 DEF Quiet, Checks

LEMMA OneCheck ==
  ASSUME NEW E, NEW b \in BOOLEAN, NEW e \in E
  PROVE  /\ << <<b, e>> >> \in Checks(E)
         /\ Quiet(<< <<b, e>> >>) => ~b
  BY DEF Checks, Quiet

LEMMA TwoChecks ==
  ASSUME NEW E, NEW a \in BOOLEAN, NEW d \in E, NEW b \in BOOLEAN, NEW e \in E
  PROVE  /\ << <<a, d>>, <<b, e>> >> \in Checks(E)
         /\ Quiet(<< <<a, d>>, <<b, e>> >>) => ~a /\ ~b
  BY DEF Checks, Quiet

LEMMA ThreeChecks ==
  ASSUME NEW E, NEW a \in BOOLEAN, NEW d \in E, NEW b \in BOOLEAN, NEW e \in E,
         NEW g \in BOOLEAN, NEW h \in E
  PROVE  /\ << <<a, d>>, <<b, e>>, <<g, h>> >> \in Checks(E)
         /\ Quiet(<< <<a, d>>, <<b, e>>, <<g, h>> >>) => ~a /\ ~b /\ ~g
  BY DEF Checks, Quiet

---------------------------------------------------------------------------
LEMMA ReplyVerdict ==
  ASSUME NEW c \in Checks(ReplyErrors)
  PROVE  /\ FirstFailing(c) \in ReplyErrors \cup {"none"}
         /\ FirstFailing(c) = "none" => Quiet(c)
<1>1. "none" \notin ReplyErrors
  BY DEF ReplyErrors
<1> QED
  BY <1>1, FirstFailingFacts

(* What it says of a reply that an adapter finds nothing wrong with it.    *)
Found(p, r) == Verdict(p, r) \in ReplyErrors \cup {"none"}

LEMMA StatusFacts ==
  ASSUME NEW denials, NEW r \in ChatReplies
  PROVE  StatusChecks(denials, r) \in Checks(ReplyErrors)
<1>1. (r.status \in denials) \in BOOLEAN /\ (r.status # "ok") \in BOOLEAN
  OBVIOUS
<1>2. "AuthenticationError" \in ReplyErrors /\ "ProviderError" \in ReplyErrors
  BY DEF ReplyErrors
<1> QED
  BY <1>1, <1>2, TwoChecks DEF StatusChecks

LEMMA UnreadableFacts ==
  ASSUME NEW r \in ChatReplies
  PROVE  Unreadable(r) \in Checks(ReplyErrors)
<1>1. (r.body = "unreadable") \in BOOLEAN /\ "ProviderError" \in ReplyErrors
  BY DEF ReplyErrors
<1> QED
  BY <1>1, OneCheck DEF Unreadable

LEMMA ChatFacts ==
  ASSUME NEW r \in ChatReplies
  PROVE  /\ ChatChecks("ResponseError", r) \in Checks(ReplyErrors)
         /\ Quiet(ChatChecks("ResponseError", r)) =>
              /\ r.toolCall \in {"none", "sound"}
              /\ r.text \/ r.toolCall = "sound"
<1>1. /\ (r.toolCall = "broken") \in BOOLEAN /\ (r.toolCall = "blank") \in BOOLEAN
      /\ (~r.text /\ r.toolCall = "none") \in BOOLEAN
  OBVIOUS
<1>2. "ResponseError" \in ReplyErrors /\ "ToolCallingError" \in ReplyErrors
  BY DEF ReplyErrors
<1>3. r.toolCall \in {"none", "sound", "blank", "broken"}
  BY DEF ChatReplies
<1>4. /\ ChatChecks("ResponseError", r) \in Checks(ReplyErrors)
      /\ Quiet(ChatChecks("ResponseError", r)) =>
           /\ ~(r.toolCall = "broken") /\ ~(r.toolCall = "blank")
           /\ ~(~r.text /\ r.toolCall = "none")
  BY <1>1, <1>2, ThreeChecks DEF ChatChecks
<1> QED
  BY <1>3, <1>4

(* A turn made of the answer can be sent again.                            *)
Usable(answer) ==
  /\ answer.text \/ answer.toolCall = "sound"
  /\ answer.toolCall \in {"none", "sound"}

LEMMA ClaudeFacts ==
  ASSUME NEW r \in ChatReplies
  PROVE  /\ Found("claude", r)
         /\ Verdict("claude", r) = "none" => Usable(Answer("claude", r))
<1> DEFINE status == StatusChecks({"unauthorized"}, r)
           last == << <<r.toolCall = "blank", "ToolCallingError">>,
                      <<~r.text /\ r.toolCall = "none", "ResponseError">> >>
<1>1. status \in Checks(ReplyErrors) /\ Unreadable(r) \in Checks(ReplyErrors)
  BY StatusFacts, UnreadableFacts
<1>2. /\ last \in Checks(ReplyErrors)
      /\ Quiet(last) => ~(r.toolCall = "blank") /\ ~(~r.text /\ r.toolCall = "none")
  <2>1. /\ (r.toolCall = "blank") \in BOOLEAN
        /\ (~r.text /\ r.toolCall = "none") \in BOOLEAN
    OBVIOUS
  <2>2. "ResponseError" \in ReplyErrors /\ "ToolCallingError" \in ReplyErrors
    BY DEF ReplyErrors
  <2> QED
    BY <2>1, <2>2, TwoChecks
<1>3. ClaudeChecks(r) = (status \o Unreadable(r)) \o last
  BY DEF ClaudeChecks
<1> HIDE DEF status, last
<1>4. status \o Unreadable(r) \in Checks(ReplyErrors)
  BY <1>1, JoinFacts
<1>5. /\ ClaudeChecks(r) \in Checks(ReplyErrors)
      /\ Quiet(ClaudeChecks(r)) => Quiet(last)
  BY <1>2, <1>3, <1>4, JoinFacts
<1>6. Verdict("claude", r) = FirstFailing(ClaudeChecks(r))
  BY DEF Verdict
<1>7. /\ Found("claude", r)
      /\ Verdict("claude", r) = "none" => Quiet(ClaudeChecks(r))
  BY <1>5, <1>6, ReplyVerdict DEF Found
<1>8. r.toolCall \in {"none", "sound", "blank", "broken"}
  BY DEF ChatReplies
<1>9. Answer("claude", r) =
        [text |-> r.text,
         toolCall |-> IF r.toolCall = "broken" THEN "sound" ELSE r.toolCall]
  BY DEF Answer
<1> QED
  BY <1>2, <1>5, <1>7, <1>8, <1>9 DEF Usable

LEMMA OpenAIFacts ==
  ASSUME NEW r \in ChatReplies
  PROVE  /\ Found("openai", r)
         /\ Verdict("openai", r) = "none" => Usable(Answer("openai", r))
<1> DEFINE status == StatusChecks({"unauthorized"}, r)
           choice == << <<~r.choice, "IndexError">> >>
           chat == ChatChecks("ResponseError", r)
<1>1. status \in Checks(ReplyErrors) /\ Unreadable(r) \in Checks(ReplyErrors)
  BY StatusFacts, UnreadableFacts
<1>2. choice \in Checks(ReplyErrors)
  <2>1. (~r.choice) \in BOOLEAN /\ "IndexError" \in ReplyErrors
    BY DEF ReplyErrors
  <2> QED
    BY <2>1, OneCheck
<1>3. /\ chat \in Checks(ReplyErrors)
      /\ Quiet(chat) => /\ r.toolCall \in {"none", "sound"}
                        /\ r.text \/ r.toolCall = "sound"
  BY ChatFacts
<1>4. OpenAIChecks(r) = ((status \o Unreadable(r)) \o choice) \o chat
  BY DEF OpenAIChecks
<1> HIDE DEF status, choice, chat
<1>5. status \o Unreadable(r) \in Checks(ReplyErrors)
  BY <1>1, JoinFacts
<1>6. (status \o Unreadable(r)) \o choice \in Checks(ReplyErrors)
  BY <1>2, <1>5, JoinFacts
<1>7. /\ OpenAIChecks(r) \in Checks(ReplyErrors)
      /\ Quiet(OpenAIChecks(r)) => Quiet(chat)
  BY <1>3, <1>4, <1>6, JoinFacts
<1>8. Verdict("openai", r) = FirstFailing(OpenAIChecks(r))
  BY DEF Verdict
<1>9. /\ Found("openai", r)
      /\ Verdict("openai", r) = "none" => Quiet(OpenAIChecks(r))
  BY <1>7, <1>8, ReplyVerdict DEF Found
<1>10. Answer("openai", r) = [text |-> r.text, toolCall |-> r.toolCall]
  BY DEF Answer
<1> QED
  BY <1>3, <1>7, <1>9, <1>10 DEF Usable

LEMMA GeminiFacts ==
  ASSUME NEW r \in ChatReplies
  PROVE  /\ Found("gemini", r)
         /\ Verdict("gemini", r) = "none" => Usable(Answer("gemini", r))
<1> DEFINE status == StatusChecks({"unauthorized", "forbidden"}, r)
           last == << <<~r.choice \/ ~r.text, "ResponseError">> >>
<1>1. status \in Checks(ReplyErrors) /\ Unreadable(r) \in Checks(ReplyErrors)
  BY StatusFacts, UnreadableFacts
<1>2. /\ last \in Checks(ReplyErrors)
      /\ Quiet(last) => ~(~r.choice \/ ~r.text)
  <2>1. (~r.choice \/ ~r.text) \in BOOLEAN /\ "ResponseError" \in ReplyErrors
    BY DEF ReplyErrors
  <2> QED
    BY <2>1, OneCheck
<1>3. GeminiChecks(r) = (status \o Unreadable(r)) \o last
  BY DEF GeminiChecks
<1> HIDE DEF status, last
<1>4. status \o Unreadable(r) \in Checks(ReplyErrors)
  BY <1>1, JoinFacts
<1>5. /\ GeminiChecks(r) \in Checks(ReplyErrors)
      /\ Quiet(GeminiChecks(r)) => Quiet(last)
  BY <1>2, <1>3, <1>4, JoinFacts
<1>6. Verdict("gemini", r) = FirstFailing(GeminiChecks(r))
  BY DEF Verdict
<1>7. /\ Found("gemini", r)
      /\ Verdict("gemini", r) = "none" => Quiet(GeminiChecks(r))
  BY <1>5, <1>6, ReplyVerdict DEF Found
<1>8. Answer("gemini", r) = [text |-> r.text, toolCall |-> "none"]
  BY DEF Answer
<1> QED
  BY <1>2, <1>5, <1>7, <1>8 DEF Usable

LEMMA LocalFacts ==
  ASSUME NEW r \in ChatReplies
  PROVE  /\ Found("local", r)
         /\ Verdict("local", r) = "none" => Usable(Answer("local", r))
<1> DEFINE status == StatusChecks({"unauthorized", "forbidden"}, r)
           choice == << <<r.body = "unreadable" \/ ~r.choice, "ResponseError">> >>
           chat == ChatChecks("ResponseError", r)
           odd == << <<r.body = "odd", "ResponseError">> >>
<1>1. status \in Checks(ReplyErrors)
  BY StatusFacts
<1>2. choice \in Checks(ReplyErrors) /\ odd \in Checks(ReplyErrors)
  <2>1. /\ (r.body = "unreadable" \/ ~r.choice) \in BOOLEAN
        /\ (r.body = "odd") \in BOOLEAN /\ "ResponseError" \in ReplyErrors
    BY DEF ReplyErrors
  <2> QED
    BY <2>1, OneCheck
<1>3. /\ chat \in Checks(ReplyErrors)
      /\ Quiet(chat) => /\ r.toolCall \in {"none", "sound"}
                        /\ r.text \/ r.toolCall = "sound"
  BY ChatFacts
<1>4. LocalChecks(r) = ((status \o choice) \o chat) \o odd
  BY DEF LocalChecks
<1> HIDE DEF status, choice, chat, odd
<1>5. status \o choice \in Checks(ReplyErrors)
  BY <1>1, <1>2, JoinFacts
<1>6. /\ (status \o choice) \o chat \in Checks(ReplyErrors)
      /\ Quiet((status \o choice) \o chat) => Quiet(chat)
  BY <1>3, <1>5, JoinFacts
<1>7. /\ LocalChecks(r) \in Checks(ReplyErrors)
      /\ Quiet(LocalChecks(r)) => Quiet(chat)
  BY <1>2, <1>4, <1>6, JoinFacts
<1>8. Verdict("local", r) = FirstFailing(LocalChecks(r))
  BY DEF Verdict
<1>9. /\ Found("local", r)
      /\ Verdict("local", r) = "none" => Quiet(LocalChecks(r))
  BY <1>7, <1>8, ReplyVerdict DEF Found
<1>10. Answer("local", r) = [text |-> r.text, toolCall |-> r.toolCall]
  BY DEF Answer
<1> QED
  BY <1>3, <1>7, <1>9, <1>10 DEF Usable

LEMMA EmbeddingFacts ==
  ASSUME NEW r \in EmbeddingReplies
  PROVE  /\ Found("embedding", r)
         /\ Verdict("embedding", r) = "none" => Fits(r.items)
<1>1. /\ EmbeddingChecks(r) \in Checks(ReplyErrors)
      /\ Quiet(EmbeddingChecks(r)) => ~(~r.usable \/ ~Fits(r.items))
  <2>1. (~r.usable \/ ~Fits(r.items)) \in BOOLEAN /\ "EmbeddingError" \in ReplyErrors
    BY DEF ReplyErrors
  <2> QED
    BY <2>1, OneCheck DEF EmbeddingChecks
<1>2. Verdict("embedding", r) = FirstFailing(EmbeddingChecks(r))
  BY DEF Verdict
<1> QED
  BY <1>1, <1>2, ReplyVerdict DEF Found

(* Health of an SDK's provider: only what the SDK raises.                  *)
LEMMA HealthFacts ==
  ASSUME NEW p \in Providers, NEW r \in RepliesTo(p)
  PROVE  /\ Found(p, r)
         /\ HealthChecks(p, r) \in ReplyErrors \cup {"none"}
<1>1. p \in SDKs \/ p = "local" => r \in ChatReplies
  BY DEF SDKs, RepliesTo
<1>2. p = "embedding" => r \in EmbeddingReplies
  BY DEF RepliesTo
<1>3. Found(p, r)
  <2>1. p \in {"claude", "openai", "gemini", "local", "embedding"}
    BY DEF Providers, SDKs
  <2> QED
    BY <1>1, <1>2, <2>1, ClaudeFacts, OpenAIFacts, GeminiFacts, LocalFacts,
       EmbeddingFacts DEF SDKs
<1>4. CASE p \in SDKs
  <2>1. r \in ChatReplies
    BY <1>1, <1>4
  <2>2. StatusChecks({}, r) \in Checks(ReplyErrors) /\ Unreadable(r) \in Checks(ReplyErrors)
    BY <2>1, StatusFacts, UnreadableFacts
  <2>3. StatusChecks({}, r) \o Unreadable(r) \in Checks(ReplyErrors)
    BY <2>2, JoinFacts
  <2>4. SDKHealthChecks(r) \in ReplyErrors \cup {"none"}
    BY <2>3, ReplyVerdict DEF SDKHealthChecks
  <2> QED
    BY <1>3, <1>4, <2>4 DEF HealthChecks
<1>5. CASE p \notin SDKs
  BY <1>3, <1>5 DEF HealthChecks, Found
<1> QED
  BY <1>4, <1>5

LEMMA ConfigFacts ==
  ASSUME NEW p \in Providers, NEW c \in Configurations
  PROVE  FirstFailing(<< <<p # "embedding" /\ ~c.known, "RegistrationError">> >>
                        \o ConfigChecks(p, c)) \in ConfigErrors \cup {"none"}
<1> DEFINE unknown == << <<p # "embedding" /\ ~c.known, "RegistrationError">> >>
           noModel == << <<c.model # "given", "ConfigurationError">> >>
<1>1. "ConfigurationError" \in ConfigErrors /\ "RegistrationError" \in ConfigErrors
  BY DEF ConfigErrors
<1>2. /\ (p # "embedding" /\ ~c.known) \in BOOLEAN /\ (c.model # "given") \in BOOLEAN
      /\ (c.url # "given") \in BOOLEAN /\ (~c.key) \in BOOLEAN
      /\ (c.model = "none") \in BOOLEAN
  OBVIOUS
<1>3. /\ unknown \in Checks(ConfigErrors) /\ noModel \in Checks(ConfigErrors)
      /\ FitUrl(c) \in Checks(ConfigErrors)
  BY <1>1, <1>2, OneCheck DEF FitUrl
<1>4. KeyAndModel(c) \in Checks(ConfigErrors)
  BY <1>1, <1>2, TwoChecks DEF KeyAndModel
<1>5. noModel \o FitUrl(c) \in Checks(ConfigErrors)
  BY <1>3, JoinFacts
<1>6. ConfigChecks(p, c) \in Checks(ConfigErrors)
  <2>1. p \in {"claude", "openai", "gemini", "local", "embedding"}
    BY DEF Providers, SDKs
  <2>2. CASE p \in {"claude", "openai", "gemini"}
    <3>1. ConfigChecks(p, c) = KeyAndModel(c)
      BY <2>2 DEF ConfigChecks, ClaudeConfig, OpenAIConfig, GeminiConfig
    <3> QED
      BY <3>1, <1>4
  <2>3. CASE p \in {"local", "embedding"}
    <3>1. ConfigChecks(p, c) = noModel \o FitUrl(c)
      BY <2>3 DEF ConfigChecks, LocalConfig, EmbeddingConfig
    <3> QED
      BY <3>1, <1>5
  <2> QED
    BY <2>1, <2>2, <2>3
<1> HIDE DEF unknown
<1>7. unknown \o ConfigChecks(p, c) \in Checks(ConfigErrors)
  BY <1>3, <1>6, JoinFacts
<1>8. FirstFailing(unknown \o ConfigChecks(p, c)) \in ConfigErrors \cup {"none"}
  <2>1. "none" \notin ConfigErrors
    BY DEF ConfigErrors
  <2> QED
    BY <1>7, <2>1, FirstFailingFacts
<1> QED
  BY <1>8 DEF unknown

---------------------------------------------------------------------------
(* As many items as texts, each for another text: by the pigeonhole        *)
(* principle every text has its item.                                      *)
Placed(items) ==
  \E placed \in [1..Texts -> DOMAIN items] :
    \A k \in 1..Texts : Vectors(items)[k] = {placed[k]} /\ items[placed[k]].index = k - 1

LEMMA VectorsArePlaced ==
  ASSUME NEW n \in 0..(Texts + 1), NEW items \in [1..n -> Items], Fits(items)
  PROVE  Placed(items)
<1> USE TextsAssumption
<1>1. n = Texts /\ DOMAIN items = 1..Texts
  <2>1. Len(items) = n
    OBVIOUS
  <2> QED
    BY <2>1 DEF Fits
<1> DEFINE textOf == [i \in 1..Texts |-> items[i].index + 1]
<1>2. \A i \in 1..Texts : items[i].index \in Nat /\ items[i].index < Texts
  BY <1>1 DEF Fits, Items
<1>3. textOf \in [1..Texts -> 1..Texts]
  BY <1>2
<1>4. \A i, j \in 1..Texts : i # j => textOf[i] # textOf[j]
  <2> SUFFICES ASSUME NEW i \in 1..Texts, NEW j \in 1..Texts, i # j
               PROVE  textOf[i] # textOf[j]
    OBVIOUS
  <2>1. items[i].index # items[j].index
    BY <1>1 DEF Fits
  <2> QED
    BY <2>1, <1>2
<1>5. textOf \in Surjection(1..Texts, 1..Texts)
  <2>1. IsFiniteSet(1..Texts)
    BY FS_Interval
  <2>2. textOf \in Injection(1..Texts, 1..Texts)
    <3> HIDE DEF textOf
    <3> QED
      BY <1>3, <1>4 DEF Injection, IsInjective
  <2> HIDE DEF textOf
  <2> QED
    BY <2>1, <2>2, FS_Injection
<1>6. \A k \in 1..Texts : \E i \in 1..Texts : textOf[i] = k
  <2> HIDE DEF textOf
  <2> QED
    BY <1>5 DEF Surjection
<1> DEFINE placed == [k \in 1..Texts |-> CHOOSE i \in 1..Texts : textOf[i] = k]
<1>7. placed \in [1..Texts -> DOMAIN items] /\ \A k \in 1..Texts : textOf[placed[k]] = k
  <2> HIDE DEF textOf
  <2> QED
    BY <1>1, <1>6
<1>8. ASSUME NEW k \in 1..Texts
      PROVE  Vectors(items)[k] = {placed[k]} /\ items[placed[k]].index = k - 1
  <2>1. Vectors(items)[k] = {i \in 1..Texts : items[i].index = k - 1}
    BY <1>1 DEF Vectors
  <2>2. \A i \in 1..Texts : items[i].index = k - 1 <=> textOf[i] = k
    BY <1>2
  <2>3. placed[k] \in 1..Texts /\ textOf[placed[k]] = k
    BY <1>1, <1>7
  <2>4. \A i \in 1..Texts : textOf[i] = k => i = placed[k]
    <3> HIDE DEF textOf, placed
    <3> QED
      BY <1>4, <2>3
  <2> HIDE DEF textOf, placed
  <2> QED
    BY <2>1, <2>2, <2>3, <2>4
<1> HIDE DEF placed
<1> QED
  BY <1>7, <1>8 DEF Placed

---------------------------------------------------------------------------
(* An attempt is left whenever one may be made, and a reply under          *)
(* translation is one the endpoint can send.                               *)
CountInv ==
  /\ attempts <= AttemptsAllowed
  /\ phase \in {"new", "ready"} => attempts < AttemptsAllowed
  /\ phase = "reading" => reply \in RepliesTo(provider)

OutcomeInv == RetriesAreUsedUp /\ AnswersAreUsable /\ VectorsMatchTexts

CallInv == TypeOK /\ CountInv /\ OutcomeInv

LEMMA InitCall == Init => CallInv
<1> USE MaxRetriesAssumption
<1> SUFFICES ASSUME Init PROVE CallInv
  OBVIOUS
<1>1. retries \in Nat /\ AttemptsAllowed \in {1, retries + 1}
  BY DEF Init, AttemptsAllowed
<1>2. TypeOK
  BY <1>1 DEF Init, TypeOK, Pending
<1>3. CountInv
  BY <1>1 DEF Init, CountInv
<1>4. OutcomeInv
  BY DEF Init, OutcomeInv, RetriesAreUsedUp, AnswersAreUsable, VectorsMatchTexts, Pending
<1> QED
  BY <1>2, <1>3, <1>4 DEF CallInv

LEMMA CallFacts ==
  ASSUME CallInv
  PROVE  /\ retries \in Nat /\ attempts \in Nat
         /\ AttemptsAllowed \in {1, retries + 1} /\ AttemptsAllowed \in Nat
         /\ provider = "local" => AttemptsAllowed = retries + 1
<1> USE MaxRetriesAssumption
<1>1. retries \in Nat /\ attempts \in Nat
  BY DEF CallInv, TypeOK
<1> QED
  BY <1>1 DEF AttemptsAllowed, SDKs

(* A step that leaves the call without an outcome.                         *)
LEMMA Underway ==
  ASSUME CallInv, phase # "done", UNCHANGED <<outcome>>
  PROVE  OutcomeInv'
<1>1. outcome' = outcome /\ outcome.how = "pending"
  BY DEF CallInv, TypeOK
<1> QED
  BY <1>1 DEF OutcomeInv, RetriesAreUsedUp, AnswersAreUsable, VectorsMatchTexts

(* A step that raises an error which is none of the transport's.           *)
LEMMA RaisePlain ==
  ASSUME NEW error, error \notin {"AssertionError", "TimeoutError", "ConnectionError"},
         outcome' = Raised(error) \/ outcome' = Reported(FALSE)
  PROVE  /\ OutcomeInv'
         /\ outcome'.how # "pending"
<1>1. CASE outcome' = Raised(error)
  <2>1. outcome'.how = "raised" /\ outcome'.error = error
    BY <1>1 DEF Raised
  <2> QED
    BY <2>1 DEF OutcomeInv, RetriesAreUsedUp, AnswersAreUsable, VectorsMatchTexts
<1>2. CASE outcome' = Reported(FALSE)
  <2>1. outcome'.how = "reported"
    BY <1>2 DEF Reported
  <2> QED
    BY <2>1 DEF OutcomeInv, RetriesAreUsedUp, AnswersAreUsable, VectorsMatchTexts
<1> QED
  BY <1>1, <1>2

LEMMA ConstructStep == CallInv /\ Construct => CallInv'
<1> SUFFICES ASSUME CallInv, Construct PROVE CallInv'
  OBVIOUS
<1> DEFINE error == FirstFailing(<< <<provider # "embedding" /\ ~config.known,
                                      "RegistrationError">> >>
                                 \o ConfigChecks(provider, config))
<1>1. provider \in Providers /\ config \in Configurations /\ phase = "new"
  BY DEF CallInv, TypeOK, Construct
<1>2. error \in ConfigErrors \cup {"none"}
  BY <1>1, ConfigFacts
<1>3. /\ config' = None /\ UNCHANGED <<call, attempts, failure, reply>>
      /\ \/ phase' = "ready" /\ UNCHANGED outcome
         \/ error # "none" /\ phase' = "done" /\ outcome' = Raised(error)
  BY DEF Construct
<1> HIDE DEF error
<1>4. UNCHANGED <<provider, retries, purpose, sound, attempts, failure, reply>>
  BY <1>3 DEF call
<1>5. AttemptsAllowed' = AttemptsAllowed /\ RepliesTo(provider)' = RepliesTo(provider)
  BY <1>4 DEF AttemptsAllowed, RepliesTo
<1>6. CountInv'
  BY <1>1, <1>3, <1>4, <1>5 DEF CallInv, CountInv
<1>7. CASE phase' = "ready" /\ UNCHANGED outcome
  <2>1. TypeOK'
    BY <1>1, <1>3, <1>4, <1>5, <1>7 DEF CallInv, TypeOK
  <2>2. OutcomeInv'
    BY <1>1, <1>7, Underway
  <2> QED
    BY <1>6, <2>1, <2>2 DEF CallInv
<1>8. CASE error # "none" /\ phase' = "done" /\ outcome' = Raised(error)
  <2>1. error \notin {"AssertionError", "TimeoutError", "ConnectionError"}
    BY <1>2, <1>8 DEF ConfigErrors
  <2>2. OutcomeInv' /\ outcome'.how # "pending"
    BY <1>8, <2>1, RaisePlain
  <2>3. TypeOK'
    BY <1>1, <1>3, <1>4, <1>5, <1>8, <2>2 DEF CallInv, TypeOK
  <2> QED
    BY <1>6, <2>2, <2>3 DEF CallInv
<1> QED
  BY <1>3, <1>7, <1>8

LEMMA RefuseStep == CallInv /\ Refuse => CallInv'
<1> SUFFICES ASSUME CallInv, Refuse PROVE CallInv'
  OBVIOUS
<1>1. /\ phase = "ready" /\ phase' = "done"
      /\ UNCHANGED <<provider, retries, purpose, sound, config, attempts, failure, reply>>
      /\ \/ outcome' = Raised(Own("ProviderError"))
         \/ outcome' = Reported(FALSE)
  BY DEF Refuse, Raise, call
<1>2. Own("ProviderError") \notin {"AssertionError", "TimeoutError", "ConnectionError"}
  BY DEF Own
<1>3. OutcomeInv' /\ outcome'.how # "pending"
  BY <1>1, <1>2, RaisePlain
<1>4. AttemptsAllowed' = AttemptsAllowed /\ RepliesTo(provider)' = RepliesTo(provider)
  BY <1>1 DEF AttemptsAllowed, RepliesTo
<1>5. CountInv'
  BY <1>1, <1>4 DEF CallInv, CountInv
<1>6. TypeOK'
  BY <1>1, <1>3, <1>4 DEF CallInv, TypeOK
<1> QED
  BY <1>3, <1>5, <1>6 DEF CallInv

LEMMA SendStep == CallInv /\ Send => CallInv'
<1> SUFFICES ASSUME CallInv, Send PROVE CallInv'
  OBVIOUS
<1>1. /\ phase = "ready" /\ phase' = "waiting" /\ attempts' = attempts + 1
      /\ UNCHANGED <<provider, retries, purpose, sound, config, failure, reply, outcome>>
  BY DEF Send, Counted, call
<1>2. AttemptsAllowed' = AttemptsAllowed /\ RepliesTo(provider)' = RepliesTo(provider)
  BY <1>1 DEF AttemptsAllowed, RepliesTo
<1>3. attempts' <= AttemptsAllowed /\ attempts' \in 0..(retries + 1)
  BY <1>1, CallFacts DEF CallInv, CountInv
<1>4. CountInv'
  BY <1>1, <1>2, <1>3 DEF CountInv
<1>5. TypeOK'
  BY <1>1, <1>2, <1>3 DEF CallInv, TypeOK
<1>6. OutcomeInv'
  BY <1>1, Underway
<1> QED
  BY <1>4, <1>5, <1>6 DEF CallInv

(* The last attempt gives up, every other leads to the next one.           *)
LEMMA TransportStep ==
  ASSUME CallInv, NEW how \in Failures, TransportFails(how)
  PROVE  CallInv'
<1>1. /\ phase = "waiting" /\ failure' = how
      /\ UNCHANGED <<provider, retries, purpose, sound, config, attempts, reply>>
      /\ IF LastAttempt THEN GiveUp(how) ELSE TryAgain
  BY DEF TransportFails, call
<1>2. AttemptsAllowed' = AttemptsAllowed /\ RepliesTo(provider)' = RepliesTo(provider)
  BY <1>1 DEF AttemptsAllowed, RepliesTo
<1>3. attempts <= AttemptsAllowed
  BY DEF CallInv, CountInv
<1>4. CASE LastAttempt
  <2> DEFINE named == IF how = "timeout" THEN "TimeoutError" ELSE "ConnectionError"
  <2>1. GiveUp(how)
    BY <1>1, <1>4
  <2>2. /\ phase' = "done"
        /\ outcome' = Raised(Own(named)) \/ outcome' = Reported(FALSE)
    BY <2>1 DEF GiveUp, Raise
  <2>3. OutcomeInv' /\ outcome'.how # "pending"
    <3>1. CASE outcome' = Raised(Own(named))
      <4>1. outcome'.how = "raised" /\ outcome'.error = Own(named)
        BY <3>1 DEF Raised
      <4>2. /\ named \in {"TimeoutError", "ConnectionError"}
            /\ (named = "TimeoutError") = (how = "timeout")
        OBVIOUS
      <4> HIDE DEF named
      <4>3. /\ Own(named) \in {named, "EmbeddingError"}
            /\ provider = "local" => Own(named) = named
        BY DEF Own
      <4>4. provider = "local" => attempts = retries + 1
        BY <1>4, CallFacts DEF LastAttempt
      <4>5. RetriesAreUsedUp'
        BY <1>1, <4>1, <4>2, <4>3, <4>4 DEF RetriesAreUsedUp
      <4> QED
        BY <4>1, <4>5 DEF OutcomeInv, AnswersAreUsable, VectorsMatchTexts
    <3>2. CASE outcome' = Reported(FALSE)
      <4>1. outcome'.how = "reported"
        BY <3>2 DEF Reported
      <4> QED
        BY <4>1 DEF OutcomeInv, RetriesAreUsedUp, AnswersAreUsable, VectorsMatchTexts
    <3> QED
      BY <2>2, <3>1, <3>2
  <2>4. CountInv'
    BY <1>1, <1>2, <1>3, <2>2 DEF CountInv
  <2>5. TypeOK'
    BY <1>1, <1>2, <2>2, <2>3 DEF CallInv, TypeOK
  <2> QED
    BY <2>3, <2>4, <2>5 DEF CallInv
<1>5. CASE ~LastAttempt
  <2>1. attempts < AttemptsAllowed
    BY <1>3, <1>5, CallFacts DEF LastAttempt
  <2>2. phase' = "ready" /\ UNCHANGED outcome
    BY <1>1, <1>5, <2>1 DEF TryAgain
  <2>3. CountInv'
    BY <1>1, <1>2, <1>3, <2>1, <2>2 DEF CountInv
  <2>4. TypeOK'
    BY <1>1, <1>2, <2>2 DEF CallInv, TypeOK
  <2>5. OutcomeInv'
    BY <1>1, <2>2, Underway
  <2> QED
    BY <2>3, <2>4, <2>5 DEF CallInv
<1> QED
  BY <1>4, <1>5

LEMMA ReceiveStep ==
  ASSUME CallInv, NEW r \in RepliesTo(provider), Receive(r)
  PROVE  CallInv'
<1>1. /\ phase = "waiting" /\ phase' = "reading" /\ reply' = r
      /\ UNCHANGED <<provider, retries, purpose, sound, config, attempts, failure, outcome>>
  BY DEF Receive, call
<1>2. AttemptsAllowed' = AttemptsAllowed /\ RepliesTo(provider)' = RepliesTo(provider)
  BY <1>1 DEF AttemptsAllowed, RepliesTo
<1>3. CountInv'
  BY <1>1, <1>2 DEF CallInv, CountInv
<1>4. TypeOK'
  BY <1>1, <1>2 DEF CallInv, TypeOK
<1>5. OutcomeInv'
  BY <1>1, Underway
<1> QED
  BY <1>3, <1>4, <1>5 DEF CallInv

(* What Answer makes of a reply with which nothing is wrong.               *)
LEMMA AnswerFacts ==
  ASSUME NEW p \in Providers, NEW r \in RepliesTo(p), Verdict(p, r) = "none"
  PROVE  /\ p # "embedding" => Usable(Answer(p, r))
         /\ p = "embedding" => Fits(r.items) /\ Placed(r.items)
<1>1. p \in {"claude", "openai", "gemini", "local", "embedding"}
  BY DEF Providers, SDKs
<1>2. CASE p # "embedding"
  <2>1. r \in ChatReplies
    BY <1>2 DEF RepliesTo
  <2> QED
    BY <1>1, <1>2, <2>1, ClaudeFacts, OpenAIFacts, GeminiFacts, LocalFacts
<1>3. CASE p = "embedding"
  <2>1. r \in EmbeddingReplies
    BY <1>3 DEF RepliesTo
  <2>2. Fits(r.items)
    BY <1>3, <2>1, EmbeddingFacts
  <2>3. PICK n \in 0..(Texts + 1) : r.items \in [1..n -> Items]
    BY <2>1 DEF EmbeddingReplies
  <2> QED
    BY <1>3, <2>2, <2>3, VectorsArePlaced
<1> QED
  BY <1>2, <1>3

LEMMA TranslateStep == CallInv /\ Translate => CallInv'
<1> SUFFICES ASSUME CallInv, Translate PROVE CallInv'
  OBVIOUS
<1> DEFINE error == IF purpose = "health" THEN HealthChecks(provider, reply)
                    ELSE Verdict(provider, reply)
<1>1. /\ phase = "reading" /\ phase' = "done"
      /\ UNCHANGED <<provider, retries, purpose, sound, config, attempts, failure, reply>>
      /\ \/ /\ error # "none"
            /\ outcome' = Raised(error) \/ outcome' = Reported(FALSE)
         \/ outcome' = Reported(TRUE)
         \/ /\ purpose # "health" /\ error = "none"
            /\ outcome' = Answered(Answer(provider, reply))
  BY DEF Translate, Raise, call
<1>2. /\ provider \in Providers /\ reply \in RepliesTo(provider)
      /\ reply' = reply /\ provider' = provider
  BY <1>1 DEF CallInv, TypeOK, CountInv
<1>3. error \in ReplyErrors \cup {"none"}
  BY <1>2, HealthFacts DEF Found
<1>4. OutcomeInv' /\ outcome'.how # "pending"
  <2>1. CASE /\ error # "none"
             /\ outcome' = Raised(error) \/ outcome' = Reported(FALSE)
    <3>1. error \notin {"AssertionError", "TimeoutError", "ConnectionError"}
      BY <1>3, <2>1 DEF ReplyErrors
    <3> HIDE DEF error
    <3> QED
      BY <2>1, <3>1, RaisePlain
  <2>2. CASE outcome' = Reported(TRUE)
    <3>1. outcome'.how = "reported"
      BY <2>2 DEF Reported
    <3> QED
      BY <3>1 DEF OutcomeInv, RetriesAreUsedUp, AnswersAreUsable, VectorsMatchTexts
  <2>3. CASE /\ purpose # "health" /\ error = "none"
             /\ outcome' = Answered(Answer(provider, reply))
    <3>1. outcome'.how = "answered" /\ outcome'.answer = Answer(provider, reply)
      BY <2>3 DEF Answered
    <3>2. Verdict(provider, reply) = "none"
      BY <2>3
    <3>3. /\ provider # "embedding" => Usable(Answer(provider, reply))
          /\ provider = "embedding" => Fits(reply.items) /\ Placed(reply.items)
      BY <1>2, <3>2, AnswerFacts
    <3>4. AnswersAreUsable'
      BY <1>2, <3>1, <3>3 DEF AnswersAreUsable, Usable
    <3>5. VectorsMatchTexts'
      <4> SUFFICES ASSUME provider = "embedding"
                   PROVE  VectorsMatchTexts'
        BY <1>2 DEF VectorsMatchTexts
      <4>1. outcome'.answer = Vectors(reply.items)
        BY <3>1 DEF Answer
      <4>2. PICK placed \in [1..Texts -> DOMAIN reply.items] :
              \A k \in 1..Texts : /\ Vectors(reply.items)[k] = {placed[k]}
                                     /\ reply.items[placed[k]].index = k - 1
        BY <3>3 DEF Placed
      <4>3. \A k, m \in 1..Texts :
              reply.items[placed[k]].size = reply.items[placed[m]].size
        BY <3>3, <4>2 DEF Fits
      <4> QED
        BY <1>2, <4>1, <4>2, <4>3 DEF VectorsMatchTexts
    <3>6. RetriesAreUsedUp'
      BY <3>1 DEF RetriesAreUsedUp
    <3> QED
      BY <3>1, <3>4, <3>5, <3>6 DEF OutcomeInv
  <2> QED
    BY <1>1, <2>1, <2>2, <2>3
<1>5. AttemptsAllowed' = AttemptsAllowed /\ RepliesTo(provider)' = RepliesTo(provider)
  BY <1>1 DEF AttemptsAllowed, RepliesTo
<1>6. CountInv'
  BY <1>1, <1>5 DEF CallInv, CountInv
<1>7. TypeOK'
  BY <1>1, <1>4, <1>5 DEF CallInv, TypeOK
<1> QED
  BY <1>4, <1>6, <1>7 DEF CallInv

THEOREM CallInvariant == Spec => []CallInv
<1>1. CallInv /\ [Next]_vars => CallInv'
  <2> SUFFICES ASSUME CallInv, [Next]_vars PROVE CallInv'
    OBVIOUS
  <2>1. CASE Step
    <3>1. ASSUME NEW how \in Failures, TransportFails(how) PROVE CallInv'
      BY <3>1, TransportStep
    <3>2. ASSUME NEW r \in RepliesTo(provider), Receive(r) PROVE CallInv'
      BY <3>2, ReceiveStep
    <3> QED
      BY <2>1, <3>1, <3>2, ConstructStep, RefuseStep, SendStep, TranslateStep DEF Step
  <2>2. CASE UNCHANGED vars
    BY <2>2 DEF vars, call, CallInv, TypeOK, CountInv, OutcomeInv, AttemptsAllowed,
       RepliesTo, RetriesAreUsedUp, AnswersAreUsable, VectorsMatchTexts
  <2> QED
    BY <2>1, <2>2 DEF Next
<1> QED
  BY <1>1, InitCall, PTL DEF Spec

---------------------------------------------------------------------------
(* The values the variables of a call can take.                            *)
THEOREM CallTypeCorrect == Spec => []TypeOK
<1>1. CallInv => TypeOK
  BY DEF CallInv
<1> QED
  BY <1>1, CallInvariant, PTL

(* LocalProvider._post gives up only when every attempt was used, for any  *)
(* max_retries, and never meets the assertion behind its loop.             *)
THEOREM RetriesUsedUp == Spec => []RetriesAreUsedUp
<1>1. CallInv => RetriesAreUsedUp
  BY DEF CallInv, OutcomeInv
<1> QED
  BY <1>1, CallInvariant, PTL

(* What an adapter returns of a reply can be run, and sent again.          *)
THEOREM AnswersUsable == Spec => []AnswersAreUsable
<1>1. CallInv => AnswersAreUsable
  BY DEF CallInv, OutcomeInv
<1> QED
  BY <1>1, CallInvariant, PTL

(* embed returns one vector for each of any number of texts, its own.      *)
THEOREM VectorsInOrder == Spec => []VectorsMatchTexts
<1>1. CallInv => VectorsMatchTexts
  BY DEF CallInv, OutcomeInv
<1> QED
  BY <1>1, CallInvariant, PTL

---------------------------------------------------------------------------
(* How long a call can take.  That it ends under fairness is left to TLC;  *)
(* that the steps it may take run out does not need fairness.              *)

(* How often a request is sent: never, if it is refused.                   *)
AttemptsAreBounded == attempts <= AttemptsAllowed /\ (~sound => attempts = 0)

PhaseWeight ==
  CASE phase \in {"new", "waiting"}   -> 2
    [] phase \in {"ready", "reading"} -> 1
    [] OTHER                          -> 0

StepsLeft == 2 * (AttemptsAllowed - attempts) + PhaseWeight

(* A send costs one attempt and buys the wait for an answer.               *)
StepsAreBounded == StepsLeft \in 0..(2 * MaxRetries + 4)

(* Every step of a call uses up one of them.                               *)
StepsRunOut == [][StepsLeft' < StepsLeft]_vars

(* A request that fails its validation does not get as far as waiting.     *)
RefusedUnsent == ~sound => attempts = 0 /\ phase \in {"new", "ready", "done"}

LEMMA RefusedStep == RefusedUnsent /\ [Next]_vars => RefusedUnsent'
<1> SUFFICES ASSUME RefusedUnsent, [Next]_vars PROVE RefusedUnsent'
  OBVIOUS
<1> USE DEF RefusedUnsent, call
<1>1. CASE Construct \/ Refuse \/ Translate
  BY <1>1 DEF Construct, Refuse, Translate, Raise
<1>2. CASE Send
  BY <1>2 DEF Send
<1>3. CASE \E how \in Failures : TransportFails(how)
  BY <1>3 DEF TransportFails
<1>4. CASE \E r \in RepliesTo(provider) : Receive(r)
  BY <1>4 DEF Receive
<1>5. CASE UNCHANGED vars
  BY <1>5 DEF vars
<1> QED
  BY <1>1, <1>2, <1>3, <1>4, <1>5 DEF Next, Step

LEMMA StepUsesOne ==
  ASSUME CallInv, Step
  PROVE  StepsLeft' < StepsLeft
<1>1. attempts \in Nat /\ AttemptsAllowed \in Nat /\ AttemptsAllowed' = AttemptsAllowed
  <2>1. UNCHANGED call
    BY DEF Step, Construct, Refuse, Send, TransportFails, Receive, Translate
  <2> QED
    BY <2>1, CallFacts DEF AttemptsAllowed, call
<1>2. PhaseWeight \in Nat /\ PhaseWeight' \in Nat
  BY DEF PhaseWeight
<1>3. CASE Send
  <2>1. attempts' = attempts + 1 /\ PhaseWeight = 1 /\ PhaseWeight' = 2
    BY <1>3 DEF Send, Counted, PhaseWeight
  <2> QED
    BY <1>1, <2>1 DEF StepsLeft
<1>4. CASE ~Send
  <2>1. attempts' = attempts
    BY <1>4 DEF Step, Construct, Refuse, TransportFails, Receive, Translate
  <2>2. PhaseWeight' < PhaseWeight
    <3>1. CASE Construct
      BY <3>1 DEF Construct, PhaseWeight
    <3>2. CASE Refuse
      BY <3>2 DEF Refuse, Raise, PhaseWeight
    <3>3. CASE \E how \in Failures : TransportFails(how)
      <4>1. phase = "waiting" /\ phase' \in {"ready", "done"}
        BY <3>3 DEF TransportFails, GiveUp, TryAgain, Raise
      <4> QED
        BY <4>1 DEF PhaseWeight
    <3>4. CASE \E r \in RepliesTo(provider) : Receive(r)
      BY <3>4 DEF Receive, PhaseWeight
    <3>5. CASE Translate
      <4>1. phase = "reading" /\ phase' = "done"
        BY <3>5 DEF Translate, Raise
      <4> QED
        BY <4>1 DEF PhaseWeight
    <3> QED
      BY <1>4, <3>1, <3>2, <3>3, <3>4, <3>5 DEF Step
  <2>3. PICK left \in Int : left = 2 * (AttemptsAllowed - attempts)
    BY <1>1
  <2>4. StepsLeft = left + PhaseWeight /\ StepsLeft' = left + PhaseWeight'
    BY <1>1, <2>1, <2>3 DEF StepsLeft
  <2>5. PICK p \in Nat : p = PhaseWeight
    BY <1>2
  <2>6. PICK q \in Nat : q = PhaseWeight'
    BY <1>2
  <2>7. q < p
    BY <2>2, <2>5, <2>6
  <2>8. StepsLeft = left + p
    BY <2>4, <2>5
  <2>9. StepsLeft' = left + q
    BY <2>4, <2>6
  <2>10. left + q < left + p
    BY <2>7
  <2> QED
    BY <2>8, <2>9, <2>10
<1> QED
  BY <1>3, <1>4

(* An endpoint is sent a request at most max_retries + 1 times, an SDK is  *)
(* called once, and neither sees a request that fails its validation.      *)
THEOREM SentNoMoreThanAllowed == Spec => []AttemptsAreBounded
<1>1. Init => RefusedUnsent
  BY DEF Init, RefusedUnsent
<1>2. CallInv /\ RefusedUnsent => AttemptsAreBounded
  BY DEF CallInv, CountInv, RefusedUnsent, AttemptsAreBounded
<1> QED
  BY <1>1, <1>2, RefusedStep, CallInvariant, PTL DEF Spec

(* A call takes at most 2 max_retries + 4 steps, whatever the endpoint     *)
(* answers: a retry loop that went on for ever would take more.            *)
THEOREM CallsAreBounded == Spec => []StepsAreBounded /\ StepsRunOut
<1>1. CallInv => StepsAreBounded
  <2> SUFFICES ASSUME CallInv PROVE StepsAreBounded
    OBVIOUS
  <2>1. retries \in 0..MaxRetries /\ attempts \in Nat /\ attempts <= AttemptsAllowed
        /\ AttemptsAllowed \in {1, retries + 1}
    BY CallFacts DEF CallInv, TypeOK, CountInv
  <2>2. PhaseWeight \in 0..2
    BY DEF PhaseWeight
  <2> QED
    BY <2>1, <2>2, MaxRetriesAssumption DEF StepsAreBounded, StepsLeft
<1>2. CallInv /\ [Next]_vars => [StepsLeft' < StepsLeft]_vars
  BY StepUsesOne DEF Next
<1> QED
  BY <1>1, <1>2, CallInvariant, PTL DEF Spec, StepsRunOut
=============================================================================
