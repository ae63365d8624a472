--------------------------- MODULE ProviderCalls ---------------------------
(***************************************************************************)
(* One invoke(), embed() or check_health() of a shipped provider, from its *)
(* construction out of a ProviderConfiguration: the request is validated,  *)
(* sent, perhaps sent again, and the reply is turned into an answer or an  *)
(* error.  LocalProvider and the embedding adapter send over HTTP          *)
(* themselves and retry; the three others call an SDK, whose own retries   *)
(* stay inside one attempt.                                                *)
(*                                                                         *)
(* A chat reply is told apart by what decides its fate: the status, how    *)
(* much of the body can be read, whether there is a choice, whether it has *)
(* text, and what its tool call looks like (blank: an id or a name of      *)
(* white space only; broken: one of them missing, or arguments that are no *)
(* JSON object).  An embedding reply is told apart by its items.           *)
(*                                                                         *)
(* MutX is a wrong version of the X below it; no definition uses it.       *)
(***************************************************************************)
EXTENDS Naturals, Sequences, FiniteSets

CONSTANTS MaxRetries,  \* bound: of ProviderConfiguration.max_retries
          Texts,       \* how many texts an embedding request has
          Sizes,       \* dimensions a vector can have
          None

ASSUME MaxRetriesAssumption == MaxRetries \in Nat
ASSUME TextsAssumption == Texts \in Nat \ {0}

VARIABLES provider, retries, purpose, sound,  \* which call on which provider
          config,    \* the configuration, None once the provider is made
          phase,     \* new, ready to send, waiting, reading or done
          attempts,  \* times the request was sent
          failure,   \* how the last attempt failed
          reply,     \* the response under translation
          outcome    \* what the caller gets

call == <<provider, retries, purpose, sound>>
vars == <<call, config, phase, attempts, failure, reply, outcome>>

SDKs == {"claude", "openai", "gemini"}
Providers == SDKs \cup {"local", "embedding"}

(* Of a configuration, what a constructor looks at.  Only the adapters that*)
(* speak HTTP themselves tell a blank model from a given one and look into *)
(* the base_url.  "known": the factory has a constructor for its name.     *)
Configurations ==
  [known : BOOLEAN, key : BOOLEAN, model : {"none", "blank", "given"},
   url : {"none", "unfit", "given"}]

Statuses == {"ok", "unauthorized", "forbidden", "failing"}
Failures == {"timeout", "unreachable"}

ChatReplies ==
  [status : Statuses, body : {"unreadable", "odd", "sound"}, choice : BOOLEAN,
   text : BOOLEAN, toolCall : {"none", "sound", "blank", "broken"}]

(* Indexes are those of the texts, counted from zero, and one too large.   *)
Items == [index : 0..Texts, size : Sizes]

(* usable: accepted, readable and from the configured model.               *)
EmbeddingReplies ==
  [usable : BOOLEAN, items : UNION {[1..n -> Items] : n \in 0..(Texts + 1)}]

RepliesTo(p) == IF p = "embedding" THEN EmbeddingReplies ELSE ChatReplies

Pending == [how |-> "pending"]
Raised(error) == [how |-> "raised", error |-> error]
Answered(answer) == [how |-> "answered", answer |-> answer]
Reported(healthy) == [how |-> "reported", healthy |-> healthy]

(* The class of an adapter's own errors: e.g. LocalProviderError.          *)
OwnErrors == {"ProviderError", "AuthenticationError", "TimeoutError",
              "ConnectionError", "ResponseError", "EmbeddingError"}

Errors == OwnErrors \cup {"ToolCallingError", "IndexError", "AssertionError",
                           "RegistrationError", "ConfigurationError"}

FirstFailing(checks) ==
  LET failing == {i \in DOMAIN checks : checks[i][1]}
  IN  IF failing = {} THEN "none"
      ELSE checks[CHOOSE i \in failing : \A j \in failing : i <= j][2]

KeyAndModel(c) ==
  << <<~c.key, "ConfigurationError">>, <<c.model = "none", "ConfigurationError">> >>

ClaudeConfig(c) == KeyAndModel(c)
OpenAIConfig(c) == KeyAndModel(c)
GeminiConfig(c) == KeyAndModel(c)

(* No key is needed; the URL must be absolute HTTP(S), and no more than an *)
(* endpoint.                                                               *)
FitUrl(c) == << <<c.url # "given", "ConfigurationError">> >>
LocalConfig(c) == << <<c.model # "given", "ConfigurationError">> >> \o FitUrl(c)
EmbeddingConfig(c) == LocalConfig(c)

ConfigChecks(p, c) ==
  CASE p = "claude" -> ClaudeConfig(c)
    [] p = "openai" -> OpenAIConfig(c)
    [] p = "gemini" -> GeminiConfig(c)
    [] p = "local" -> LocalConfig(c)
    [] p = "embedding" -> EmbeddingConfig(c)

StatusChecks(denials, r) ==
  << <<r.status \in denials, "AuthenticationError">>,
     <<r.status # "ok", "ProviderError">> >>

MutChatChecks(error, r) ==
  << <<r.toolCall = "broken", error>>,
     <<r.toolCall = "blank", "ToolCallingError">> >>

(* tool_calls_from_chat, then the test for an empty answer.                *)
ChatChecks(error, r) ==
  << <<r.toolCall = "broken", error>>,
     <<r.toolCall = "blank", "ToolCallingError">>,
     <<~r.text /\ r.toolCall = "none", error>> >>

(* An SDK that cannot read a body raises an error of its own.              *)
Unreadable(r) == << <<r.body = "unreadable", "ProviderError">> >>

ClaudeChecks(r) ==
  StatusChecks({"unauthorized"}, r) \o Unreadable(r)
    \o << <<r.toolCall = "blank", "ToolCallingError">>,
          <<~r.text /\ r.toolCall = "none", "ResponseError">> >>

OpenAIChecks(r) ==
  StatusChecks({"unauthorized"}, r) \o Unreadable(r)
    \o << <<~r.choice, "IndexError">> >> \o ChatChecks("ResponseError", r)

GeminiChecks(r) ==
  StatusChecks({"unauthorized", "forbidden"}, r) \o Unreadable(r)
    \o << <<~r.choice \/ ~r.text, "ResponseError">> >>

LocalChecks(r) ==
  StatusChecks({"unauthorized", "forbidden"}, r)
    \o << <<r.body = "unreadable" \/ ~r.choice, "ResponseError">> >>
    \o ChatChecks("ResponseError", r)
    \o << <<r.body = "odd", "ResponseError">> >>

(* One item per text, no index out of range or twice, one dimension.       *)
Fits(items) ==
  /\ Len(items) = Texts
  /\ \A i \in DOMAIN items : items[i].index < Texts
  /\ \A i, j \in DOMAIN items :
       /\ i # j => items[i].index # items[j].index
       /\ items[i].size = items[j].size

EmbeddingChecks(r) ==
  << <<~r.usable \/ ~Fits(r.items), "EmbeddingError">> >>

Verdict(p, r) ==
  FirstFailing(CASE p = "claude" -> ClaudeChecks(r)
                 [] p = "openai" -> OpenAIChecks(r)
                 [] p = "gemini" -> GeminiChecks(r)
                 [] p = "local" -> LocalChecks(r)
                 [] p = "embedding" -> EmbeddingChecks(r))

(* A bug: the vectors in the order in which the items came.                *)
MutVectors(items) == [k \in 1..Texts |-> {k}]

(* The vectors in the order of the texts; of each, the item it came with.  *)
Vectors(items) ==
  [k \in 1..Texts |-> {i \in DOMAIN items : items[i].index = k - 1}]

Answer(p, r) ==
  CASE p = "embedding" -> Vectors(r.items)
    [] p = "gemini" -> [text |-> r.text, toolCall |-> "none"]
    [] p = "claude" ->
         [text |-> r.text,
          toolCall |-> IF r.toolCall = "broken" THEN "sound" ELSE r.toolCall]
    [] OTHER -> [text |-> r.text, toolCall |-> r.toolCall]

---------------------------------------------------------------------------
Init ==
  /\ provider \in Providers /\ retries \in 0..MaxRetries
  /\ purpose \in {"invoke", "health"}
  /\ sound \in BOOLEAN /\ (purpose = "health" => sound)
  /\ config \in Configurations
  /\ phase = "new" /\ attempts = 0
  /\ failure = "none" /\ reply = None /\ outcome = Pending

(* ProviderFactory.create, which no adapter's error handling is around.    *)
(* The embedding adapter is constructed without the factory.               *)
Construct ==
  /\ phase = "new"
  /\ LET unknown == << <<provider # "embedding" /\ ~config.known, "RegistrationError">> >>
         error == FirstFailing(unknown \o ConfigChecks(provider, config))
     IN  IF error = "none" THEN phase' = "ready" /\ UNCHANGED outcome
         ELSE phase' = "done" /\ outcome' = Raised(error)
  /\ config' = None
  /\ UNCHANGED <<call, attempts, failure, reply>>

(* check_health of LocalProvider and of the embedding adapter catches the  *)
(* adapter's own errors, the others those of their SDK.                    *)
Raise(error) ==
  /\ phase' = "done"
  /\ outcome' = IF purpose = "health" /\ error \in OwnErrors THEN Reported(FALSE)
                ELSE Raised(error)

Own(error) == IF provider = "embedding" THEN "EmbeddingError" ELSE error

(* A request that fails its validation is never sent.                      *)
Refuse ==
  /\ phase = "ready" /\ ~sound
  /\ Raise(Own("ProviderError"))
  /\ UNCHANGED <<call, config, attempts, failure, reply>>

(* An SDK is called once.                                                  *)
AttemptsAllowed == IF provider \in SDKs THEN 1 ELSE retries + 1

MutCounted == attempts

Counted == attempts + 1

Send ==
  /\ phase = "ready" /\ sound
  /\ phase' = "waiting"
  /\ attempts' = Counted
  /\ UNCHANGED <<call, config, failure, reply, outcome>>

MutLastAttempt == attempts = retries

(* attempt + 1 == attempts                                                 *)
LastAttempt == attempts = AttemptsAllowed

GiveUp(how) == Raise(Own(IF how = "timeout" THEN "TimeoutError" ELSE "ConnectionError"))

(* The loop goes on, or runs out and meets the assertion behind it.        *)
TryAgain ==
  IF attempts < AttemptsAllowed THEN phase' = "ready" /\ UNCHANGED outcome
  ELSE Raise("AssertionError")

TransportFails(how) ==
  /\ phase = "waiting"
  /\ failure' = how
  /\ IF LastAttempt THEN GiveUp(how) ELSE TryAgain
  /\ UNCHANGED <<call, config, attempts, reply>>

Receive(r) ==
  /\ phase = "waiting"
  /\ phase' = "reading" /\ reply' = r
  /\ UNCHANGED <<call, config, attempts, failure, outcome>>

(* Only what the SDK raises counts for the health of its provider.         *)
SDKHealthChecks(r) == FirstFailing(StatusChecks({}, r) \o Unreadable(r))

HealthChecks(p, r) == IF p \in SDKs THEN SDKHealthChecks(r) ELSE Verdict(p, r)

Translate ==
  /\ phase = "reading"
  /\ LET error == IF purpose = "health" THEN HealthChecks(provider, reply)
                  ELSE Verdict(provider, reply)
     IN  IF error # "none" THEN Raise(error)
         ELSE /\ phase' = "done"
              /\ outcome' = IF purpose = "health" THEN Reported(TRUE)
                            ELSE Answered(Answer(provider, reply))
  /\ UNCHANGED <<call, config, attempts, failure, reply>>

Step ==
  \/ Construct
  \/ Refuse
  \/ Send
  \/ \E how \in Failures : TransportFails(how)
  \/ \E r \in RepliesTo(provider) : Receive(r)
  \/ Translate

Next == Step \/ (phase = "done" /\ UNCHANGED vars)

(* Every attempt ends: the endpoint replies, or the timeout of the         *)
(* configuration (timeout_seconds) fires.                                  *)
Spec == Init /\ [][Next]_vars /\ WF_vars(Step)

---------------------------------------------------------------------------
(* The values each variable can take; an answer or error ends the call.    *)
TypeOK ==
  /\ provider \in Providers /\ retries \in 0..MaxRetries
  /\ purpose \in {"invoke", "health"} /\ sound \in BOOLEAN
  /\ config \in IF phase = "new" THEN Configurations ELSE {None}
  /\ phase \in {"new", "ready", "waiting", "reading", "done"}
  /\ attempts \in 0..(retries + 1)
  /\ failure \in Failures \cup {"none"}
  /\ reply \in RepliesTo(provider) \cup {None}
  /\ phase = "done" <=> outcome.how # "pending"

(* LocalProvider._post: the request is given up for a timeout or a lost    *)
(* connection only when it was sent max_retries + 1 times, and the error   *)
(* names how the last attempt failed; the assertion behind the loop never  *)
(* fires.                                                                  *)
RetriesAreUsedUp ==
  outcome.how = "raised" =>
    /\ outcome.error # "AssertionError"
    /\ outcome.error \in {"TimeoutError", "ConnectionError"} /\ provider = "local" =>
         /\ attempts = retries + 1
         /\ (outcome.error = "TimeoutError") = (failure = "timeout")

(* invoke: an answer has text or a tool call that can be run and answered, *)
(* so the assistant turn ToolCallLoop builds of it can be sent again.      *)
AnswersAreUsable ==
  outcome.how = "answered" /\ provider # "embedding" =>
    /\ outcome.answer.text \/ outcome.answer.toolCall = "sound"
    /\ outcome.answer.toolCall \in {"none", "sound"}

(* embed preserves the order of its inputs: exactly one vector per text,   *)
(* that of the one item the endpoint gave that text's index, in whatever   *)
(* order the items came, and all of one dimension.                         *)
VectorsMatchTexts ==
  outcome.how = "answered" /\ provider = "embedding" =>
    \E placed \in [1..Texts -> DOMAIN reply.items] :
      /\ \A k \in 1..Texts : /\ outcome.answer[k] = {placed[k]}
                             /\ reply.items[placed[k]].index = k - 1
      /\ \A k, m \in 1..Texts :
           reply.items[placed[k]].size = reply.items[placed[m]].size

(* No call waits for ever, whatever the endpoint does.                     *)
CallEnds == <>(phase = "done")

(* check_health: "never raise" (local.py:115).                             *)
HealthNeverRaises ==
  purpose = "health" /\ attempts > 0 => outcome.how # "raised"
=============================================================================
