------------------------------ MODULE LlmClients -------------------------------
(***************************************************************************)
(* How the enricher asks a language model: GroqLLMClient with its pool of  *)
(* API keys (services/enricher/llm_client.py, key_pool.py) or              *)
(* DeepInfraLLMClient (di_client.py).  Workers call enrich() concurrently  *)
(* and share the pool; every answer, failure or rate limit may come to any *)
(* request.  Back-off pauses hold nothing and are the time between two     *)
(* steps; a cooldown counts down with the clock.                           *)
(***************************************************************************)
EXTENDS Integers, FiniteSets

CONSTANTS
    Callers,            \* workers of the enricher
    ApiKeys,            \* API keys, 1 .. n
    RetryAfters,        \* Retry-After of a 429, in ticks; the default is one more
    MaxRetries          \* groq_max_retries

ASSUME LlmAssumption ==
    /\ ApiKeys # {} /\ IsFiniteSet(ApiKeys) /\ ApiKeys = 1 .. Cardinality(ApiKeys)
    /\ RetryAfters \subseteq Nat \ {0} /\ \E m \in RetryAfters : \A n \in RetryAfters : n <= m
    /\ MaxRetries \in Nat

VARIABLES
    provider,           \* configuration
    stage,              \* of each call: "idle", "acquire", "request", "done"
    attempt, model,     \* loop counter; "main" or "fallback"
    key,                \* the client in use
    lastExc,            \* what the loop remembers of the failures so far
    result,             \* what enrich() returned or raised
    nextKey, cooldown,  \* the pool
    met,                \* history: answers of this call that are no failure for now
    tried,              \* history: the models of this call
    newest              \* history: the key acquire() returned last

poolVars == <<nextKey, cooldown, newest>>
llmVars  == <<provider, stage, attempt, model, key, lastExc, result, poolVars, met, tried>>

Transient == {"429", "net", "5xx"}
Filtered  == "403"
Refused   == "4xx"
Bodies    == {"good", "no_json", "bad_schema", "no_tickers"}

Retryable == {"rate_limit", "timeout", "server_error", "invalid_json"}
ToDlq     == {"api_error", "schema_violation", "empty_financial"}
Raised    == {"AttributeError", "RuntimeError"}

LlmTypeOK ==
    /\ provider \in {"groq", "deepinfra"}
    /\ stage \in [Callers -> {"idle", "acquire", "request", "done"}]
    /\ attempt \in [Callers -> 0 .. Cardinality(ApiKeys) + MaxRetries + 1]
    /\ model \in [Callers -> {"main", "fallback"}]
    /\ key \in [Callers -> {0} \cup ApiKeys]
    /\ lastExc \in [Callers -> {"none", Filtered} \cup Transient]
    /\ result \in [Callers -> {"none", "ok"} \cup Retryable \cup ToDlq \cup Raised]
    /\ \A c \in Callers : (result[c] = "none") = (stage[c] # "done")
    /\ nextKey \in ApiKeys /\ newest \in {0} \cup ApiKeys /\ cooldown \in [ApiKeys -> Nat]

LlmInit ==
    /\ provider \in {"groq", "deepinfra"}
    /\ stage = [c \in Callers |-> "idle"] /\ attempt = [c \in Callers |-> 0]
    /\ model = [c \in Callers |-> "main"] /\ key = [c \in Callers |-> 0]
    /\ lastExc = [c \in Callers |-> "none"] /\ result = [c \in Callers |-> "none"]
    /\ nextKey = 1 /\ cooldown = [k \in ApiKeys |-> 0] /\ newest = 0
    /\ met = [c \in Callers |-> {}] /\ tried = [c \in Callers |-> {}]

Put(f, c, v) == [f EXCEPT ![c] = v]

-------------------------------------------------------------------------------
(* GroqKeyPool. *)

Ready == {k \in ApiKeys : cooldown[k] = 0}

After(k) == IF k = Cardinality(ApiKeys) THEN 1 ELSE k + 1

\* Mutant: the search does not start at the next key.
FirstOfAll == CHOOSE k \in Ready : \A j \in Ready : k <= j

\* The first ready key at or after the next one, round the ring.
FirstReady == LET ahead == {k \in Ready : k >= nextKey} IN
              CHOOSE k \in Ready : IF ahead = {} THEN \A j \in Ready : k <= j
                                   ELSE k \in ahead /\ \A j \in ahead : k <= j

\* acquire(); while every key is cooling down it sleeps.
Acquire(c) ==
    /\ stage[c] = "acquire" /\ stage' = Put(stage, c, "request")
    /\ IF provider = "deepinfra" THEN UNCHANGED <<key, poolVars>>
       ELSE /\ Ready # {}
            /\ LET k == FirstReady IN key' = Put(key, c, k) /\ newest' = k /\ nextKey' = After(k)
            /\ UNCHANGED cooldown
    /\ tried' = Put(tried, c, tried[c] \cup {model[c]})
    /\ UNCHANGED <<provider, attempt, model, lastExc, result, met>>

\* mark_rate_limited: the newest Retry-After counts, if shorter than what is left too.
Cool(k) == \E t \in RetryAfters \cup {1 + CHOOSE m \in RetryAfters : \A n \in RetryAfters : n <= m} :
              cooldown' = Put(cooldown, k, t)

Tick ==
    /\ \E k \in ApiKeys : cooldown[k] > 0
    /\ cooldown' = [k \in ApiKeys |-> IF cooldown[k] > 0 THEN cooldown[k] - 1 ELSE 0]
    /\ UNCHANGED <<provider, stage, attempt, model, key, lastExc, result, nextKey, newest, met, tried>>

-------------------------------------------------------------------------------
(* enrich() and _call_with_retry. *)

MaxAttempts == IF provider = "groq"
               THEN IF Cardinality(ApiKeys) > MaxRetries THEN Cardinality(ApiKeys) + 1 ELSE MaxRetries + 1
               ELSE MaxRetries + 1

Call(c) ==
    /\ stage[c] = "idle" /\ stage' = Put(stage, c, "acquire")
    /\ UNCHANGED <<provider, attempt, model, key, lastExc, result, poolVars, met, tried>>

\* enrich() is over; the locals of the loop are gone.
End(c, outcome) ==
    /\ stage' = Put(stage, c, "done") /\ result' = Put(result, c, outcome)
    /\ lastExc' = Put(lastExc, c, "none")
    /\ UNCHANGED <<attempt, model>>

\* What the loop raises when it ends, by the error it remembers.
GroqFailure(exc) == CASE exc = "429" -> "rate_limit" [] exc = "net" -> "timeout"
                      [] exc = "5xx" -> "server_error" [] OTHER -> "api_error"

\* DeepInfra: CONTENT_FILTER, SERVER_ERROR and OTHER are no members of EnrichErrorKind,
\* so naming them raises; without an error to raise the loop raises another one.
DeepInfraFailure(exc) == CASE exc = "429" -> "rate_limit" [] exc = "net" -> "timeout"
                           [] exc = "none" -> "RuntimeError" [] OTHER -> "AttributeError"

Failure(exc) == IF provider = "groq" THEN GroqFailure(exc) ELSE DeepInfraFailure(exc)

\* "continue": the next attempt, or the end of the loop with the error remembered.
Again(c, exc, next) ==
    IF attempt[c] + 1 < MaxAttempts
    THEN /\ stage' = Put(stage, c, "acquire") /\ attempt' = Put(attempt, c, attempt[c] + 1)
         /\ lastExc' = Put(lastExc, c, exc) /\ model' = Put(model, c, next)
         /\ UNCHANGED result
    ELSE End(c, Failure(exc))

Meets(c, answer) ==
    /\ stage[c] = "request"
    /\ met' = Put(met, c, met[c] \cup ({answer} \ Transient)) /\ key' = Put(key, c, 0)
    /\ UNCHANGED <<provider, nextKey, newest, tried>>

\* A response: JSON, whitelist, schema, and tickers of financial news.
Answered(c, body) ==
    /\ Meets(c, body)
    /\ End(c, CASE body = "good" -> "ok" [] body = "no_json" -> "invalid_json"
                [] body = "bad_schema" -> "schema_violation" [] OTHER -> "empty_financial")
    /\ UNCHANGED cooldown

\* 429: the key cools down, the next attempt takes another one.
RateLimited(c) ==
    /\ Meets(c, "429")
    /\ IF provider = "groq" THEN Cool(key[c]) ELSE UNCHANGED cooldown
    /\ Again(c, "429", model[c])

\* A time-out, a broken connection or a server error.
Unavailable(c, exc) ==
    /\ exc \in {"net", "5xx"} /\ Meets(c, exc)
    /\ Again(c, exc, model[c])
    /\ UNCHANGED cooldown

\* Mutant: the loop goes on with the model that refused.
FilterIgnored(c) ==
    /\ Meets(c, Filtered)
    /\ Again(c, Filtered, model[c])
    /\ UNCHANGED cooldown

\* 403, the content filter: once, the next attempt asks the fallback model.  Only
\* the Groq client remembers the error.
ContentFiltered(c) ==
    /\ Meets(c, Filtered)
    /\ IF model[c] = "main"
       THEN Again(c, IF provider = "groq" THEN Filtered ELSE lastExc[c], "fallback")
       ELSE End(c, Failure(Filtered))
    /\ UNCHANGED cooldown

\* Any other 4xx ends the loop.
Rejected(c) ==
    /\ Meets(c, Refused)
    /\ End(c, Failure(Refused))
    /\ UNCHANGED cooldown

Return(c) ==
    /\ stage[c] = "done" /\ stage' = Put(stage, c, "idle")
    /\ result' = Put(result, c, "none") /\ attempt' = Put(attempt, c, 0)
    /\ model' = Put(model, c, "main") /\ met' = Put(met, c, {}) /\ tried' = Put(tried, c, {})
    /\ UNCHANGED <<provider, key, lastExc, poolVars>>

Respond(c) ==
    \/ \E body \in Bodies : Answered(c, body)
    \/ RateLimited(c) \/ ContentFiltered(c) \/ Rejected(c)
    \/ \E exc \in Transient : Unavailable(c, exc)

LlmNext == Tick \/ \E c \in Callers : Call(c) \/ Acquire(c) \/ Respond(c) \/ Return(c)

LlmSpec == LlmInit /\ [][LlmNext]_llmVars

-------------------------------------------------------------------------------
(* Properties. *)

\* News goes to the DLQ for what the provider or the answer itself refused, never for
\* rate limits, lost connections and server errors, however they follow each other.
OnlyRefusalsGoToDlq ==
    \A c \in Callers : result[c] \in ToDlq => met[c] \cap (Bodies \cup {Filtered, Refused}) # {}

\* A call that met the content filter has asked the other model before it gives up,
\* if an attempt was left to ask it with.
FallbackAsked ==
    \A c \in Callers :
        /\ stage[c] = "done" /\ Filtered \in met[c] /\ Refused \notin met[c]
        /\ attempt[c] + 1 < MaxAttempts
        => tried[c] = {"main", "fallback"}

\* Keys take turns: the key used last comes again only when every other is cooling.
KeysTakeTurns ==
    [][\A c \in Callers :
         stage[c] = "acquire" /\ stage'[c] = "request" /\ provider = "groq" /\ key'[c] = newest
         => \A k \in ApiKeys \ {newest} : cooldown[k] > 0]_llmVars

\* llm_client.py: "LLM-side failures (timeout, bad JSON, schema) come back as
\* EnrichError", and di_client.py: "same EnrichResult interface".
FailuresAreResults == \A c \in Callers : result[c] \notin Raised

\* A failure for now is retried, with the other model where the first refuses, and only
\* a failure for good reaches the DLQ.
FailuresAreSorted == OnlyRefusalsGoToDlq /\ FallbackAsked

-------------------------------------------------------------------------------
(* Why these hold: what the proofs in Checks_proofs carry along. *)

\* What a call remembers: an attempt is left for it; the model it asks, or will ask, next;
\* until it is over it met the content filter at most, and asks the fallback model then.
CallsRemember ==
    /\ met \in [Callers -> SUBSET (Bodies \cup {Filtered, Refused})]
    /\ tried \in [Callers -> SUBSET {"main", "fallback"}]
    /\ \A c \in Callers :
         /\ attempt[c] < MaxAttempts
         /\ stage[c] \in {"request", "done"} => model[c] \in tried[c]
         /\ model[c] = "fallback" => "main" \in tried[c]
         /\ stage[c] # "done" => met[c] \subseteq {Filtered}
         /\ stage[c] # "done" /\ Filtered \in met[c] => model[c] = "fallback"

\* The pool goes on behind the key it gave away last.
PoolGoesOn == newest # 0 => nextKey = After(newest)

LlmInv == LlmTypeOK /\ CallsRemember /\ PoolGoesOn /\ FailuresAreSorted
===============================================================================
