----------------------------- MODULE LLMGateway -----------------------------
(***************************************************************************)
(* LLMGateway.complete_json as called at the same time by worker jobs and  *)
(* API requests, which share the Redis behind DailyCallBudget and          *)
(* LLMResponseCache.                                                       *)
(*                                                                         *)
(* A call resolves its provider, may be escalated to the cloud beforehand, *)
(* looks the cache up, pays for the call, calls, stores the answer, and    *)
(* may have a local answer verified by a second, cloud call.  The steps    *)
(* end where another caller, midnight, an eviction or a crash may come in  *)
(* between.  LLMRouter routes every task to the cloud at launch; the       *)
(* routes are a parameter, as they are of the constructor.                 *)
(*                                                                         *)
(* A budget key names its day, so its two-day expiry is left out.          *)
(***************************************************************************)
EXTENDS Naturals, FiniteSets

CONSTANTS
    Calls,      \* executions of complete_json
    Requests,   \* what may be asked: [prompt, route, sensitivity, risky]
    Prompts,    \* payload, system prompt, model and schema taken together
    Configs,    \* the gateways get_llm_gateway or a test may build
    Limit,      \* LLM_DAILY_CALL_LIMIT
    LastDay,    \* bound on the number of midnights
    NoRequest, NoDay, NoOutput

Providers == {"cloud", "local"}
Sensitivities == {"RAW", "SEMI", "AGGREGATED", "PUBLIC"}
Kinds == {"valid", "unsure", "invalid", "empty"}

Days == 1 .. LastDay

RequestType == [prompt : Prompts, route : Providers \cup {"undefined"},
                sensitivity : Sensitivities, risky : BOOLEAN]
ConfigType == [clients : SUBSET Providers, budget : BOOLEAN, cache : BOOLEAN,
               policy : BOOLEAN]
OutputType == [kind : Kinds, by : Providers, prompt : Prompts, day : Days,
               verifying : BOOLEAN]

ASSUME CallsFinite == IsFiniteSet(Calls)
ASSUME LimitType == Limit \in Nat
ASSUME LastDayType == LastDay \in Nat \ {0}
ASSUME RequestsType == Requests \subseteq RequestType
ASSUME ConfigsType == Configs \subseteq ConfigType
ASSUME NoRequestFresh == NoRequest \notin RequestType
ASSUME NoDayFresh == NoDay \notin Nat
ASSUME NoOutputFresh == NoOutput \notin OutputType

VARIABLES
    config,     \* which gateway the processes share
    today,      \* the UTC date
    counter,    \* llm:cloud_calls:{date}
    cache,      \* llm:cache:{date}:{digest}
    pc,         \* where each call is
    req,        \* what each call asks
    keyDay,     \* the date in the cache key of each call
    grant,      \* the day that pays for the cloud call about to be made
    output,     \* the answer a call holds
    cached, escalated,      \* fields of LLMCompletionResult
    sent,       \* history: cloud calls made by each call
    spent       \* history: cloud calls charged to each day

vars == <<config, today, counter, cache, pc, req, keyDay, grant, output, cached,
          escalated, sent, spent>>

-----------------------------------------------------------------------------
(* Decisions that only look at the request and the configuration. *)

\* PrivacyGate.guard
Allowed(r) == r.sensitivity \in {"AGGREGATED", "PUBLIC"}

\* Escalation before the call: only from local, and only past the gate.
Overridden(r) == config.policy /\ r.route = "local" /\ r.risky /\ Allowed(r)

ProviderOf(r) == IF Overridden(r) THEN "cloud" ELSE r.route

\* No route, no client, or a payload that may not leave for the cloud.
Fault_RefusedUnguarded(r) == r.route = "undefined" \/ ProviderOf(r) \notin config.clients
Refused(r) ==
    \/ r.route = "undefined"
    \/ ProviderOf(r) \notin config.clients
    \/ ProviderOf(r) = "cloud" /\ ~Allowed(r)

Provider(c) == ProviderOf(req[c])

\* should_verify_after; an empty answer does not validate either.
Fault_VerifiableByRoute(c, kind) ==
    config.policy /\ req[c].route = "local" /\ kind # "valid" /\ "cloud" \in config.clients
Verifiable(c, kind) ==
    config.policy /\ Provider(c) = "local" /\ kind # "valid" /\ "cloud" \in config.clients

\* Only what the cloud answered first is kept, and only if there is something.
Fault_StorableEmpty(c, kind) == config.cache /\ Provider(c) = "cloud"
Storable(c, kind) == config.cache /\ Provider(c) = "cloud" /\ kind # "empty"

Fault_KeyWithoutDate(c) == <<1, req[c].prompt>>
Key(c) == <<keyDay[c], req[c].prompt>>

Fault_OutputOfPaidDay(c, kind, by, verifying) ==
    [kind |-> kind, by |-> by, prompt |-> req[c].prompt, day |-> grant[c],
     verifying |-> verifying]
OutputOf(c, kind, by, verifying) ==
    [kind |-> kind, by |-> by, prompt |-> req[c].prompt, day |-> keyDay[c],
     verifying |-> verifying]

-----------------------------------------------------------------------------
Init ==
    /\ config \in Configs
    /\ today = 1
    /\ counter = [d \in Days |-> 0]
    /\ cache = [k \in Days \X Prompts |-> NoOutput]
    /\ pc = [c \in Calls |-> "idle"]
    /\ req = [c \in Calls |-> NoRequest]
    /\ keyDay = [c \in Calls |-> NoDay]
    /\ grant = [c \in Calls |-> NoDay]
    /\ output = [c \in Calls |-> NoOutput]
    /\ cached = [c \in Calls |-> FALSE]
    /\ escalated = [c \in Calls |-> FALSE]
    /\ sent = [c \in Calls |-> 0]
    /\ spent = [d \in Days |-> 0]

Goto(c, place) == pc' = [pc EXCEPT ![c] = place]

\* Where a call goes that has to ask its provider.
Fault_AskAtUncounted(p) == "call"
AskAt(p) == IF p = "cloud" /\ config.budget THEN "consume" ELSE "call"

BeginRefused(c, r) ==
    /\ pc[c] = "idle" /\ Refused(r)
    /\ req' = [req EXCEPT ![c] = r]
    /\ Goto(c, "raised")
    /\ UNCHANGED <<config, today, counter, cache, keyDay, grant, output, cached, escalated,
                   sent, spent>>

Begin(c, r) ==
    /\ pc[c] = "idle" /\ ~Refused(r)
    /\ req' = [req EXCEPT ![c] = r]
    /\ keyDay' = [keyDay EXCEPT ![c] = today]
    /\ escalated' = [escalated EXCEPT ![c] = Overridden(r)]
    /\ Goto(c, IF ProviderOf(r) = "cloud" /\ config.cache
               THEN "lookup" ELSE AskAt(ProviderOf(r)))
    /\ UNCHANGED <<config, today, counter, cache, grant, output, cached, sent, spent>>

LookUpHit(c) ==
    /\ pc[c] = "lookup" /\ cache[Key(c)] # NoOutput
    /\ output' = [output EXCEPT ![c] = cache[Key(c)]]
    /\ cached' = [cached EXCEPT ![c] = TRUE]
    /\ Goto(c, "done")
    /\ UNCHANGED <<config, today, counter, cache, req, keyDay, grant, escalated, sent, spent>>

\* A Redis error or a value that does not decode is a miss too.
Fault_AfterMissRetried == "lookup"
AfterMiss == AskAt("cloud")

LookUpMiss(c) ==
    /\ pc[c] = "lookup"
    /\ Goto(c, AfterMiss)
    /\ UNCHANGED <<config, today, counter, cache, req, keyDay, grant, output, cached,
                   escalated, sent, spent>>

\* INCR: the count it returns decides.
Fault_WithinLimitOffByOne == counter[today] <= Limit
WithinLimit == counter[today] + 1 <= Limit

Consume(c, place, granted, refused) ==
    /\ pc[c] = place
    /\ counter' = [counter EXCEPT ![today] = @ + 1]
    /\ IF WithinLimit
       THEN grant' = [grant EXCEPT ![c] = today] /\ Goto(c, granted)
       ELSE Goto(c, refused) /\ UNCHANGED grant
    /\ UNCHANGED <<config, today, cache, req, keyDay, output, cached, escalated, sent, spent>>

\* Redis fails, before or after it incremented.
ConsumeFails(c, place, refused) ==
    /\ pc[c] = place
    /\ \E counted \in {counter[today], counter[today] + 1} :
         counter' = [counter EXCEPT ![today] = counted]
    /\ Goto(c, refused)
    /\ UNCHANGED <<config, today, cache, req, keyDay, grant, output, cached, escalated, sent,
                   spent>>

\* A cloud call leaves: it uses up the grant.
Send(c, by) ==
    IF by = "cloud"
    THEN /\ sent' = [sent EXCEPT ![c] = @ + 1]
         /\ grant' = [grant EXCEPT ![c] = NoDay]
         /\ spent' = IF grant[c] = NoDay THEN spent ELSE [spent EXCEPT ![grant[c]] = @ + 1]
    ELSE UNCHANGED <<sent, grant, spent>>

CallAnswers(c, kind) ==
    /\ pc[c] = "call"
    /\ Send(c, Provider(c))
    /\ output' = [output EXCEPT ![c] = OutputOf(c, kind, Provider(c), FALSE)]
    /\ Goto(c, IF Storable(c, kind) THEN "store"
               ELSE IF Verifiable(c, kind) THEN "verify" ELSE "done")
    /\ UNCHANGED <<config, today, counter, cache, req, keyDay, cached, escalated>>

CallRaises(c) ==
    /\ pc[c] = "call"
    /\ Send(c, Provider(c))
    /\ Goto(c, "raised")
    /\ UNCHANGED <<config, today, counter, cache, req, keyDay, output, cached, escalated>>

\* A failing SET is swallowed.
Store(c) ==
    /\ pc[c] = "store"
    /\ \E kept \in {output[c], cache[Key(c)]} : cache' = [cache EXCEPT ![Key(c)] = kept]
    /\ Goto(c, IF Verifiable(c, output[c].kind) THEN "verify" ELSE "done")
    /\ UNCHANGED <<config, today, counter, req, keyDay, grant, output, cached, escalated, sent,
                   spent>>

\* _verify_with_cloud: the gate, then the budget; a refusal keeps the answer.
VerifyAt(r) == IF ~Allowed(r) THEN "done"
               ELSE IF config.budget THEN "verify_consume" ELSE "verify_call"

Verify(c) ==
    /\ pc[c] = "verify"
    /\ Goto(c, VerifyAt(req[c]))
    /\ UNCHANGED <<config, today, counter, cache, req, keyDay, grant, output, cached,
                   escalated, sent, spent>>

\* Once the second call was made the completion counts as escalated.
Attempted(c) == escalated' = [escalated EXCEPT ![c] = TRUE]

\* The second answer replaces the first one if it validates.
VerifyAnswers(c, kind) ==
    /\ pc[c] = "verify_call"
    /\ Send(c, "cloud")
    /\ Attempted(c)
    /\ output' = IF kind \in {"valid", "unsure"}
                 THEN [output EXCEPT ![c] = OutputOf(c, kind, "cloud", TRUE)]
                 ELSE output
    /\ Goto(c, "done")
    /\ UNCHANGED <<config, today, counter, cache, req, keyDay, cached>>

VerifyRaises(c) ==
    /\ pc[c] = "verify_call"
    /\ Send(c, "cloud")
    /\ Attempted(c)
    /\ Goto(c, "done")
    /\ UNCHANGED <<config, today, counter, cache, req, keyDay, output, cached>>

-----------------------------------------------------------------------------
(* What happens around the calls. *)

Ended(c) == pc[c] \in {"done", "raised", "crashed"}

\* The process of a call dies: what it paid for is lost.
Crash(c) ==
    /\ pc[c] # "idle" /\ ~Ended(c)
    /\ Goto(c, "crashed")
    /\ UNCHANGED <<config, today, counter, cache, req, keyDay, grant, output, cached,
                   escalated, sent, spent>>

Midnight ==
    /\ today < LastDay
    /\ today' = today + 1
    /\ UNCHANGED <<config, counter, cache, pc, req, keyDay, grant, output, cached, escalated,
                   sent, spent>>

\* LLM_CACHE_TTL_SECONDS went by.
Expire(k) ==
    /\ cache[k] # NoOutput
    /\ cache' = [cache EXCEPT ![k] = NoOutput]
    /\ UNCHANGED <<config, today, counter, pc, req, keyDay, grant, output, cached, escalated,
                   sent, spent>>

Terminated == (\A c \in Calls : Ended(c)) /\ UNCHANGED vars

Step(c) ==
    \/ LookUpHit(c) \/ LookUpMiss(c)
    \/ Consume(c, "consume", "call", "raised")
    \/ ConsumeFails(c, "consume", "raised")
    \/ \E kind \in Kinds : CallAnswers(c, kind)
    \/ CallRaises(c)
    \/ Store(c)
    \/ Verify(c)
    \/ Consume(c, "verify_consume", "verify_call", "done")
    \/ ConsumeFails(c, "verify_consume", "done")
    \/ \E kind \in Kinds : VerifyAnswers(c, kind)
    \/ VerifyRaises(c)

Next ==
    \/ \E c \in Calls, r \in Requests : BeginRefused(c, r) \/ Begin(c, r)
    \/ \E c \in Calls : Step(c) \/ Crash(c)
    \/ Midnight
    \/ \E k \in Days \X Prompts : Expire(k)
    \/ Terminated

Spec == Init /\ [][Next]_vars

FairSpec == Spec /\ \A c \in Calls : WF_vars(Step(c))

-----------------------------------------------------------------------------
Places == {"idle", "lookup", "consume", "call", "store", "verify", "verify_consume",
           "verify_call", "done", "raised", "crashed"}

TypeOK ==
    /\ config \in Configs
    /\ today \in Days
    /\ counter \in [Days -> Nat]
    /\ cache \in [Days \X Prompts -> OutputType \cup {NoOutput}]
    /\ pc \in [Calls -> Places]
    /\ req \in [Calls -> Requests \cup {NoRequest}]
    /\ keyDay \in [Calls -> Days \cup {NoDay}]
    /\ grant \in [Calls -> Days \cup {NoDay}]
    /\ output \in [Calls -> OutputType \cup {NoOutput}]
    /\ cached \in [Calls -> BOOLEAN]
    /\ escalated \in [Calls -> BOOLEAN]
    /\ sent \in [Calls -> Nat]
    /\ spent \in [Days -> Nat]

(* Whatever the route, the escalation and the verification decide, nothing   *)
(* but an aggregated or a public payload ever leaves for the cloud.          *)
PrivacyBoundary == \A c \in Calls : sent[c] > 0 => Allowed(req[c])

(* One completion costs one cloud call at most: an answer that already came  *)
(* from the cloud, by route or by escalation, is not verified there again.   *)
OneCloudCallEach == \A c \in Calls : sent[c] <= 1

CloudIsNext(c) == pc[c] = "verify_call" \/ (pc[c] = "call" /\ Provider(c) = "cloud")

(* With a budget no cloud call is made for free: each is charged to a day,   *)
(* and no day is charged more often than it was counted up.                  *)
CallsArePaid ==
    config.budget => /\ \A c \in Calls : CloudIsNext(c) => grant[c] # NoDay
                     /\ \A d \in Days : spent[d] <= counter[d]

(* A hit costs nothing and answers this very prompt, with an answer asked    *)
(* for on the same date: midnight invalidates, however long the TTL.         *)
HitsAreFreeAndFresh ==
    \A c \in Calls : cached[c] =>
        /\ sent[c] = 0 /\ grant[c] = NoDay
        /\ output[c].prompt = req[c].prompt /\ output[c].day = keyDay[c]

(* The cache holds first answers of the cloud that are not empty, under the  *)
(* key they answer: no local answer and no verifying one.                    *)
CacheHoldsFirstCloudAnswers ==
    \A k \in Days \X Prompts : cache[k] # NoOutput =>
        /\ cache[k].by = "cloud" /\ ~cache[k].verifying
        /\ cache[k].kind # "empty"
        /\ cache[k].day = k[1] /\ cache[k].prompt = k[2]

(* An answer the cloud gave to a task routed to local is reported as         *)
(* escalated, so that the fallback can be observed.                          *)
EscalationIsVisible ==
    \A c \in Calls : (pc[c] = "done" /\ req[c].route = "local" /\ output[c].by = "cloud")
                        => escalated[c]

(* What CloudBudget promises: Limit cloud calls a day, whoever makes them.   *)
Budget == INSTANCE CloudBudget

BudgetIsRespected == Budget!Spec

(* A completion that began comes to an end unless its process dies.          *)
CompletionsEnd == \A c \in Calls : pc[c] # "idle" ~> Ended(c)
=============================================================================
