------------------------------ MODULE AiSignals ------------------------------
(***************************************************************************)
(* The AI signal path of one instance: MultiAssetSignalEngine with its     *)
(* truncation counter and circuit breaker (signals/engine.py), AICaller    *)
(* with its retries and fallback model (ai/caller.py), and the sliding     *)
(* window of AsyncRateLimiter (ai/rate_limiter.py).  Time is in ticks.     *)
(***************************************************************************)
EXTENDS Integers, Sequences, FiniteSetsExt

CONSTANTS
    ModelChain,   \* the known and enabled models: that of the role, then the fallback
    ProviderOf,   \* provider of a model
    Keyed,        \* providers with an API key
    MaxCalls, Window,   \* limit of calls per provider (AI_RATE_LIMIT_*)
    MaxRetries,   \* retries of the first model (DEFAULT_MAX_RETRIES)
    Threshold, Pause,   \* _CIRCUIT_BREAKER_THRESHOLD, _CIRCUIT_BREAKER_PAUSE_SEC
    MaxNow        \* bound: ticks

ASSUME AiAssumption ==
    /\ ModelChain # <<>> /\ \A i \in DOMAIN ModelChain : ModelChain[i] \in DOMAIN ProviderOf
    /\ MaxCalls \in Nat \ {0} /\ Window \in Nat /\ MaxRetries \in Nat
    /\ Threshold \in Nat \ {0} /\ Pause \in Nat /\ MaxNow \in Nat

Providers == {ProviderOf[ModelChain[i]] : i \in DOMAIN ModelChain}

VARIABLES
    now,
    recent,       \* AsyncRateLimiter._calls: times per provider
    job,          \* the call in progress: entry point, model, attempt, time to act
    truncations,  \* _consecutive_truncations
    breakerUntil, \* _circuit_breaker_until
    sent,         \* ghost: times of all provider calls
    malformed     \* ghost: malformed answers since the last accepted signal
aiVars == <<now, recent, job, truncations, breakerUntil, sent, malformed>>

IdleJob == [entry |-> "none", model |-> 1, attempt |-> 1, wake |-> 0]

AiInit ==
    /\ now = 0 /\ recent = [p \in Providers |-> <<>>] /\ job = IdleJob
    /\ truncations = 0 /\ breakerUntil = 0
    /\ sent = [p \in Providers |-> <<>>] /\ malformed = 0

Tick ==
    /\ now < MaxNow /\ now' = now + 1
    /\ UNCHANGED <<recent, job, truncations, breakerUntil, sent, malformed>>

\* generate_signal or generate_hypothesis; a tripped breaker answers None at once.
Ask ==
    /\ job = IdleJob /\ now >= breakerUntil
    /\ \E entry \in {"signal", "hypothesis"} : job' = [IdleJob EXCEPT !.entry = entry, !.wake = now]
    /\ UNCHANGED <<now, recent, truncations, breakerUntil, sent, malformed>>

-----------------------------------------------------------------------------
(* AICaller.call_model *)

\* The oldest calls leave while they are outside the window.
RecentCalls(p) ==
    LET within == {i \in DOMAIN recent[p] : now - recent[p][i] <= Window}
    IN  IF within = {} THEN <<>> ELSE SubSeq(recent[p], Min(within), Len(recent[p]))

WithinLimit(p) == Len(RecentCalls(p)) < MaxCalls

NextModel ==
    IF job.model < Len(ModelChain)
    THEN job' = [job EXCEPT !.model = @ + 1, !.attempt = 1, !.wake = now] ELSE job' = IdleJob

\* Only the first model is retried, after a delay that doubles.
Failed ==
    IF job.model = 1 /\ job.attempt <= MaxRetries
    THEN job' = [job EXCEPT !.attempt = @ + 1, !.wake = now + 2 ^ (job.attempt - 1)]
    ELSE NextModel

\* RateLimitError is raised at once: neither a retry nor the fallback follows.
RateLimited ==
    /\ job # IdleJob /\ now >= job.wake
    /\ LET p == ProviderOf[ModelChain[job.model]]
       IN  ~WithinLimit(p) /\ recent' = [recent EXCEPT ![p] = RecentCalls(p)]
    /\ job' = IdleJob
    /\ UNCHANGED <<now, truncations, breakerUntil, sent, malformed>>

\* A provider without a key costs a slot of the limiter, then its model is given up.
NoKey ==
    /\ job # IdleJob /\ now >= job.wake
    /\ LET p == ProviderOf[ModelChain[job.model]]
       IN  /\ WithinLimit(p) /\ p \notin Keyed
           /\ recent' = [recent EXCEPT ![p] = Append(RecentCalls(p), now)]
    /\ NextModel
    /\ UNCHANGED <<now, truncations, breakerUntil, sent, malformed>>

Dispatched(p) ==
    /\ job # IdleJob /\ now >= job.wake
    /\ p = ProviderOf[ModelChain[job.model]] /\ WithinLimit(p) /\ p \in Keyed
    /\ recent' = [recent EXCEPT ![p] = Append(RecentCalls(p), now)]
    /\ sent' = [sent EXCEPT ![p] = Append(@, now)]

\* A timeout or a provider error.
CallFails ==
    /\ \E p \in Providers : Dispatched(p)
    /\ Failed
    /\ UNCHANGED <<now, truncations, breakerUntil, malformed>>

-----------------------------------------------------------------------------
(* _parse_signal; _parse_hypothesis counts nothing *)

Answers == {"signal", "neutral", "invalid", "no_json", "no_target",
            "repaired_signal", "repaired_neutral", "repaired_no_target"}
Accepted == {"signal", "repaired_signal"}
Malformed == Answers \ {"signal", "neutral", "invalid"}

\* The calls of _record_truncation for an answer: one for the repair or for the lack of
\* JSON, and one for a missing target.
Truncations(kind) ==
    IF kind = "repaired_no_target" THEN 2 ELSE IF kind \in Malformed THEN 1 ELSE 0

\* Mutant: an accepted signal leaves the counter.
AfterAnswerKept(kind) == truncations + Truncations(kind)

\* The counter after an answer: a neutral or an invalid one leaves it.
AfterAnswer(kind) == IF kind \in Accepted THEN 0 ELSE truncations + Truncations(kind)

\* The breaker is tested after every increment, before an accepted signal clears it.
CallAnswers ==
    /\ \E p \in Providers : Dispatched(p)
    /\ job' = IdleJob
    /\ \E kind \in Answers :
          IF job.entry = "signal"
          THEN /\ truncations' = AfterAnswer(kind)
               /\ breakerUntil' =
                     IF kind \in Malformed /\ truncations + Truncations(kind) >= Threshold
                     THEN now + Pause ELSE breakerUntil
               /\ malformed' = IF kind \in Accepted THEN 0
                               ELSE IF kind \in Malformed THEN malformed + 1 ELSE malformed
          ELSE UNCHANGED <<truncations, breakerUntil, malformed>>
    /\ UNCHANGED now

AiNext == Tick \/ Ask \/ RateLimited \/ NoKey \/ CallFails \/ CallAnswers
AiSpec == AiInit /\ [][AiNext]_aiVars

-----------------------------------------------------------------------------
\* Whatever retries and fallbacks do, no provider is called more than MaxCalls times
\* within any Window (a sliding one, not one that restarts), nor while the breaker is
\* open.  The breaker opens with the Threshold-th malformed answer since the last accepted
\* signal at the latest, and never before half of them, since an answer that was repaired
\* and has no target counts twice.
WithinRate ==
    \A p \in Providers : \A i \in DOMAIN sent[p] :
        i + MaxCalls \in DOMAIN sent[p] => sent[p][i + MaxCalls] - sent[p][i] > Window
TripsInTime ==
    /\ breakerUntil' # breakerUntil => 2 * (malformed + 1) >= Threshold
    /\ malformed' > malformed /\ malformed' >= Threshold => breakerUntil' = now + Pause
BreakerHolds ==
    [][/\ TripsInTime
       /\ sent' # sent => now >= breakerUntil /\ WithinRate']_aiVars
===============================================================================
