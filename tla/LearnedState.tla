----------------------------- MODULE LearnedState -----------------------------
(***************************************************************************)
(* What an instance learns from bar to bar, and what a restart leaves of   *)
(* it.  RegimeClassifier blends each raw regime into four smoothed scores  *)
(* (alpha = 0.3).  What keeps them is a Redis copy under the instance's    *)
(* id, pushed at the end of every PushEvery-th cycle and read at start.    *)
(* main.py also means to keep them in a settings row, but looks for the    *)
(* classifier on a loop that it builds only afterwards: the row is never   *)
(* written or read.  Every failure of Redis is logged and ignored.         *)
(*                                                                         *)
(* Scores are exact integers: after n bars they are multiplied by 4*10^n.  *)
(***************************************************************************)
EXTENDS RegimeRules

CONSTANTS LearnerId,   \* instance ids: the web's are fresh, an operator may give one again
          Bars,        \* the readings a bar may have
          PushEvery,   \* cycles between two pushes to Redis (10 in the code)
          MaxBars,     \* bound: bars that the scores embody
          MaxCycles,   \* bound: cycles of one life
          MaxLives     \* bound: starts of the process

ASSUME LearnedAssumption ==
    /\ PushEvery \in Nat \ {0} /\ MaxBars \in Nat /\ MaxCycles \in Nat /\ MaxLives \in Nat
    /\ \A b \in Bars : b.ci \in Nat /\ b.adx \in Nat /\ b.atr \in Nat

VARIABLES
    up,         \* the process runs; while it is down the memory is what it last was
    me,         \* the instance id of this life, or of the last one
    smoothed,   \* RegimeClassifier._smoothed
    redis,      \* alphaloop:regime:<id>:<symbol> of each id, or NoState
    cycle,      \* TradingLoop._cycle_count of this life
    inCycle,    \* between the classification and the end of the cycle
    regime,     \* the regime of the last snapshot
    redisUp,    \* Redis answered when this life started
    clean,      \* ghost: in this life Redis answered, no read or push failed and the
                \* copy did not expire
    lives       \* ghost: number of starts
learnedVars == <<up, me, smoothed, redis, cycle, inCycle, regime, redisUp, clean, lives>>

NoState == [n |-> -1]
Fresh == [n |-> 0, s |-> [r \in Regimes |-> 1]]

Blend(st, raw) ==
    LET one == 4 * 3 * 10 ^ st.n
    IN  [n |-> st.n + 1,
         s |-> [r \in Regimes |-> 7 * st.s[r] + IF r = raw THEN one ELSE 0]]

\* max(dict, key=...): the first of the dictionary's order with the highest score.
Strongest(st) ==
    LET best == {i \in DOMAIN RegimeOrder :
                    \A r \in Regimes : st.s[RegimeOrder[i]] >= st.s[r]}
    IN  RegimeOrder[CHOOSE i \in best : \A j \in best : i <= j]

LearnedInit ==
    /\ up = FALSE /\ me \in LearnerId /\ smoothed = Fresh
    /\ redis = [i \in LearnerId |-> NoState]
    /\ cycle = 0 /\ inCycle = FALSE /\ regime = "neutral"
    /\ redisUp = FALSE /\ clean = FALSE /\ lives = 0

Restored(i, readable) == IF readable /\ redis[i] # NoState THEN redis[i] ELSE Fresh

\* main_async: without a connection there is no Redis copy in this life; a read that fails
\* leaves the classifier fresh.
StartInstance(i) ==
    /\ ~up /\ lives < MaxLives
    /\ \E reachable, read \in BOOLEAN :
          /\ smoothed' = Restored(i, reachable /\ read)
          /\ redisUp' = reachable /\ clean' = (reachable /\ read)
    /\ up' = TRUE /\ me' = i /\ cycle' = 0 /\ inCycle' = FALSE /\ lives' = lives + 1
    /\ UNCHANGED <<redis, regime>>

\* classify(): blend and report; its callback _on_state_changed is never set.
Classify ==
    /\ up /\ ~inCycle /\ smoothed.n < MaxBars
    /\ \E bar \in Bars : smoothed' = Blend(smoothed, RawRegime(bar))
    /\ regime' = Strongest(smoothed')
    /\ inCycle' = TRUE
    /\ UNCHANGED <<up, me, redis, cycle, redisUp, clean, lives>>

\* Mutant: the copy is pushed once.
PushDueOnce(c) == redisUp /\ c = PushEvery

PushDue(c) == redisUp /\ c % PushEvery = 0

\* The finally block of a cycle; a cycle that never reached classify() ends too.
EndCycle ==
    /\ up /\ cycle < MaxCycles
    /\ cycle' = cycle + 1
    /\ IF PushDue(cycle')
       THEN \E pushed \in BOOLEAN :
               /\ redis' = IF pushed THEN [redis EXCEPT ![me] = smoothed] ELSE redis
               /\ clean' = (clean /\ pushed)
       ELSE UNCHANGED <<redis, clean>>
    /\ inCycle' = FALSE
    /\ UNCHANGED <<up, me, smoothed, regime, redisUp, lives>>

\* A crash or an orderly end: neither pushes.
EndLife ==
    /\ up /\ up' = FALSE
    /\ UNCHANGED <<me, smoothed, redis, cycle, inCycle, regime, redisUp, clean, lives>>

\* _STATE_TTL is a day from the last push.
CacheExpires(i) ==
    /\ redis[i] # NoState /\ redis' = [redis EXCEPT ![i] = NoState]
    /\ clean' = (clean /\ i # me)
    /\ UNCHANGED <<up, me, smoothed, cycle, inCycle, regime, redisUp, lives>>

LearnedNext ==
    \/ \E i \in LearnerId : StartInstance(i) \/ CacheExpires(i)
    \/ Classify \/ EndCycle \/ EndLife
LearnedSpec == LearnedInit /\ [][LearnedNext]_learnedVars

-----------------------------------------------------------------------------
\* A start brings back an older regime state than the one the process died with: it
\* forgets the bars of one push interval at most if it has the id of the life before it,
\* and Redis answered in both.  Under a fresh id, as every start by the web has, or
\* without Redis, it forgets everything.
CleanRestartLosesLittle ==
    [][\A i \in LearnerId :
          StartInstance(i) /\ lives > 0 /\ i = me /\ clean /\ clean' =>
             smoothed.n - smoothed'.n <= PushEvery]_learnedVars
===============================================================================
