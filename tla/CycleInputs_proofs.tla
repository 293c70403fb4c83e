-------------------------- MODULE CycleInputs_proofs ---------------------------
(***************************************************************************)
(* Theorems about what a cycle is given: news (NewsCalendar), the regime   *)
(* state of earlier cycles (LearnedState), the answers of models           *)
(* (AiSignals), algorithmic signals (SignalRules) and the structure of the *)
(* market (MarketStructure), for any values of their constants.            *)
(***************************************************************************)
EXTENDS NewsCalendar, LearnedState, AiSignals, SignalRules, MarketStructure,
        SequenceTheorems, WellFoundedInduction, TLAPS

-----------------------------------------------------------------------------
(* The news *)

Event == [at : Nat, high : BOOLEAN]
Near(e, from, to) == from <= e.at /\ e.at <= to

CalendarTypes ==
    /\ clock \in Nat /\ calendar \in Calendars
    /\ cached.at \in Int /\ cached.at <= clock

\* What was cached of a complete list has every event of the window at that time, but for
\* those of a week that is over.
CacheComplete ==
    cached # NoCache /\ ~half =>
        \A e \in calendar :
            Near(e, cached.at - Blackout, cached.at + Lookahead) =>
                e \in cached.events \/ (e.at <= WeekEnd /\ WeekEnd < cached.at)

\* The context has what is cached, says that there is nothing, or is missing.
ContextFromCache ==
    \/ news \in {NoContext, Unavailable} \/ raised
    \/ cached # NoCache /\ news = Events(cached.events)

CalendarInv == CalendarTypes /\ CacheComplete /\ ContextFromCache

LEMMA EventTypes ==
  ASSUME CalendarTypes, NEW e \in calendar
  PROVE  e \in Event /\ e.at \in Nat
BY CalendarAssumption DEF CalendarTypes, Event

\* A paid provider is asked for whole days, which cover the window.
LEMMA PaidCovers ==
  ASSUME CalendarTypes, NEW e \in calendar, Near(e, clock - Blackout, clock + Lookahead)
  PROVE  e \in PaidEvents
<1>1. /\ clock - Blackout \in Int /\ clock + Lookahead \in Int /\ e.at \in Int
      /\ Day \in Int /\ Day > 0
  BY EventTypes, CalendarAssumption DEF CalendarTypes
<1>2. \A a, b, d \in Int : d > 0 /\ a <= b => a \div d <= b \div d /\ a \div d \in Int
  OBVIOUS
<1>3. /\ (clock - Blackout) \div Day <= e.at \div Day
      /\ e.at \div Day <= (clock + Lookahead) \div Day
  BY <1>1, <1>2 DEF Near
<1>4. e.at \div Day \in Int /\ (clock - Blackout) \div Day \in Int
      /\ (clock + Lookahead) \div Day \in Int
  BY <1>1
<1> QED
  BY <1>3, <1>4 DEF PaidEvents

\* Both files of ForexFactory have the window, but for the week that is over.
LEMMA ForexFactoryCovers ==
  ASSUME CalendarTypes, NEW e \in calendar, Near(e, clock - Blackout, clock + Lookahead),
         ~(e.at <= WeekEnd /\ WeekEnd < clock)
  PROVE  e \in ForexFactory({"this", "next"})
<1>1. e.at \in Nat /\ WeekEnd \in Nat /\ clock \in Nat /\ Blackout \in Nat /\ Lookahead \in Nat
  BY EventTypes, CalendarAssumption DEF CalendarTypes
<1>2. InWindow(e)
  BY <1>1 DEF InWindow, Near
<1>3. e \in WeekFile("this") \/ e \in WeekFile("next")
  BY <1>1 DEF WeekFile
<1> QED
  BY <1>2, <1>3 DEF ForexFactory

\* A fetch that filled the cache.
Filled(events) ==
    cached' = [at |-> clock, events |-> events] /\ news' = Events(events)
    /\ UNCHANGED <<clock, calendar>>
Whole(events) ==
    \A e \in calendar :
        Near(e, clock - Blackout, clock + Lookahead) =>
            e \in events \/ (e.at <= WeekEnd /\ WeekEnd < clock)

LEMMA RefreshInv ==
  ASSUME CalendarInv, NEW events, Filled(events), ~half' => Whole(events)
  PROVE  CalendarInv'
<1>1. cached'.at = clock /\ cached'.events = events /\ news' = Events(events)
      /\ UNCHANGED <<clock, calendar>>
  BY DEF Filled
<1>2. cached' # NoCache
  BY <1>1 DEF NoCache, CalendarInv, CalendarTypes
<1>3. CalendarTypes'
  BY <1>1 DEF CalendarInv, CalendarTypes
<1>4. CacheComplete'
  BY <1>1 DEF CacheComplete, Near, Whole
<1>5. ContextFromCache'
  BY <1>1, <1>2 DEF ContextFromCache, Events
<1> QED
  BY <1>3, <1>4, <1>5 DEF CalendarInv

LEMMA CalendarNextInv ==
  ASSUME CalendarInv, [CalendarNext]_calendarVars
  PROVE  CalendarInv'
<1>1. CASE BuildContext
  <2>1. UNCHANGED <<clock, calendar, paid>>
    BY <1>1 DEF BuildContext
  <2>2. CASE ReadCache
    <3>1. cached # NoCache /\ UNCHANGED <<cached, half, raised>> /\ news' = Events(cached.events)
      BY <2>2 DEF ReadCache, Served
    <3> QED
      BY <2>1, <3>1 DEF CalendarInv, CalendarTypes, CacheComplete, ContextFromCache, Events, Near
  <2>3. CASE FetchPaid
    <3>1. Filled(PaidEvents)
      BY <2>1, <2>3 DEF FetchPaid, Refresh, Filled
    <3>2. Whole(PaidEvents)
      BY PaidCovers DEF CalendarInv, Whole
    <3> QED
      BY <3>1, <3>2, RefreshInv DEF Filled
  <2>4. CASE FetchForexFactory
    <3>1. PICK weeks \in {{"this", "next"}, {"this"}, {"next"}} :
              Refresh(ForexFactory(weeks), ForexFactory(weeks) # ForexFactory({"this", "next"}))
      BY <2>4 DEF FetchForexFactory
    <3>2. Filled(ForexFactory(weeks))
      BY <2>1, <3>1 DEF Refresh, Filled
    <3>3. ~half' => ForexFactory(weeks) = ForexFactory({"this", "next"})
      BY <3>1 DEF Refresh
    <3>4. Whole(ForexFactory({"this", "next"}))
      BY ForexFactoryCovers DEF CalendarInv, Whole
    <3>5. ~half' => Whole(ForexFactory(weeks))
      BY <3>3, <3>4, Zenon DEF Whole
    <3> QED
      BY <3>2, <3>5, RefreshInv DEF Filled
  <2>5. CASE FetchNothing
    <3>1. UNCHANGED <<cached, half, raised>>
          /\ news' = IF cached.events # {} THEN Events(cached.events) ELSE Unavailable
      BY <2>5 DEF FetchNothing
    <3>2. cached.events # {} => cached # NoCache
      BY DEF NoCache
    <3> QED
      BY <2>1, <3>1, <3>2 DEF CalendarInv, CalendarTypes, CacheComplete, ContextFromCache, Events, Near
  <2>6. CASE ContextRaises
    BY <2>1, <2>6 DEF CalendarInv, ContextRaises, CalendarTypes, CacheComplete, ContextFromCache, Near
  <2> QED
    BY <1>1, <2>2, <2>3, <2>4, <2>5, <2>6 DEF BuildContext
<1>2. CASE CycleOver
  <2>1. UNCHANGED <<calendar, cached, half>> /\ news' = NoContext /\ raised' = FALSE
    BY <1>2 DEF CycleOver
  <2>2. clock' \in Nat /\ clock' >= clock
    BY <1>2 DEF CalendarInv, CycleOver, CalendarTypes
  <2>3. CalendarTypes'
    BY <2>1, <2>2 DEF CalendarInv, CalendarTypes
  <2> QED
    BY <2>1, <2>3 DEF CalendarInv, CacheComplete, ContextFromCache, Near
<1>3. CASE RestartProcess
  <2>1. UNCHANGED <<clock, calendar>> /\ cached' = NoCache /\ news' = NoContext
        /\ half' = FALSE /\ raised' = FALSE
    BY <1>3 DEF RestartProcess
  <2>2. CalendarTypes'
    BY <2>1 DEF CalendarInv, CalendarTypes, NoCache
  <2> QED
    BY <2>1, <2>2 DEF CalendarInv, CacheComplete, ContextFromCache
<1>4. CASE UNCHANGED calendarVars
  BY <1>4 DEF CalendarInv, calendarVars, CalendarTypes, CacheComplete, ContextFromCache, Events, Near
<1> QED
  BY <1>1, <1>2, <1>3, <1>4 DEF CalendarNext

\* The filter blocks on an event that the context has.
LEMMA GateBlocks ==
  ASSUME CalendarTypes, NEW e \in calendar, e.high,
         e.at \in clock - Blackout .. clock + Blackout,
         news = Unavailable \/ e \in news.list
  PROVE  ~NewsGate(NewsReading).passed
<1> DEFINE r == [high |-> e.high, unparsed |-> FALSE, minutes |-> 10 * (e.at - clock)]
<1>1. CASE news = Unavailable
  BY <1>1 DEF NewsGate, NewsReading, Has, Block
<1>2. CASE e \in news.list
  <2>1. r \in NewsReading.news
    BY <1>2 DEF NewsReading
  <2>2. r.high /\ r.minutes \in -30 .. 30
    BY EventTypes, CalendarAssumption DEF CalendarTypes
  <2> HIDE DEF r
  <2>3. \E x \in NewsReading.news : x.high /\ (x.unparsed \/ x.minutes \in -30 .. 30)
    BY <2>1, <2>2
  <2>4. NewsGate(NewsReading) = Block
    BY <2>3 DEF NewsGate
  <2> QED
    BY <2>4 DEF Block
<1> QED
  BY <1>1, <1>2

\* No trade passes within the blackout of an event of high impact, but for the gaps that
\* NewsIsSeen names (data/news.py, tools/plugins/news_filter).
THEOREM NewsAreSeen == CalendarSpec => []NewsIsSeen
<1>1. CalendarInit => CalendarInv
  <2> SUFFICES ASSUME CalendarInit PROVE CalendarInv
    OBVIOUS
  <2>1. clock = 0 /\ calendar \in Calendars /\ cached = NoCache /\ news = NoContext
        /\ half = FALSE /\ raised = FALSE
    BY DEF CalendarInit
  <2>2. CalendarTypes
    BY <2>1 DEF CalendarTypes, NoCache
  <2> QED
    BY <2>1, <2>2 DEF CalendarInv, CacheComplete, ContextFromCache
<1>2. CalendarInv /\ [CalendarNext]_calendarVars => CalendarInv'
  BY CalendarNextInv
<1>3. CalendarInv => NewsIsSeen
  <2> SUFFICES ASSUME CalendarInv, NEW e \in calendar, news # NoContext, e.high,
                      e.at \in clock - Blackout .. clock + Blackout,
                      ~half, ~raised,
                      ~(cached # NoCache /\ clock > cached.at + Lookahead - Blackout),
                      ~(e.at <= WeekEnd /\ WeekEnd < cached.at)
               PROVE  ~NewsGate(NewsReading).passed
    BY DEF NewsIsSeen
  <2>1. CASE news = Unavailable
    BY <2>1, GateBlocks DEF CalendarInv
  <2>2. CASE news # Unavailable
    <3>1. cached # NoCache /\ news = Events(cached.events)
      BY <2>2 DEF CalendarInv, ContextFromCache
    <3>2. Near(e, cached.at - Blackout, cached.at + Lookahead)
      BY <3>1, EventTypes, CalendarAssumption DEF CalendarInv, CalendarTypes, Near
    <3>3. e \in cached.events
      BY <3>1, <3>2 DEF CalendarInv, CacheComplete
    <3>4. e \in news.list
      BY <3>1, <3>3 DEF Events
    <3> QED
      BY <3>4, GateBlocks DEF CalendarInv
  <2> QED
    BY <2>1, <2>2
<1> QED
  BY <1>1, <1>2, <1>3, PTL DEF CalendarSpec

-----------------------------------------------------------------------------
(* The regime state *)

\* Division with remainder, and how the remainder of a count grows.
LEMMA Remainder ==
  ASSUME NEW p \in Int, p > 0, NEW q \in Int, NEW r \in Int, 0 <= r, r < p
  PROVE  (p * q + r) % p = r
OBVIOUS

LEMMA NextRemainder ==
  ASSUME NEW c \in Nat, NEW p \in Int, p > 0, (c + 1) % p # 0
  PROVE  (c + 1) % p = (c % p) + 1
<1> DEFINE q == c \div p
           r == c % p
<1>1. c = p * q + r /\ q \in Int /\ r \in Int /\ 0 <= r /\ r < p
  OBVIOUS
<1> HIDE DEF q, r
<1>2. CASE r + 1 < p
  <2>1. c + 1 = p * q + (r + 1)
    BY <1>1
  <2>2. (p * q + (r + 1)) % p = r + 1
    BY <1>1, <1>2, Remainder
  <2> QED
    BY <2>1, <2>2 DEF r
<1>3. CASE r + 1 = p
  <2>1. c + 1 = p * (q + 1) + 0
    BY <1>1, <1>3
  <2>2. (p * (q + 1) + 0) % p = 0
    BY <1>1, Remainder
  <2> QED
    BY <2>1, <2>2
<1> QED
  BY <1>1, <1>2, <1>3

\* Cycles since the last push that was due, the bar of a cycle that has not ended, and the
\* bars that a start under this id would find.
SincePush == cycle % PushEvery
ThisBar == IF inCycle THEN 1 ELSE 0
Copied(i) == IF redis[i] = NoState THEN 0 ELSE redis[i].n

LearnedTypes ==
    /\ smoothed.n \in Nat /\ cycle \in Nat /\ me \in LearnerId
    /\ DOMAIN redis = LearnerId
    /\ \A i \in LearnerId : redis[i] # NoState => redis[i].n \in Nat

\* While nothing went wrong, the copy lacks the bars since the last push that was due: a
\* start under this id must not forget more than a push interval.
NothingLost == clean => redisUp /\ smoothed.n <= Copied(me) + SincePush + ThisBar

LearnedInv == LearnedTypes /\ NothingLost

LEMMA SincePushRange ==
  ASSUME LearnedTypes
  PROVE  PushEvery \in Int /\ PushEvery > 0 /\ SincePush \in Int
         /\ 0 <= SincePush /\ SincePush < PushEvery
BY LearnedAssumption DEF LearnedTypes, SincePush

LEMMA StartInv ==
  ASSUME LearnedInv, NEW i \in LearnerId, StartInstance(i)
  PROVE  /\ LearnedInv'
         /\ i = me /\ clean /\ clean' => smoothed.n - smoothed'.n <= PushEvery
<1>1. PICK reachable \in BOOLEAN, read \in BOOLEAN :
        /\ smoothed' = Restored(i, reachable /\ read)
        /\ redisUp' = reachable /\ clean' = (reachable /\ read)
  BY DEF StartInstance
<1>2. me' = i /\ cycle' = 0 /\ inCycle' = FALSE /\ UNCHANGED redis
  BY DEF StartInstance
<1>3. smoothed'.n = IF reachable /\ read THEN Copied(i) ELSE 0
  BY <1>1 DEF Restored, Copied, Fresh
<1>4. Copied(i) \in Nat
  BY DEF Copied, LearnedInv, LearnedTypes
<1>5. LearnedTypes'
  BY <1>2, <1>3, <1>4 DEF LearnedInv, LearnedTypes
<1>6. NothingLost'
  <2>1. SincePush' \in Int /\ 0 <= SincePush' /\ ThisBar' = 0
    BY <1>2, LearnedAssumption DEF SincePush, ThisBar
  <2>2. Copied(me)' = Copied(i)
    BY <1>2 DEF Copied
  <2> QED
    BY <1>1, <1>3, <1>4, <2>1, <2>2 DEF NothingLost
<1>7. i = me /\ clean /\ clean' => smoothed.n - smoothed'.n <= PushEvery
  BY <1>1, <1>3, <1>4, SincePushRange DEF LearnedInv, LearnedTypes, NothingLost, ThisBar
<1> QED
  BY <1>5, <1>6, <1>7 DEF LearnedInv

LEMMA ClassifyInv ==
  ASSUME LearnedInv, Classify
  PROVE  LearnedInv'
<1>1. PICK bar \in Bars : smoothed' = Blend(smoothed, RawRegime(bar))
  BY DEF Classify
<1>2. smoothed'.n = smoothed.n + 1
  BY <1>1 DEF Blend
<1>3. ~inCycle /\ inCycle' = TRUE /\ UNCHANGED <<me, redis, cycle, redisUp, clean>>
  BY DEF Classify
<1>4. LearnedTypes'
  BY <1>2, <1>3 DEF LearnedInv, LearnedTypes
<1>5. SincePush' = SincePush /\ ThisBar' = 1 /\ ThisBar = 0 /\ Copied(me)' = Copied(me)
  BY <1>3 DEF SincePush, ThisBar, Copied
<1>6. SincePush \in Int /\ Copied(me) \in Int
  BY SincePushRange DEF LearnedInv, LearnedTypes, Copied
<1> QED
  BY <1>2, <1>3, <1>4, <1>5, <1>6 DEF LearnedInv, LearnedTypes, NothingLost

LEMMA EndCycleInv ==
  ASSUME LearnedInv, EndCycle
  PROVE  LearnedInv'
<1>1. cycle' = cycle + 1 /\ inCycle' = FALSE /\ UNCHANGED <<me, smoothed, redisUp>>
  BY DEF EndCycle
<1>2. ThisBar' = 0 /\ ThisBar \in {0, 1}
  BY <1>1 DEF ThisBar
<1>3. SincePush \in Int /\ SincePush' \in Int /\ 0 <= SincePush' /\ Copied(me) \in Int
  BY <1>1, SincePushRange, LearnedAssumption DEF LearnedInv, LearnedTypes, SincePush, Copied
<1>4. CASE PushDue(cycle')
  <2>1. PICK pushed \in BOOLEAN :
          /\ redis' = IF pushed THEN [redis EXCEPT ![me] = smoothed] ELSE redis
          /\ clean' = (clean /\ pushed)
    BY <1>4 DEF EndCycle
  <2>2. LearnedTypes'
    BY <1>1, <2>1 DEF LearnedInv, LearnedTypes
  <2>3. ASSUME clean' PROVE clean /\ Copied(me)' = smoothed.n
    <3>1. clean /\ redis' = [redis EXCEPT ![me] = smoothed]
      BY <2>1, <2>3
    <3>2. redis'[me'] = smoothed
      BY <1>1, <3>1 DEF LearnedInv, LearnedTypes
    <3>3. redis'[me'] = NoState => smoothed.n = -1
      BY <3>2 DEF NoState
    <3> QED
      BY <3>1, <3>2, <3>3 DEF LearnedInv, LearnedTypes, Copied
  <2> QED
    BY <1>1, <1>2, <1>3, <2>2, <2>3 DEF LearnedInv, LearnedTypes, NothingLost
<1>5. CASE ~PushDue(cycle')
  <2>1. UNCHANGED <<redis, clean>>
    BY <1>5 DEF EndCycle
  <2>2. clean => SincePush' = SincePush + 1
    BY <1>1, <1>5, NextRemainder, SincePushRange
       DEF PushDue, LearnedInv, LearnedTypes, NothingLost, SincePush
  <2>3. Copied(me)' = Copied(me)
    BY <1>1, <2>1 DEF Copied
  <2> QED
    BY <1>1, <1>2, <1>3, <2>1, <2>2, <2>3 DEF LearnedInv, LearnedTypes, NothingLost
<1> QED
  BY <1>4, <1>5

LEMMA LearnedNextInv ==
  ASSUME LearnedInv, [LearnedNext]_learnedVars
  PROVE  LearnedInv'
<1> USE DEF LearnedInv, LearnedTypes, NothingLost, SincePush, ThisBar, Copied
<1>1. CASE EndLife \/ UNCHANGED learnedVars
  BY <1>1 DEF EndLife, learnedVars
<1>2. ASSUME NEW i \in LearnerId, CacheExpires(i) PROVE LearnedInv'
  BY <1>2 DEF CacheExpires
<1> QED
  BY <1>1, <1>2, StartInv, ClassifyInv, EndCycleInv DEF LearnedNext

\* A start under the id of the life before it, Redis having answered in both, forgets the
\* bars of one push interval at most, whenever that life ended (trading/loop.py, run and
\* _cycle; pipeline/redis_regime.py).
THEOREM RestartsLoseLittle == LearnedSpec => CleanRestartLosesLittle
<1>1. LearnedInit => LearnedInv
  BY DEF LearnedInit, LearnedInv, LearnedTypes, NothingLost, Fresh
<1>2. LearnedInv /\ [LearnedNext]_learnedVars => LearnedInv'
  BY LearnedNextInv
<1>3. LearnedInv /\ [LearnedNext]_learnedVars =>
        [\A i \in LearnerId :
           StartInstance(i) /\ lives > 0 /\ i = me /\ clean /\ clean' =>
             smoothed.n - smoothed'.n <= PushEvery]_learnedVars
  BY StartInv
<1> QED
  BY <1>1, <1>2, <1>3, PTL DEF LearnedSpec, CleanRestartLosesLittle

-----------------------------------------------------------------------------
(* The calls of a model *)

\* The limiter's list r is the end of all that was sent, s, and what it has forgotten by
\* the time t is outside the window.
Remembers(r, s, t) ==
    \E k \in Nat :
        /\ Len(s) = k + Len(r)
        /\ \A i \in 1 .. k : t - s[i] > Window
        /\ \A j \in 1 .. Len(r) : r[j] = s[k + j]

Apart(s) == \A i \in DOMAIN s : i + MaxCalls \in DOMAIN s => s[i + MaxCalls] - s[i] > Window

AiTypes ==
    /\ now \in Nat /\ breakerUntil \in Nat /\ truncations \in Nat
    /\ recent \in [Providers -> Seq(Nat)] /\ sent \in [Providers -> Seq(Nat)]

Counts == malformed \in Nat /\ malformed <= truncations /\ truncations <= 2 * malformed

\* The counter is between the ghost and its double, nobody works on a call while the breaker is open, and the
\* limiter remembers the end of what was sent.
AiInv ==
    /\ AiTypes
    /\ Counts
    /\ job # IdleJob => now >= breakerUntil
    /\ \A p \in Providers : Apart(sent[p])
    /\ \A p \in Providers : Remembers(recent[p], sent[p], now) \/ p \notin Keyed

\* Least-number principle, from the well-foundedness of < on Nat.
LEMMA LeastOf ==
  ASSUME NEW T \in SUBSET Nat, T # {}
  PROVE  Min(T) \in T /\ \A y \in T : Min(T) <= y
<1> DEFINE R == {ss \in Nat \X Nat : ss[1] < ss[2]}
<1>1. IsWellFoundedOn(R, Nat)
  BY NatLessThanWellFounded DEF OpToRel
<1>2. PICK x \in T : \A y \in T : ~(<<y, x>> \in R)
  <2> HIDE DEF R
  <2> QED
    BY <1>1, WFMin
<1>3. \A y \in T : x <= y
  <2> SUFFICES ASSUME NEW y \in T PROVE x <= y
    OBVIOUS
  <2>1. ~(y < x)
    BY <1>2
  <2> QED
    BY <2>1
<1> HIDE DEF R
<1> QED
  BY <1>3, Zenon DEF Min

\* What leaves the limiter is a beginning of its list, all of it outside the window.
LEMMA Evicts ==
  ASSUME AiTypes, NEW p \in Providers
  PROVE  /\ RecentCalls(p) \in Seq(Nat)
         /\ \E k \in 0 .. Len(recent[p]) :
              /\ Len(RecentCalls(p)) = Len(recent[p]) - k
              /\ \A i \in 1 .. k : now - recent[p][i] > Window
              /\ \A j \in 1 .. Len(RecentCalls(p)) : RecentCalls(p)[j] = recent[p][k + j]
<1> DEFINE r == recent[p]
           n == Len(r)
           within == {i \in DOMAIN r : now - r[i] <= Window}
<1>1. r \in Seq(Nat) /\ n \in Nat /\ now \in Nat /\ Window \in Nat /\ DOMAIN r = 1 .. n
  BY AiAssumption DEF AiTypes
<1>2. \A i \in 1 .. n : r[i] \in Nat
  BY <1>1
<1>3. RecentCalls(p) = IF within = {} THEN <<>> ELSE SubSeq(r, Min(within), n)
  BY DEF RecentCalls
<1>4. \A i \in 1 .. n : i \notin within => now - r[i] > Window
  BY <1>1, <1>2
<1>5. within \subseteq 1 .. n
  BY <1>1
<1> HIDE DEF r, n, within
<1>6. CASE within = {}
  <2>1. RecentCalls(p) = <<>>
    BY <1>3, <1>6
  <2>2. \A i \in 1 .. n : now - r[i] > Window
    BY <1>4, <1>6
  <2> QED
    BY <1>1, <2>1, <2>2 DEF r, n
<1>7. CASE within # {}
  <2> DEFINE m == Min(within)
  <2>1. m \in within /\ \A y \in within : m <= y
    <3>1. within \in SUBSET Nat
      BY <1>1, <1>5
    <3> QED
      BY <1>7, <3>1, LeastOf
  <2>2. RecentCalls(p) = SubSeq(r, m, n)
    BY <1>3, <1>7
  <2> HIDE DEF m
  <2>3. m \in 1 .. n
    BY <1>5, <2>1
  <2>4. RecentCalls(p) \in Seq(Nat) /\ Len(RecentCalls(p)) = n - (m - 1)
    BY <1>1, <2>2, <2>3
  <2>5. \A j \in 1 .. n - (m - 1) : RecentCalls(p)[j] = r[(m - 1) + j]
    BY <1>1, <2>2, <2>3
  <2>6. \A i \in 1 .. m - 1 : now - r[i] > Window
    BY <1>1, <1>4, <2>1, <2>3
  <2>7. m - 1 \in 0 .. n /\ n - (m - 1) = Len(RecentCalls(p))
    BY <1>1, <2>3, <2>4
  <2> DEFINE k == m - 1
  <2>8. /\ k \in 0 .. n /\ Len(RecentCalls(p)) = n - k
        /\ \A i \in 1 .. k : now - r[i] > Window
        /\ \A j \in 1 .. Len(RecentCalls(p)) : RecentCalls(p)[j] = r[k + j]
    BY <2>4, <2>5, <2>6, <2>7
  <2> HIDE DEF k
  <2> QED
    BY <2>4, <2>8, Zenon DEF r, n
<1> QED
  BY <1>6, <1>7

LEMMA EvictedRemember ==
  ASSUME AiTypes, NEW p \in Providers, Remembers(recent[p], sent[p], now)
  PROVE  Remembers(RecentCalls(p), sent[p], now)
<1> DEFINE r == recent[p]
           c == RecentCalls(p)
           s == sent[p]
<1>1. PICK k \in Nat : /\ Len(s) = k + Len(r)
                       /\ \A i \in 1 .. k : now - s[i] > Window
                       /\ \A j \in 1 .. Len(r) : r[j] = s[k + j]
  BY DEF Remembers
<1>2. PICK e \in 0 .. Len(r) : /\ Len(c) = Len(r) - e
                               /\ \A i \in 1 .. e : now - r[i] > Window
                               /\ \A j \in 1 .. Len(c) : c[j] = r[e + j]
  BY Evicts, Zenon
<1>3. c \in Seq(Nat)
  BY Evicts, Zenon
<1>4. r \in Seq(Nat) /\ Len(r) \in Nat /\ Len(c) \in Nat
  BY <1>3 DEF AiTypes
<1> HIDE DEF r, c, s
<1>5. k + e \in Nat /\ Len(s) = (k + e) + Len(c)
  BY <1>1, <1>2, <1>4
<1>6. ASSUME NEW i \in 1 .. k + e PROVE now - s[i] > Window
  <2>1. CASE i \in 1 .. k
    BY <1>1, <2>1
  <2>2. CASE i > k
    <3>1. i - k \in 1 .. e /\ i - k \in 1 .. Len(r) /\ k + (i - k) = i
      BY <1>2, <1>4, <2>2
    <3>2. now - r[i - k] > Window /\ r[i - k] = s[k + (i - k)]
      BY <1>1, <1>2, <3>1
    <3> QED
      BY <3>1, <3>2
  <2> QED
    BY <1>2, <2>1, <2>2
<1>7. ASSUME NEW j \in 1 .. Len(c) PROVE c[j] = s[(k + e) + j]
  <2>1. e + j \in 1 .. Len(r) /\ k + (e + j) = (k + e) + j
    BY <1>2, <1>4
  <2>2. c[j] = r[e + j] /\ r[e + j] = s[k + (e + j)]
    BY <1>1, <1>2, <2>1
  <2> QED
    BY <2>1, <2>2
<1> DEFINE m == k + e
<1>8. /\ m \in Nat /\ Len(s) = m + Len(c)
      /\ \A i \in 1 .. m : now - s[i] > Window
      /\ \A j \in 1 .. Len(c) : c[j] = s[m + j]
  BY <1>5, <1>6, <1>7
<1> HIDE DEF m
<1> QED
  BY <1>8, Zenon DEF Remembers, c, s

\* A call that is sent is remembered.
LEMMA SentRemembered ==
  ASSUME NEW r \in Seq(Nat), NEW s \in Seq(Nat), NEW t \in Nat, Remembers(r, s, t)
  PROVE  Remembers(Append(r, t), Append(s, t), t)
<1> DEFINE r2 == Append(r, t)
           s2 == Append(s, t)
<1>1. PICK k \in Nat : /\ Len(s) = k + Len(r)
                       /\ \A i \in 1 .. k : t - s[i] > Window
                       /\ \A j \in 1 .. Len(r) : r[j] = s[k + j]
  BY DEF Remembers
<1>2. /\ Len(r) \in Nat /\ Len(r2) = Len(r) + 1 /\ Len(s2) = Len(s) + 1
      /\ r2[Len(r) + 1] = t /\ s2[Len(s) + 1] = t
  OBVIOUS
<1>3. /\ \A j \in 1 .. Len(r) : r2[j] = r[j]
      /\ \A i \in 1 .. Len(s) : s2[i] = s[i]
  OBVIOUS
<1> HIDE DEF r2, s2
<1>4. Len(s2) = k + Len(r2)
  BY <1>1, <1>2
<1>5. \A i \in 1 .. k : t - s2[i] > Window
  BY <1>1, <1>2, <1>3
<1>6. ASSUME NEW j \in 1 .. Len(r2) PROVE r2[j] = s2[k + j]
  <2>1. CASE j = Len(r) + 1
    <3>1. k + j = Len(s) + 1
      BY <1>1, <1>2, <2>1
    <3> QED
      BY <1>2, <2>1, <3>1, Zenon
  <2>2. CASE j \in 1 .. Len(r)
    <3>1. k + j \in 1 .. Len(s)
      BY <1>1, <1>2, <2>2
    <3> QED
      BY <1>1, <1>3, <2>2, <3>1, Zenon
  <2>3. j = Len(r) + 1 \/ j \in 1 .. Len(r)
    BY <1>2
  <2> QED
    BY <2>1, <2>2, <2>3, Zenon
<1> QED
  BY <1>4, <1>5, <1>6, Zenon DEF Remembers, r2, s2

\* A provider with less than MaxCalls calls in the window may be called again.
LEMMA SentApart ==
  ASSUME NEW r \in Seq(Nat), NEW s \in Seq(Nat), NEW t \in Nat, Remembers(r, s, t),
         Apart(s), Len(r) < MaxCalls
  PROVE  Apart(Append(s, t))
<1> DEFINE s2 == Append(s, t)
<1>1. PICK k \in Nat : Len(s) = k + Len(r) /\ \A i \in 1 .. k : t - s[i] > Window
  BY DEF Remembers
<1>2. /\ Len(r) \in Nat /\ Len(s) \in Nat /\ DOMAIN s = 1 .. Len(s)
      /\ DOMAIN s2 = 1 .. Len(s) + 1 /\ s2[Len(s) + 1] = t
      /\ MaxCalls \in Nat
  BY AiAssumption
<1>3. \A i \in 1 .. Len(s) : s2[i] = s[i]
  OBVIOUS
<1> HIDE DEF s2
<1> SUFFICES ASSUME NEW i \in 1 .. Len(s) + 1, i + MaxCalls \in 1 .. Len(s) + 1
             PROVE  s2[i + MaxCalls] - s2[i] > Window
  BY <1>2 DEF Apart, s2
<1>4. MaxCalls > 0
  BY AiAssumption
<1>5. CASE i + MaxCalls = Len(s) + 1
  <2>1. i \in 1 .. k /\ i \in 1 .. Len(s)
    BY <1>1, <1>2, <1>4, <1>5
  <2>2. t - s[i] > Window /\ s2[i] = s[i] /\ s2[i + MaxCalls] = t
    BY <1>1, <1>2, <1>3, <1>5, <2>1
  <2> QED
    BY <2>2
<1>6. CASE i + MaxCalls \in 1 .. Len(s)
  <2>1. i \in 1 .. Len(s)
    BY <1>2, <1>6
  <2>2. s[i + MaxCalls] - s[i] > Window
    BY <1>2, <1>6, <2>1 DEF Apart
  <2> QED
    BY <1>3, <1>6, <2>1, <2>2
<1>7. i + MaxCalls = Len(s) + 1 \/ i + MaxCalls \in 1 .. Len(s)
  <2>1. \A m \in Nat : \A n \in 1 .. m + 1 : n = m + 1 \/ n \in 1 .. m
    OBVIOUS
  <2> QED
    BY <1>2, <2>1
<1> QED
  BY <1>5, <1>6, <1>7, Zenon

LEMMA LaterRemembers ==
  ASSUME NEW r \in Seq(Nat), NEW s \in Seq(Nat), NEW t \in Nat, Remembers(r, s, t),
         NEW u \in Nat, u >= t
  PROVE  Remembers(r, s, u)
<1>1. PICK k \in Nat : /\ Len(s) = k + Len(r)
                       /\ \A i \in 1 .. k : t - s[i] > Window
                       /\ \A j \in 1 .. Len(r) : r[j] = s[k + j]
  BY DEF Remembers
<1>2. ASSUME NEW i \in 1 .. k PROVE u - s[i] > Window
  <2>1. s[i] \in Nat /\ Window \in Nat
    BY <1>1, AiAssumption
  <2>2. t - s[i] > Window
    BY <1>1
  <2> QED
    BY <2>1, <2>2
<1> QED
  BY <1>1, <1>2, Zenon DEF Remembers

\* A call to p takes a slot of the limiter and, with a key, is sent.
LEMMA DispatchInv ==
  ASSUME AiInv, NEW p \in Providers, Dispatched(p), now' = now
  PROVE  /\ recent' \in [Providers -> Seq(Nat)] /\ sent' \in [Providers -> Seq(Nat)]
         /\ \A q \in Providers : Apart(sent'[q])
         /\ \A q \in Providers : Remembers(recent'[q], sent'[q], now') \/ q \notin Keyed
<1> DEFINE c == RecentCalls(p)
           s == sent[p]
<1>1. AiTypes /\ now \in Nat /\ s \in Seq(Nat) /\ p \in Keyed
  BY DEF AiInv, AiTypes, Dispatched
<1>2. c \in Seq(Nat)
  BY <1>1, Evicts, Zenon
<1>3. Len(c) < MaxCalls
  BY DEF Dispatched, WithinLimit
<1>4. Remembers(recent[p], sent[p], now) /\ Apart(s)
  BY <1>1 DEF AiInv
<1>5. Remembers(c, s, now)
  BY <1>1, <1>4, EvictedRemember, Zenon
<1> HIDE DEF c, s
<1>6. Append(c, now) \in Seq(Nat) /\ Append(s, now) \in Seq(Nat)
  BY <1>1, <1>2
<1>7. Remembers(Append(c, now), Append(s, now), now)
  BY <1>1, <1>2, <1>5, SentRemembered, Zenon
<1>8. Apart(Append(s, now))
  BY <1>1, <1>2, <1>3, <1>4, <1>5, SentApart, Zenon
<1>9. /\ recent' = [recent EXCEPT ![p] = Append(c, now)]
      /\ sent' = [sent EXCEPT ![p] = Append(s, now)]
  BY DEF Dispatched, c, s
<1>10. recent \in [Providers -> Seq(Nat)] /\ sent \in [Providers -> Seq(Nat)]
  BY <1>1 DEF AiTypes
<1>11. recent' \in [Providers -> Seq(Nat)] /\ sent' \in [Providers -> Seq(Nat)]
  BY <1>6, <1>9, <1>10
<1>12. \A q \in Providers :
         IF q = p THEN recent'[q] = Append(c, now) /\ sent'[q] = Append(s, now)
                  ELSE recent'[q] = recent[q] /\ sent'[q] = sent[q]
  BY <1>9, <1>10
<1>13. ASSUME NEW q \in Providers
       PROVE  Apart(sent'[q]) /\ (Remembers(recent'[q], sent'[q], now') \/ q \notin Keyed)
  <2>1. CASE q = p
    BY <1>7, <1>8, <1>12, <2>1
  <2>2. CASE q # p
    BY <1>12, <2>2 DEF AiInv
  <2> QED
    BY <2>1, <2>2
<1> QED
  BY <1>11, <1>13

\* What a call leaves behind when nothing is sent.
LEMMA KeptInv ==
  ASSUME AiInv, NEW p, UNCHANGED <<now, sent>>,
         \/ recent' = recent
         \/ recent' = [recent EXCEPT ![p] = RecentCalls(p)]
         \/ p \notin Keyed /\ recent' = [recent EXCEPT ![p] = Append(RecentCalls(p), now)]
  PROVE  /\ recent' \in [Providers -> Seq(Nat)] /\ sent' \in [Providers -> Seq(Nat)]
         /\ \A q \in Providers : Apart(sent'[q])
         /\ \A q \in Providers : Remembers(recent'[q], sent'[q], now') \/ q \notin Keyed
<1> DEFINE c == RecentCalls(p)
<1>1. /\ AiTypes /\ now \in Nat /\ recent \in [Providers -> Seq(Nat)]
      /\ sent' \in [Providers -> Seq(Nat)] /\ \A q \in Providers : Apart(sent'[q])
  BY DEF AiInv, AiTypes
<1>2. CASE recent' = recent
  BY <1>1, <1>2 DEF AiInv
<1>3. CASE p \notin Providers
  <2>1. recent' = recent
    BY <1>1, <1>3
  <2> QED
    BY <1>2, <2>1
<1>4. ASSUME p \in Providers, NEW r \in Seq(Nat), recent' = [recent EXCEPT ![p] = r],
             Remembers(r, sent[p], now) \/ p \notin Keyed
      PROVE  /\ recent' \in [Providers -> Seq(Nat)]
             /\ \A q \in Providers : Remembers(recent'[q], sent'[q], now') \/ q \notin Keyed
  <2>1. recent' \in [Providers -> Seq(Nat)]
    BY <1>1, <1>4
  <2>2. ASSUME NEW q \in Providers
        PROVE  Remembers(recent'[q], sent'[q], now') \/ q \notin Keyed
    <3>1. CASE q = p
      BY <1>1, <1>4, <3>1
    <3>2. CASE q # p
      BY <1>1, <1>4, <3>2 DEF AiInv
    <3> QED
      BY <3>1, <3>2
  <2> QED
    BY <2>1, <2>2
<1>5. CASE p \in Providers
  <2>1. c \in Seq(Nat) /\ (Remembers(c, sent[p], now) \/ p \notin Keyed)
    <3>1. c \in Seq(Nat)
      BY <1>1, <1>5, Evicts, Zenon
    <3>2. Remembers(recent[p], sent[p], now) \/ p \notin Keyed
      BY <1>5 DEF AiInv
    <3> QED
      BY <1>1, <1>5, <3>1, <3>2, EvictedRemember, Zenon
  <2> HIDE DEF c
  <2>2. Append(c, now) \in Seq(Nat)
    BY <1>1, <2>1
  <2>3. CASE recent' = [recent EXCEPT ![p] = c]
    BY <1>1, <1>4, <1>5, <2>1, <2>3, Zenon
  <2>4. CASE p \notin Keyed /\ recent' = [recent EXCEPT ![p] = Append(c, now)]
    BY <1>1, <1>4, <1>5, <2>2, <2>4, Zenon
  <2> QED
    BY <1>2, <2>3, <2>4, Zenon DEF c
<1> QED
  BY <1>3, <1>5

LEMMA TickInv ==
  ASSUME AiInv, Tick
  PROVE  AiInv'
<1>1. now \in Nat /\ now' = now + 1 /\ now' \in Nat /\ now' >= now
  BY DEF AiInv, AiTypes, Tick
<1>2. UNCHANGED <<recent, job, truncations, breakerUntil, sent, malformed>>
  BY DEF Tick
<1>3. AiTypes' /\ Counts' /\ \A p \in Providers : Apart(sent'[p])
  BY <1>1, <1>2 DEF AiInv, AiTypes, Counts
<1>4. (job # IdleJob => now >= breakerUntil)'
  <2>1. job # IdleJob => now >= breakerUntil
    BY DEF AiInv
  <2>2. breakerUntil \in Nat
    BY DEF AiInv, AiTypes
  <2>3. IdleJob' = IdleJob
    BY DEF IdleJob
  <2> QED
    BY <1>1, <1>2, <2>1, <2>2, <2>3
<1>5. ASSUME NEW p \in Providers
      PROVE  Remembers(recent'[p], sent'[p], now') \/ p \notin Keyed
  <2>1. recent[p] \in Seq(Nat) /\ sent[p] \in Seq(Nat)
    BY DEF AiInv, AiTypes
  <2>2. Remembers(recent[p], sent[p], now) \/ p \notin Keyed
    BY DEF AiInv
  <2>3. Remembers(recent[p], sent[p], now') \/ p \notin Keyed
    BY <1>1, <2>1, <2>2, LaterRemembers, Zenon
  <2> QED
    BY <1>2, <2>3
<1> QED
  BY <1>3, <1>4, <1>5, Zenon DEF AiInv

\* An answer counts once or twice, and moves the breaker's end into the future.
LEMMA AnswerCounts ==
  ASSUME AiInv, CallAnswers
  PROVE  truncations' \in Nat /\ breakerUntil' \in Nat /\ Counts' /\ TripsInTime
<1>1. PICK kind \in Answers :
        IF job.entry = "signal"
        THEN /\ truncations' = AfterAnswer(kind)
             /\ breakerUntil' =
                   IF kind \in Malformed /\ truncations + Truncations(kind) >= Threshold
                   THEN now + Pause ELSE breakerUntil
             /\ malformed' = IF kind \in Accepted THEN 0
                             ELSE IF kind \in Malformed THEN malformed + 1 ELSE malformed
        ELSE UNCHANGED <<truncations, breakerUntil, malformed>>
  BY DEF CallAnswers
<1>2. /\ truncations \in Nat /\ breakerUntil \in Nat /\ now \in Nat /\ Pause \in Nat
      /\ Threshold \in Nat /\ malformed \in Nat
      /\ malformed <= truncations /\ truncations <= 2 * malformed
  BY AiAssumption DEF AiInv, AiTypes, Counts
<1> DEFINE f == Truncations(kind)
<1>3. AfterAnswer(kind) = IF kind \in Accepted THEN 0 ELSE truncations + f
  BY DEF AfterAnswer
<1>4. IF kind \in Malformed THEN f \in {1, 2} ELSE f = 0
  BY DEF Truncations, Malformed
<1> HIDE DEF f
<1>5. CASE job.entry # "signal"
  BY <1>1, <1>2, <1>5 DEF Counts, TripsInTime
<1>6. CASE job.entry = "signal" /\ kind \in Accepted
  <2>1. truncations' = 0 /\ malformed' = 0
    BY <1>1, <1>3, <1>6
  <2>2. breakerUntil' \in Nat
    BY <1>1, <1>2, <1>6
  <2>3. breakerUntil' # breakerUntil => truncations + f >= Threshold /\ f \in {1, 2}
    BY <1>1, <1>4, <1>6 DEF f
  <2> QED
    BY <1>2, <2>1, <2>2, <2>3 DEF Counts, TripsInTime
<1>7. CASE job.entry = "signal" /\ kind \notin Accepted /\ kind \in Malformed
  <2>1. truncations' = truncations + f /\ malformed' = malformed + 1 /\ f \in {1, 2}
    BY <1>1, <1>3, <1>4, <1>7
  <2>2. breakerUntil' = IF truncations + f >= Threshold THEN now + Pause ELSE breakerUntil
    BY <1>1, <1>7 DEF f
  <2> QED
    BY <1>2, <2>1, <2>2 DEF Counts, TripsInTime
<1>8. CASE job.entry = "signal" /\ kind \notin Accepted /\ kind \notin Malformed
  <2>1. truncations' = truncations + f /\ f = 0 /\ UNCHANGED <<malformed, breakerUntil>>
    BY <1>1, <1>3, <1>4, <1>8
  <2> QED
    BY <1>2, <2>1 DEF Counts, TripsInTime
<1> QED
  BY <1>5, <1>6, <1>7, <1>8

LEMMA AiNextInv ==
  ASSUME AiInv, [AiNext]_aiVars
  PROVE  /\ AiInv'
         /\ TripsInTime
         /\ sent' # sent => now >= breakerUntil
<1>1. AiTypes /\ IdleJob' = IdleJob
  BY DEF AiInv, IdleJob
<1>0. ASSUME UNCHANGED <<malformed, breakerUntil>> PROVE TripsInTime
  <2>1. malformed \in Nat
    BY DEF AiInv, Counts
  <2> QED
    BY <1>0, <2>1 DEF TripsInTime
<1>2. CASE Tick
  <2>1. UNCHANGED <<malformed, breakerUntil, sent>>
    BY <1>2 DEF Tick
  <2> QED
    BY <1>0, <1>2, <2>1, TickInv
<1>3. CASE UNCHANGED <<now, recent, truncations, breakerUntil, sent, malformed>>
           /\ (job' # IdleJob => now >= breakerUntil)
  <2>1. AiTypes' /\ Counts' /\ (job # IdleJob => now >= breakerUntil)'
    BY <1>1, <1>3 DEF AiInv, AiTypes, Counts
  <2>2. /\ \A p \in Providers : Apart(sent'[p])
        /\ \A p \in Providers : Remembers(recent'[p], sent'[p], now') \/ p \notin Keyed
    BY <1>3 DEF AiInv
  <2> QED
    BY <1>0, <1>3, <2>1, <2>2, Zenon DEF AiInv
<1>4. CASE RateLimited \/ NoKey
  <2> DEFINE p == ProviderOf[ModelChain[job.model]]
  <2>1. /\ UNCHANGED <<now, truncations, breakerUntil, sent, malformed>> /\ job # IdleJob
        /\ \/ recent' = [recent EXCEPT ![p] = RecentCalls(p)]
           \/ p \notin Keyed /\ recent' = [recent EXCEPT ![p] = Append(RecentCalls(p), now)]
    BY <1>4 DEF RateLimited, NoKey
  <2> HIDE DEF p
  <2>2. now >= breakerUntil
    BY <2>1 DEF AiInv
  <2>3. /\ recent' \in [Providers -> Seq(Nat)] /\ sent' \in [Providers -> Seq(Nat)]
        /\ \A q \in Providers : Apart(sent'[q])
        /\ \A q \in Providers : Remembers(recent'[q], sent'[q], now') \/ q \notin Keyed
    BY <2>1, KeptInv, Zenon
  <2>4. AiTypes'
    BY <1>1, <2>1, <2>3 DEF AiTypes
  <2>5. Counts' /\ (job # IdleJob => now >= breakerUntil)'
    BY <2>1, <2>2 DEF AiInv, Counts
  <2> QED
    BY <1>0, <2>1, <2>3, <2>4, <2>5, Zenon DEF AiInv
<1>5. CASE CallFails \/ CallAnswers
  <2>1. PICK p \in Providers : Dispatched(p)
    BY <1>5, Zenon DEF CallFails, CallAnswers
  <2>2. now' = now /\ now >= breakerUntil
    <3>1. now' = now
      BY <1>5 DEF CallFails, CallAnswers
    <3>2. job # IdleJob
      BY <2>1 DEF Dispatched
    <3> QED
      BY <3>1, <3>2 DEF AiInv
  <2>3. /\ recent' \in [Providers -> Seq(Nat)] /\ sent' \in [Providers -> Seq(Nat)]
        /\ \A q \in Providers : Apart(sent'[q])
        /\ \A q \in Providers : Remembers(recent'[q], sent'[q], now') \/ q \notin Keyed
    BY <2>1, <2>2, DispatchInv, Zenon
  <2>4. /\ truncations' \in Nat /\ breakerUntil' \in Nat /\ Counts' /\ TripsInTime
        /\ job' # IdleJob => now' >= breakerUntil'
    <3>1. CASE CallFails
      BY <1>1, <2>2, <3>1 DEF CallFails, AiInv, AiTypes, Counts, TripsInTime
    <3>2. CASE CallAnswers
      <4>1. job' = IdleJob
        BY <3>2 DEF CallAnswers
      <4> QED
        BY <3>2, <4>1, AnswerCounts, Zenon
    <3> QED
      BY <1>5, <3>1, <3>2
  <2>5. AiTypes' /\ Counts' /\ (job # IdleJob => now >= breakerUntil)'
    BY <1>1, <2>2, <2>3, <2>4 DEF AiTypes
  <2> QED
    BY <2>2, <2>3, <2>4, <2>5, Zenon DEF AiInv
<1>6. CASE Ask \/ UNCHANGED aiVars
  BY <1>3, <1>6 DEF Ask, aiVars, AiInv
<1> QED
  BY <1>2, <1>4, <1>5, <1>6 DEF AiNext

\* No provider is called more than MaxCalls times within a window, nor while the breaker
\* is open, and it opens after Threshold malformed answers since the last accepted signal
\* or up to half of them, for any chain of models, keys, limits and retries (ai/caller.py,
\* ai/rate_limiter.py, signals/engine.py).
THEOREM CallsAreLimited == AiSpec => BreakerHolds
<1>1. AiInit => AiInv
  <2> SUFFICES ASSUME AiInit PROVE AiInv
    OBVIOUS
  <2>1. /\ AiTypes /\ Counts /\ (job # IdleJob => now >= breakerUntil)
        /\ now = 0
    BY DEF AiInit, AiTypes, Counts
  <2>2. ASSUME NEW p \in Providers
        PROVE  Apart(sent[p]) /\ Remembers(recent[p], sent[p], now)
    <3>1. sent[p] = <<>> /\ recent[p] = <<>>
      BY DEF AiInit
    <3>2. Apart(<<>>)
      BY DEF Apart
    <3>3. Remembers(<<>>, <<>>, 0)
      <4>1. /\ 0 \in Nat /\ Len(<<>>) = 0 + Len(<<>>)
            /\ (1 .. 0) = {} /\ (1 .. Len(<<>>)) = {}
        OBVIOUS
      <4> QED
        BY <4>1 DEF Remembers
    <3> QED
      BY <2>1, <3>1, <3>2, <3>3
  <2> QED
    BY <2>1, <2>2, Zenon DEF AiInv
<1>2. AiInv /\ [AiNext]_aiVars => AiInv'
  BY AiNextInv
<1>3. AiInv /\ AiInv' /\ [AiNext]_aiVars =>
        [/\ TripsInTime
         /\ sent' # sent => now >= breakerUntil /\ WithinRate']_aiVars
  <2> SUFFICES ASSUME AiInv, AiInv', [AiNext]_aiVars
               PROVE  /\ TripsInTime
                      /\ sent' # sent => now >= breakerUntil /\ WithinRate'
    OBVIOUS
  <2>1. WithinRate'
    BY DEF AiInv, Apart, WithinRate
  <2> QED
    BY <2>1, AiNextInv
<1> QED
  BY <1>1, <1>2, <1>3, PTL DEF AiSpec, BreakerHolds

-----------------------------------------------------------------------------
(* The three versions of the signal rules *)

\* The readings of the past that a rule compares with.
SamePast(a, b) == a.fast = b.fast /\ a.slow = b.slow /\ a.macd = b.macd /\ a.rsi = b.rsi

SignalTypes ==
    /\ config.rules \in Seq(Sources)
    /\ memory \in ReadingBars /\ last \in ReadingBars
    /\ streak \in 0 .. 2

\* After a complete bar the engine remembers that bar and has no gaps.
SignalInv ==
    /\ SignalTypes /\ SignalParity
    /\ streak > 0 => last.missing = {} /\ memory.missing = {} /\ SamePast(memory, last)

LEMMA JudgeOfReadings ==
  ASSUME NEW source \in Sources, NEW a, NEW b, SamePast(a, b), NEW bar
  PROVE  Judge(source, a, bar) = Judge(source, b, bar)
<1>1. CASE source = "ema_crossover"
  BY <1>1 DEF SamePast, Judge, EMACrossover
<1>2. CASE source = "macd_crossover"
  BY <1>2 DEF SamePast, Judge, MACDCrossover
<1>3. CASE source = "rsi_reversal"
  BY <1>3 DEF SamePast, Judge, RSIReversal
<1>4. CASE source \in {"bollinger_breakout", "adx_trend", "bos_confirm"}
  BY <1>4 DEF Judge
<1> QED
  BY <1>1, <1>2, <1>3, <1>4 DEF Sources

\* The direction of a decision depends on nothing but the votes.
LEMMA DirectionOfVotes ==
  ASSUME NEW verdicts, NEW logic, NEW bar
  PROVE  Decide(verdicts, logic, bar).direction =
           IF DOMAIN verdicts = {} \/ Combine(verdicts, logic) = NoVerdict THEN "none"
           ELSE IF Combine(verdicts, logic).bull THEN "BUY" ELSE "SELL"
<1> DEFINE both == Combine(verdicts, logic)
<1> HIDE DEF both
<1>1. CASE DOMAIN verdicts = {} \/ both = NoVerdict
  BY <1>1 DEF both, Decide, NoSignalYet
<1>2. CASE ~(DOMAIN verdicts = {} \/ both = NoVerdict)
  BY <1>2 DEF both, Decide
<1> QED
  BY <1>1, <1>2 DEF both

HasRule(rules, source) == \E i \in DOMAIN rules : rules[i] = source
AllVotes(rules, prev, bar) == [i \in DOMAIN rules |-> Judge(rules[i], prev, bar)]

AnswerAlike(rules, logic, memo, prev, bar) ==
    LET votes == AllVotes(rules, prev, bar)
    IN  /\ GenerateHypothesis(rules, logic, memo, bar) = Decide(votes, logic, bar)
        /\ (\A s \in SilentInBacktest : ~HasRule(rules, s)) =>
              ComputeDirection(rules, logic, prev, bar) = Decide(votes, logic, bar)
        /\ SignalFn(rules, logic, prev, bar) = Decide(votes, logic, bar).direction

\* With no gap every rule votes, in all three versions.
LEMMA CompleteBars ==
  ASSUME NEW rules \in Seq(Sources), NEW logic, NEW prev, NEW memo, NEW bar,
         bar.missing = {}, prev.missing = {}, memo.missing = {}, SamePast(memo, prev),
         ~HasRule(rules, "bos_confirm")
  PROVE  AnswerAlike(rules, logic, memo, prev, bar)
<1> DEFINE votes == [i \in DOMAIN rules |-> Judge(rules[i], prev, bar)]
<1>1. \A i \in DOMAIN rules : rules[i] \in Sources
  OBVIOUS
<1>2. /\ \A s \in Sources : Needs[s] \cap bar.missing = {} /\ Past[s] \cap prev.missing = {}
      /\ \A s \in Sources : Past[s] \cap memo.missing = {}
  OBVIOUS
<1>3. ASSUME NEW i \in DOMAIN rules
      PROVE  /\ Recalled(rules, i, memo, bar) = memo
             /\ LiveVerdict(rules, i, memo, bar) = Judge(rules[i], prev, bar)
  <2>1. Recalled(rules, i, memo, bar) = memo
    BY <1>1, <1>2 DEF Recalled
  <2>2. rules[i] \in Sources
    BY <1>1
  <2>3. Judge(rules[i], memo, bar) = Judge(rules[i], prev, bar)
    BY <2>2, JudgeOfReadings
  <2> QED
    BY <2>1, <2>3 DEF LiveVerdict, HasRule
<1>4. GenerateHypothesis(rules, logic, memo, bar) = Decide(votes, logic, bar)
  <2> DEFINE known == {i \in DOMAIN rules :
                         /\ Needs[rules[i]] \cap bar.missing = {}
                         /\ Past[rules[i]] \cap Recalled(rules, i, memo, bar).missing = {}}
  <2>1. known = DOMAIN rules
    <3>1. ASSUME NEW i \in DOMAIN rules
          PROVE  /\ Needs[rules[i]] \cap bar.missing = {}
                 /\ Past[rules[i]] \cap Recalled(rules, i, memo, bar).missing = {}
      BY <1>1, <1>2, <1>3
    <3> QED
      BY <3>1
  <2>2. GenerateHypothesis(rules, logic, memo, bar) =
          Decide([i \in known |-> LiveVerdict(rules, i, memo, bar)], logic, bar)
    BY DEF GenerateHypothesis
  <2> HIDE DEF known
  <2>3. [i \in known |-> LiveVerdict(rules, i, memo, bar)] = votes
    BY <1>3, <2>1
  <2> QED
    BY <2>2, <2>3
<1>5. ASSUME \A s \in SilentInBacktest : ~HasRule(rules, s)
      PROVE  ComputeDirection(rules, logic, prev, bar) = Decide(votes, logic, bar)
  <2> DEFINE known == {i \in DOMAIN rules :
                         /\ rules[i] \notin SilentInBacktest /\ Needs[rules[i]] \cap bar.missing = {}
                         /\ Past[rules[i]] \cap prev.missing = {}}
  <2>1. known = DOMAIN rules
    BY <1>1, <1>2, <1>5 DEF HasRule
  <2>2. ComputeDirection(rules, logic, prev, bar) =
          Decide([i \in known |-> Judge(rules[i], prev, bar)], logic, bar)
    BY DEF ComputeDirection
  <2> QED
    BY <2>1, <2>2
<1>6. SignalFn(rules, logic, prev, bar) =
        IF DOMAIN rules = {} \/ Combine(votes, logic) = NoVerdict THEN "none"
        ELSE IF Combine(votes, logic).bull THEN "BUY" ELSE "SELL"
  <2> DEFINE Missing(s) == (Needs[s] \cap bar.missing) \cup (Past[s] \cap prev.missing)
             voting == {i \in DOMAIN rules :
                          rules[i] \in {"ema_crossover", "rsi_reversal"} \/ Missing(rules[i]) = {}}
             cast == [i \in voting |-> IF Missing(rules[i]) = {}
                                       THEN Judge(rules[i], prev, bar) ELSE NoVerdict]
  <2>1. \A i \in DOMAIN rules : Missing(rules[i]) = {}
    BY <1>1, <1>2
  <2>2. SignalFn(rules, logic, prev, bar) =
          IF "ema" \in bar.missing \/ voting = {} \/ Combine(cast, logic) = NoVerdict THEN "none"
          ELSE IF Combine(cast, logic).bull THEN "BUY" ELSE "SELL"
    BY DEF SignalFn
  <2> HIDE DEF Missing
  <2>3. voting = DOMAIN rules
    BY <2>1
  <2> HIDE DEF voting
  <2>4. cast = votes
    BY <2>1, <2>3
  <2> HIDE DEF cast
  <2> QED
    BY <2>2, <2>3, <2>4
<1>7. Decide(votes, logic, bar).direction =
        IF DOMAIN rules = {} \/ Combine(votes, logic) = NoVerdict THEN "none"
        ELSE IF Combine(votes, logic).bull THEN "BUY" ELSE "SELL"
  <2>1. DOMAIN votes = DOMAIN rules
    OBVIOUS
  <2> HIDE DEF votes
  <2> QED
    BY <2>1, DirectionOfVotes
<1> HIDE DEF votes
<1>8. SignalFn(rules, logic, prev, bar) = Decide(votes, logic, bar).direction
  BY <1>6, <1>7
<1> QED
  BY <1>4, <1>5, <1>8 DEF votes, AllVotes, AnswerAlike

\* What the engine remembers after a bar is typed, and all of it if the bar is complete.
LEMMA Remembered ==
  ASSUME NEW memo \in ReadingBars, NEW bar \in ReadingBars
  PROVE  /\ Remember(memo, bar) \in ReadingBars
         /\ bar.missing = {} =>
              Remember(memo, bar).missing = {} /\ SamePast(Remember(memo, bar), bar)
<1> DEFINE m == Remember(memo, bar)
<1>1. m = [memo EXCEPT !.missing = @ \cap bar.missing,
                       !.fast = IF "ema" \in bar.missing THEN @ ELSE bar.fast,
                       !.slow = IF "ema" \in bar.missing THEN @ ELSE bar.slow,
                       !.macd = IF "macd" \in bar.missing THEN @ ELSE bar.macd,
                       !.rsi = IF "rsi" \in bar.missing THEN @ ELSE bar.rsi]
  BY DEF Remember
<1>2. /\ bar.fast \in Int /\ bar.slow \in Int /\ bar.macd \in Int /\ bar.rsi \in Int
  BY DEF ReadingBars
<1>3. memo.missing \cap bar.missing \in SUBSET {"ema", "macd", "rsi", "pctB", "adx", "atr"}
  BY DEF ReadingBars
<1>4. m \in ReadingBars
  <2>1. \A v \in SUBSET {"ema", "macd", "rsi", "pctB", "adx", "atr"}, a, b, c, d \in Int :
          [memo EXCEPT !.missing = v, !.fast = a, !.slow = b, !.macd = c, !.rsi = d] \in ReadingBars
    BY DEF ReadingBars
  <2> DEFINE v == memo.missing \cap bar.missing
             a == IF "ema" \in bar.missing THEN memo.fast ELSE bar.fast
             b == IF "ema" \in bar.missing THEN memo.slow ELSE bar.slow
             c == IF "macd" \in bar.missing THEN memo.macd ELSE bar.macd
             d == IF "rsi" \in bar.missing THEN memo.rsi ELSE bar.rsi
  <2>2. memo.fast \in Int /\ memo.slow \in Int /\ memo.macd \in Int /\ memo.rsi \in Int
    BY DEF ReadingBars
  <2>3. a \in Int /\ b \in Int /\ c \in Int /\ d \in Int
    BY <1>2, <2>2
  <2>4. m = [memo EXCEPT !.missing = v, !.fast = a, !.slow = b, !.macd = c, !.rsi = d]
    BY <1>1
  <2> HIDE DEF m, a, b, c, d
  <2> QED
    BY <1>3, <2>1, <2>3, <2>4, Zenon
<1>5. bar.missing = {} => m.missing = {} /\ SamePast(m, bar)
  BY <1>1 DEF ReadingBars, SamePast
<1> QED
  BY <1>4, <1>5

LEMMA ReplaceEngineInv ==
  ASSUME SignalInv, SkipEngine \/ ReplaceEngine
  PROVE  SignalInv'
<1>1. memory \in ReadingBars /\ config.rules \in Seq(Sources) /\ last \in ReadingBars
  BY DEF SignalInv, SignalTypes
<1>2. streak' = 0
  BY DEF SkipEngine, ReplaceEngine
<1>3. config'.rules \in Seq(Sources)
  BY <1>1, SignalAssumption DEF SkipEngine, ReplaceEngine
<1>4. last' \in ReadingBars
  BY <1>1, SignalAssumption DEF SkipEngine, ReplaceEngine
<1>5. memory' \in ReadingBars
  <2>1. memory.missing \cup {"macd", "rsi"} \in SUBSET {"ema", "macd", "rsi", "pctB", "adx", "atr"}
    BY <1>1 DEF ReadingBars
  <2>2. [memory EXCEPT !.missing = @ \cup {"macd", "rsi"}] \in ReadingBars
    BY <1>1, <2>1 DEF ReadingBars
  <2> QED
    BY <1>1, <2>2 DEF SkipEngine, ReplaceEngine
<1> QED
  BY <1>2, <1>3, <1>4, <1>5 DEF SignalInv, SignalTypes, SignalParity

LEMMA AskEngineInv ==
  ASSUME SignalInv, AskEngine
  PROVE  SignalInv'
<1>1. PICK bar \in SignalBars :
        /\ last' = bar
        /\ IF "atr" \in bar.missing
           THEN answer' = NoSignalYet /\ UNCHANGED memory
           ELSE /\ answer' = GenerateHypothesis(config.rules, config.logic, memory, bar)
                /\ memory' = Remember(memory, bar)
        /\ backtest' = ComputeDirection(config.rules, config.logic, last, bar)
        /\ offline' = SignalFn(config.rules, config.logic, last, bar)
        /\ streak' = IF bar.missing # {} THEN 0 ELSE IF streak = 2 THEN 2 ELSE streak + 1
        /\ UNCHANGED config
  BY DEF AskEngine
<1>2. /\ memory \in ReadingBars /\ last \in ReadingBars /\ streak \in 0 .. 2
      /\ config.rules \in Seq(Sources) /\ bar \in ReadingBars
  BY SignalAssumption DEF SignalInv, SignalTypes
<1>3. /\ Remember(memory, bar) \in ReadingBars
      /\ bar.missing = {} => /\ Remember(memory, bar).missing = {}
                             /\ SamePast(Remember(memory, bar), bar)
  BY <1>2, Remembered, Zenon
<1>4. SignalTypes'
  BY <1>1, <1>2, <1>3 DEF SignalTypes
<1>5. streak' > 0 => last'.missing = {} /\ memory'.missing = {} /\ SamePast(memory', last')
  BY <1>1, <1>3
<1>6. SignalParity'
  <2> DEFINE rules == config.rules
             logic == config.logic
  <2> SUFFICES ASSUME streak' = 2, ~HasRule(rules, "bos_confirm")
               PROVE  /\ answer'.direction = offline'
                      /\ answer' = backtest' \/ \E s \in SilentInBacktest : HasRule(rules, s)
    BY <1>1 DEF SignalParity, Uses, HasRule
  <2>1. bar.missing = {} /\ streak > 0
    BY <1>1, <1>2
  <2>2. last.missing = {} /\ memory.missing = {} /\ SamePast(memory, last)
    BY <2>1 DEF SignalInv
  <2>3. /\ answer' = GenerateHypothesis(rules, logic, memory, bar)
        /\ backtest' = ComputeDirection(rules, logic, last, bar)
        /\ offline' = SignalFn(rules, logic, last, bar)
    BY <1>1, <2>1
  <2>4. rules \in Seq(Sources)
    BY <1>2
  <2> HIDE DEF rules, logic
  <2>5. AnswerAlike(rules, logic, memory, last, bar)
    BY <2>1, <2>2, <2>4, CompleteBars, Zenon
  <2> QED
    BY <2>3, <2>5, Zenon DEF AnswerAlike
<1> QED
  BY <1>4, <1>5, <1>6 DEF SignalInv

\* From its second complete bar in a row the live engine answers what the backtest and
\* the signal function answer on these bars, for any readings, strategies and logics
\* (signals/algorithmic.py, backtester/runner.py).
THEOREM EnginesAnswerAlike == SignalSpec => []SignalParity
<1>1. SignalInit => SignalInv
  <2> SUFFICES ASSUME SignalInit PROVE SignalInv
    OBVIOUS
  <2>1. AnyBar \in ReadingBars /\ AnyConfig.rules \in Seq(Sources)
    BY SignalAssumption DEF AnyBar, AnyConfig
  <2>2. Blank \in ReadingBars
    BY <2>1 DEF Blank, ReadingBars
  <2> QED
    BY <2>1, <2>2 DEF SignalInit, SignalInv, SignalTypes, SignalParity
<1>2. SignalInv /\ [SignalNext]_signalVars => SignalInv'
  <2> SUFFICES ASSUME SignalInv, [SignalNext]_signalVars PROVE SignalInv'
    OBVIOUS
  <2>1. CASE UNCHANGED signalVars
    BY <2>1 DEF signalVars, SignalInv, SignalTypes, SignalParity, Uses
  <2> QED
    BY <2>1, AskEngineInv, ReplaceEngineInv DEF SignalNext
<1>3. SignalInv => SignalParity
  BY DEF SignalInv
<1> QED
  BY <1>1, <1>2, <1>3, PTL DEF SignalSpec

-----------------------------------------------------------------------------
(* The structure of a market *)

LEMMA MaxIs ==
  ASSUME NEW S \in SUBSET Int, NEW x \in S, \A y \in S : y <= x
  PROVE  Max(S) = x
<1>1. \A y \in S : x >= y
  OBVIOUS
<1> DEFINE top == Max(S)
<1>2. top \in S /\ \A y \in S : top >= y
  BY <1>1, Zenon DEF Max
<1> HIDE DEF top
<1>3. top \in Int /\ x \in Int /\ top >= x /\ top <= x
  BY <1>2
<1>4. top = x
  BY <1>3
<1> QED
  BY <1>4 DEF top

LEMMA LargestOf ==
  ASSUME NEW S \in SUBSET Int, S # {}, NEW bound \in Int, \A x \in S : x <= bound
  PROVE  Max(S) \in S /\ \A y \in S : y <= Max(S)
<1> DEFINE T == {bound - x : x \in S}
<1>0. \A x \in S : bound - x \in Nat
  OBVIOUS
<1>1. T \in SUBSET Nat /\ T # {}
  BY <1>0
<1> DEFINE t == Min(T)
<1>2. t \in T /\ \A u \in T : t <= u
  <2> HIDE DEF T
  <2> QED
    BY <1>1, LeastOf
<1> HIDE DEF t
<1>3. PICK x \in S : t = bound - x
  BY <1>2
<1>4. ASSUME NEW y \in S PROVE y <= x
  <2>1. t <= bound - y
    BY <1>2
  <2> QED
    BY <1>3, <2>1
<1> QED
  BY <1>4, MaxIs

\* A reading of finitely many bars is bounded.
LEMMA BoundedReadings ==
  ASSUME NEW f, NEW n \in Nat, \A i \in 1 .. n : f[i] \in Int
  PROVE  \E b \in Int : \A i \in 1 .. n : f[i] <= b
<1> DEFINE Bounded(m) == \E b \in Int : \A i \in 1 .. m : f[i] <= b
           bad == {m \in 0 .. n : ~Bounded(m)}
<1> SUFFICES ASSUME bad # {} PROVE FALSE
  <2> HIDE DEF Bounded
  <2>1. n \in 0 .. n
    OBVIOUS
  <2>2. bad = {} => Bounded(n)
    BY <2>1
  <2> QED
    BY <2>2 DEF Bounded
<1> DEFINE m == Min(bad)
<1>1. m \in bad /\ \A k \in bad : m <= k
  <2>1. bad \in SUBSET Nat
    OBVIOUS
  <2> HIDE DEF bad
  <2> QED
    BY <2>1, LeastOf
<1> HIDE DEF m
<1>2. m \in 0 .. n /\ ~Bounded(m)
  BY <1>1
<1>3. m # 0
  <2>1. \A i \in 1 .. 0 : f[i] <= 0
    OBVIOUS
  <2> QED
    BY <1>2, <2>1
<1>4. m - 1 \in 0 .. n /\ m - 1 \notin bad
  <2>1. m - 1 \in 0 .. n /\ ~(m <= m - 1)
    BY <1>2, <1>3
  <2> HIDE DEF bad
  <2> QED
    BY <1>1, <2>1
<1>5. PICK b \in Int : \A i \in 1 .. m - 1 : f[i] <= b
  BY <1>4
<1>6. f[m] \in Int
  BY <1>2, <1>3
<1>7. ASSUME NEW top \in Int, top >= b, top >= f[m] PROVE FALSE
  <2>1. ASSUME NEW i \in 1 .. m PROVE f[i] <= top
    <3>1. f[i] \in Int
      BY <1>2
    <3>2. CASE i = m
      BY <1>7, <3>2
    <3>3. CASE i \in 1 .. m - 1
      BY <1>5, <1>7, <3>1, <3>3
    <3>4. i = m \/ i \in 1 .. m - 1
      BY <1>2
    <3> QED
      BY <3>2, <3>3, <3>4
  <2> QED
    BY <1>2, <2>1
<1>8. b >= f[m] \/ f[m] >= b
  BY <1>5, <1>6
<1>9. b >= b /\ f[m] >= f[m]
  BY <1>5, <1>6
<1> QED
  BY <1>5, <1>6, <1>7, <1>8, <1>9

LEMMA CandleReadings ==
  ASSUME NEW s \in Seq(Candles), NEW i \in 1 .. Len(s)
  PROVE  /\ s[i].low \in Int /\ s[i].high \in Int /\ s[i].close \in Int
         /\ s[i].low <= s[i].close /\ s[i].close <= s[i].high
<1>1. s[i] \in Candles
  OBVIOUS
<1> QED
  BY <1>1, StructureAssumption

LEMMA Extremes ==
  ASSUME NEW s \in Seq(Candles), Len(s) > 0
  PROVE  HighestOf(s) \in Int /\ LowestOf(s) \in Int
<1> DEFINE n == Len(s)
           highs == [i \in 1 .. n |-> s[i].high]
           lows == [i \in 1 .. n |-> 0 - s[i].low]
           H == {s[i].high : i \in 1 .. n}
           L == {s[i].low : i \in 1 .. n}
<1>1. n \in Nat /\ n > 0 /\ DOMAIN s = 1 .. n
  OBVIOUS
<1>2. \A i \in 1 .. n : s[i].high \in Int /\ s[i].low \in Int
  BY CandleReadings
<1> HIDE DEF n
<1>3. PICK b \in Int : \A i \in 1 .. n : highs[i] <= b
  <2>1. \A i \in 1 .. n : highs[i] \in Int
    BY <1>2
  <2> HIDE DEF highs
  <2> QED
    BY <1>1, <2>1, BoundedReadings
<1>4. PICK c \in Int : \A i \in 1 .. n : lows[i] <= c
  <2>1. \A i \in 1 .. n : lows[i] \in Int
    BY <1>2
  <2> HIDE DEF lows
  <2> QED
    BY <1>1, <2>1, BoundedReadings
<1>5. Max(H) \in Int
  <2>1. H \in SUBSET Int /\ H # {}
    BY <1>1, <1>2
  <2>2. \A x \in H : x <= b
    BY <1>3
  <2> HIDE DEF H
  <2> QED
    BY <2>1, <2>2, LargestOf
<1>6. Min(L) \in Int
  <2> DEFINE T == {0 - x : x \in L}
  <2>1. T \in SUBSET Int /\ T # {} /\ L \in SUBSET Int
    BY <1>1, <1>2
  <2>2. \A x \in T : x <= c
    BY <1>4
  <2> DEFINE t == Max(T)
  <2>3. t \in T /\ \A y \in T : y <= t
    <3> HIDE DEF T
    <3> QED
      BY <2>1, <2>2, LargestOf
  <2> HIDE DEF L, t
  <2>4. PICK x \in L : t = 0 - x
    BY <2>3
  <2>5. ASSUME NEW y \in L PROVE x <= y
    <3>1. 0 - y <= t /\ x \in Int /\ y \in Int
      BY <2>1, <2>3
    <3> QED
      BY <2>4, <3>1
  <2>6. Min(L) \in L
    BY <2>5, Zenon DEF Min
  <2> QED
    BY <2>1, <2>6
<1> QED
  BY <1>1, <1>5, <1>6 DEF HighestOf, LowestOf

\* w is what is left of the bars s without the o oldest ones.
IsTail(w, s, o) ==
    /\ w \in Seq(Candles) /\ s \in Seq(Candles) /\ o \in Nat
    /\ Len(s) = o + Len(w)
    /\ \A i \in 1 .. Len(w) : w[i] = s[o + i]

LEMMA LastBarsAre ==
  ASSUME NEW s \in Seq(Candles), NEW n \in Nat, 0 < n, n <= Len(s)
  PROVE  LastBars(s, n) = SubSeq(s, Len(s) - n + 1, Len(s))
<1> DEFINE first == Len(s) - n + 1
<1>1. first \in Int /\ 1 <= first
  OBVIOUS
<1>2. Max({1, first}) = first
  <2> HIDE DEF first
  <2>1. {1, first} \in SUBSET Int /\ first \in {1, first} /\ \A y \in {1, first} : y <= first
    BY <1>1
  <2> QED
    BY <2>1, MaxIs, Zenon
<1> QED
  BY <1>2 DEF LastBars

LEMMA LastBarsTail ==
  ASSUME NEW s \in Seq(Candles), NEW n \in Nat, 0 < n, n <= Len(s)
  PROVE  IsTail(LastBars(s, n), s, Len(s) - n) /\ Len(LastBars(s, n)) = n
<1> DEFINE o == Len(s) - n
           w == SubSeq(s, o + 1, Len(s))
<1>1. o \in Nat /\ Len(s) \in Nat /\ o + 1 \in 1 .. Len(s)
  OBVIOUS
<1>2. LastBars(s, n) = w
  BY LastBarsAre, Zenon
<1> HIDE DEF o
<1>3. w \in Seq(Candles) /\ Len(w) = Len(s) - o
  BY <1>1
<1>4. ASSUME NEW i \in 1 .. Len(w) PROVE w[i] = s[o + i]
  BY <1>1, <1>3
<1>5. Len(s) = o + Len(w) /\ Len(w) = n
  BY <1>1, <1>3 DEF o
<1> HIDE DEF w
<1>6. IsTail(w, s, o)
  BY <1>1, <1>3, <1>4, <1>5, Zenon DEF IsTail
<1> QED
  BY <1>2, <1>5, <1>6, Zenon DEF o

\* What lies within the window is the same in both.
LEMMA SubSeqOfTail ==
  ASSUME NEW w, NEW s, NEW o, IsTail(w, s, o),
         NEW a \in 1 .. Len(w), NEW b \in 1 .. Len(w), a <= b
  PROVE  /\ SubSeq(w, a, b) = SubSeq(s, o + a, o + b)
         /\ SubSeq(w, a, b) \in Seq(Candles) /\ Len(SubSeq(w, a, b)) = b - a + 1
<1> DEFINE u == SubSeq(w, a, b)
           v == SubSeq(s, o + a, o + b)
<1>1. /\ w \in Seq(Candles) /\ s \in Seq(Candles) /\ o \in Nat /\ Len(w) \in Nat
      /\ Len(s) = o + Len(w)
  BY DEF IsTail
<1>2. u \in Seq(Candles) /\ Len(u) = b - a + 1
  BY <1>1
<1>3. v \in Seq(Candles) /\ Len(v) = b - a + 1
  <2>1. o + a \in 1 .. Len(s) /\ o + b \in 1 .. Len(s) /\ o + a <= o + b
    BY <1>1
  <2>2. (o + b) - (o + a) + 1 = b - a + 1
    BY <1>1
  <2> QED
    BY <1>1, <2>1, <2>2
<1>4. ASSUME NEW i \in 1 .. b - a + 1 PROVE u[i] = v[i]
  <2>1. u[i] = w[a + i - 1]
    BY <1>1
  <2>2. v[i] = s[(o + a) + i - 1]
    <3> DEFINE c == o + a
               d == o + b
    <3>1. c \in 1 .. Len(s) /\ d \in 1 .. Len(s) /\ i \in 1 .. d - c + 1
      BY <1>1
    <3> HIDE DEF c, d
    <3>2. SubSeq(s, c, d)[i] = s[c + i - 1]
      BY <1>1, <3>1
    <3> QED
      BY <3>2, Zenon DEF c, d
  <2>3. a + i - 1 \in 1 .. Len(w) /\ (o + a) + i - 1 = o + (a + i - 1)
    BY <1>1
  <2>4. w[a + i - 1] = s[o + (a + i - 1)]
    BY <2>3 DEF IsTail
  <2> QED
    BY <2>1, <2>2, <2>3, <2>4
<1> HIDE DEF u, v
<1>5. \A i \in 1 .. Len(u) : u[i] = v[i]
  BY <1>2, <1>4
<1>6. u = v
  BY <1>2, <1>3, <1>5, SeqEqual, Zenon
<1> QED
  BY <1>2, <1>6 DEF u, v

LEMMA BarsBeforeAre ==
  ASSUME NEW t \in Seq(Candles), Len(t) > Lookback
  PROVE  BarsBefore(t) = SubSeq(t, Len(t) - Lookback, Len(t) - 1)
<1>1. Lookback \in Nat /\ Lookback > 0
  BY StructureAssumption
<1> DEFINE f == SubSeq(t, 1, Len(t) - 1)
           n == Len(t) - 1
<1>2. Len(t) \in Nat /\ n \in Nat /\ n >= Lookback /\ n \in 1 .. Len(t)
  BY <1>1
<1>3. f \in Seq(Candles) /\ Len(f) = n
  BY <1>2
<1>4. LastBars(f, Lookback) = SubSeq(f, n - Lookback + 1, n)
  <2> HIDE DEF f, n
  <2> QED
    BY <1>1, <1>2, <1>3, LastBarsAre
<1> DEFINE u == SubSeq(f, n - Lookback + 1, n)
           v == SubSeq(t, n - Lookback + 1, n)
<1>5. n - Lookback + 1 \in 1 .. n /\ n \in 1 .. n
  BY <1>1, <1>2
<1>6. u \in Seq(Candles) /\ v \in Seq(Candles) /\ Len(u) = Lookback /\ Len(v) = Lookback
  <2>1. \A q \in Seq(Candles), a \in Int : a \in 1 .. n /\ n \in 1 .. Len(q) =>
          SubSeq(q, a, n) \in Seq(Candles) /\ Len(SubSeq(q, a, n)) = n - a + 1
    BY <1>2
  <2>2. n - (n - Lookback + 1) + 1 = Lookback
    BY <1>1, <1>2
  <2> HIDE DEF f, n
  <2> QED
    BY <1>2, <1>3, <1>5, <2>1, <2>2
<1>7. ASSUME NEW i \in 1 .. Lookback PROVE u[i] = v[i]
  <2> DEFINE j == (n - Lookback + 1) + i - 1
  <2>1. j \in 1 .. n /\ i \in 1 .. n - (n - Lookback + 1) + 1
    BY <1>1, <1>2
  <2>2. f[j] = t[j]
    BY <1>2, <2>1
  <2>3. v[i] = t[j]
    BY <1>2, <1>5, <2>1
  <2>4. u[i] = f[j]
    <3> HIDE DEF f, n
    <3> QED
      BY <1>3, <1>5, <2>1
  <2> QED
    BY <2>2, <2>3, <2>4
<1>8. u = v
  <2> HIDE DEF u, v
  <2>1. \A i \in 1 .. Len(u) : u[i] = v[i]
    BY <1>6, <1>7
  <2> QED
    BY <1>6, <2>1, SeqEqual, Zenon
<1>9. n - Lookback + 1 = Len(t) - Lookback
  BY <1>1, <1>2
<1> QED
  BY <1>4, <1>8, <1>9 DEF BarsBefore, Front

\* Both compare the newest bar with the same bars.
LEMMA BarsBeforeTail ==
  ASSUME NEW w, NEW s, NEW o, IsTail(w, s, o), Len(w) > Lookback
  PROVE  /\ BarsBefore(w) = BarsBefore(s) /\ Last(w) = Last(s)
         /\ BarsBefore(s) \in Seq(Candles) /\ Len(BarsBefore(s)) = Lookback
<1>1. /\ w \in Seq(Candles) /\ s \in Seq(Candles) /\ o \in Nat /\ Len(w) \in Nat
      /\ Len(s) = o + Len(w) /\ Lookback \in Nat /\ Lookback > 0
  BY StructureAssumption DEF IsTail
<1>3. /\ BarsBefore(w) = SubSeq(w, Len(w) - Lookback, Len(w) - 1)
      /\ BarsBefore(s) = SubSeq(s, Len(s) - Lookback, Len(s) - 1)
  <2>1. Len(s) > Lookback
    BY <1>1
  <2> QED
    BY <1>1, <2>1, BarsBeforeAre, Zenon
<1>4. /\ Len(w) - Lookback \in 1 .. Len(w) /\ Len(w) - 1 \in 1 .. Len(w)
      /\ Len(w) - Lookback <= Len(w) - 1
      /\ o + (Len(w) - Lookback) = Len(s) - Lookback /\ o + (Len(w) - 1) = Len(s) - 1
      /\ (Len(w) - 1) - (Len(w) - Lookback) + 1 = Lookback
  BY <1>1
<1>5. /\ BarsBefore(w) = BarsBefore(s)
      /\ BarsBefore(s) \in Seq(Candles) /\ Len(BarsBefore(s)) = Lookback
  <2> DEFINE a == Len(w) - Lookback
             b == Len(w) - 1
  <2>1. /\ a \in 1 .. Len(w) /\ b \in 1 .. Len(w) /\ a <= b /\ b - a + 1 = Lookback
        /\ BarsBefore(w) = SubSeq(w, a, b) /\ BarsBefore(s) = SubSeq(s, o + a, o + b)
    BY <1>3, <1>4
  <2> HIDE DEF a, b
  <2>2. /\ SubSeq(w, a, b) = SubSeq(s, o + a, o + b)
        /\ SubSeq(w, a, b) \in Seq(Candles) /\ Len(SubSeq(w, a, b)) = b - a + 1
    BY <2>1, SubSeqOfTail, Zenon
  <2> QED
    BY <2>1, <2>2, Zenon
<1>6. Last(w) = Last(s)
  <2>1. Len(w) \in 1 .. Len(w) /\ o + Len(w) = Len(s)
    BY <1>1
  <2> QED
    BY <2>1 DEF IsTail, Last
<1> QED
  BY <1>5, <1>6

\* The fields of a record of truth values (the provers keep values and formulas apart).
LEMMA Flags ==
  ASSUME NEW p \in BOOLEAN, NEW q \in BOOLEAN, NEW r, r = [up |-> p, down |-> q]
  PROVE  (r.up <=> p) /\ (r.down <=> q)
<1>1. CASE p = TRUE /\ q = TRUE
  BY <1>1
<1>2. CASE p = TRUE /\ q = FALSE
  BY <1>2
<1>3. CASE p = FALSE /\ q = TRUE
  BY <1>3
<1>4. CASE p = FALSE /\ q = FALSE
  BY <1>4
<1> QED
  BY <1>1, <1>2, <1>3, <1>4

LEMMA BreaksAgree ==
  ASSUME NEW w, NEW s, NEW o, IsTail(w, s, o), Len(w) > Lookback
  PROVE  /\ ConfirmedBreak(w).up => LiveBreak(s).up
         /\ ConfirmedBreak(w).down => LiveBreak(s).down
         /\ LiveBreak(s).up => SimpleBreak(s) = "bullish"
         /\ LiveBreak(s).down => \/ SimpleBreak(s) = "bearish"
                                \/ Last(s).high > HighestOf(BarsBefore(s))
<1> DEFINE before == BarsBefore(s)
           high == HighestOf(before)
           low == LowestOf(before)
           bar == Last(s)
<1>1. /\ BarsBefore(w) = before /\ Last(w) = bar
      /\ before \in Seq(Candles) /\ Len(before) = Lookback
  BY BarsBeforeTail
<1>2. high \in Int /\ low \in Int
  <2> HIDE DEF before
  <2>1. Len(before) > 0
    BY <1>1, StructureAssumption
  <2> QED
    BY <1>1, <2>1, Extremes
<1>3. /\ bar.low \in Int /\ bar.high \in Int /\ bar.close \in Int /\ MinBreak \in Nat
      /\ bar.low <= bar.close /\ bar.close <= bar.high
  <2>1. s \in Seq(Candles) /\ Len(s) \in 1 .. Len(s)
    BY StructureAssumption DEF IsTail
  <2>2. /\ s[Len(s)].low \in Int /\ s[Len(s)].high \in Int /\ s[Len(s)].close \in Int
        /\ s[Len(s)].low <= s[Len(s)].close /\ s[Len(s)].close <= s[Len(s)].high
    BY <2>1, CandleReadings
  <2> QED
    BY <2>2, StructureAssumption DEF Last
<1>4. /\ ConfirmedBreak(w) = [up |-> bar.close - high > MinBreak, down |-> low - bar.close > MinBreak]
      /\ LiveBreak(s) = [up |-> bar.close > high, down |-> bar.close < low]
      /\ SimpleBreak(s) = CASE bar.high > high -> "bullish"
                             [] bar.high <= high /\ bar.low < low -> "bearish"
                             [] OTHER -> "neutral"
  BY <1>1, Zenon DEF ConfirmedBreak, LiveBreak, SimpleBreak, BarsBefore
<1>5. /\ ConfirmedBreak(w).up <=> bar.close - high > MinBreak
      /\ ConfirmedBreak(w).down <=> low - bar.close > MinBreak
      /\ LiveBreak(s).up <=> bar.close > high
      /\ LiveBreak(s).down <=> bar.close < low
  <2>1. /\ (bar.close - high > MinBreak) \in BOOLEAN /\ (low - bar.close > MinBreak) \in BOOLEAN
        /\ (bar.close > high) \in BOOLEAN /\ (bar.close < low) \in BOOLEAN
    OBVIOUS
  <2> QED
    BY <1>4, <2>1, Flags, Zenon
<1> HIDE DEF before, high, low, bar
<1>6. /\ ConfirmedBreak(w).up => LiveBreak(s).up
      /\ ConfirmedBreak(w).down => LiveBreak(s).down
  BY <1>2, <1>3, <1>5
<1>7. ASSUME LiveBreak(s).up PROVE SimpleBreak(s) = "bullish"
  <2>1. bar.high > high
    BY <1>2, <1>3, <1>5, <1>7
  <2> QED
    BY <1>2, <1>3, <1>4, <2>1
<1>8. ASSUME LiveBreak(s).down, ~(bar.high > high) PROVE SimpleBreak(s) = "bearish"
  <2>1. bar.low < low /\ bar.high <= high
    BY <1>2, <1>3, <1>5, <1>8
  <2> QED
    BY <1>2, <1>3, <1>4, <2>1
<1> QED
  BY <1>6, <1>7, <1>8, Zenon DEF before, high, bar

LEMMA GapsAgree ==
  ASSUME NEW w, NEW s, NEW o, IsTail(w, s, o)
  PROVE  /\ UnfilledGaps(w).up \ {Lookback} \subseteq LiveGaps(s).up
         /\ UnfilledGaps(w).down \ {Lookback} \subseteq LiveGaps(s).down
         /\ SimpleGaps(s).up \subseteq LiveGaps(s).up
         /\ SimpleGaps(s).down \subseteq LiveGaps(s).down
<1>1. /\ w \in Seq(Candles) /\ s \in Seq(Candles) /\ o \in Nat /\ Len(w) \in Nat
      /\ Len(s) = o + Len(w) /\ Len(s) \in Nat /\ Lookback \in Nat
  BY StructureAssumption DEF IsTail
<1>2. ASSUME NEW a \in 1 .. Len(w) PROVE Aged(w, a) = Aged(s, a)
  <2>1. Len(w) + 1 - a \in 1 .. Len(w) /\ o + (Len(w) + 1 - a) = Len(s) + 1 - a
    BY <1>1
  <2> QED
    BY <2>1 DEF IsTail, Aged
<1>3. \A x, y \in Int : Min({x, y}) = IF x <= y THEN x ELSE y
  <2> SUFFICES ASSUME NEW x \in Int, NEW y \in Int
               PROVE  Min({x, y}) = IF x <= y THEN x ELSE y
    OBVIOUS
  <2>1. \E z \in {x, y} : \A u \in {x, y} : z <= u
    OBVIOUS
  <2>2. Min({x, y}) \in {x, y} /\ \A u \in {x, y} : Min({x, y}) <= u
    BY <2>1, Zenon DEF Min
  <2> QED
    BY <2>2
<1> DEFINE ages == {a \in 1 .. Min({Lookback, Len(s) - 1}) - 1 : a + 2 <= Len(s)}
<1>4. \A a \in Nat : 1 <= a /\ a < Lookback /\ a + 2 <= Len(s) => a \in ages
  BY <1>1, <1>3
<1>5. LiveGaps(s) = [up |-> {a \in ages : GapUp(s, a) > 0}, down |-> {a \in ages : GapDown(s, a) > 0}]
  BY DEF LiveGaps
<1> HIDE DEF ages
<1>6. ASSUME NEW a \in UnfilledGaps(w).up \cup UnfilledGaps(w).down, a # Lookback
      PROVE  /\ a \in ages
             /\ a \in UnfilledGaps(w).up => GapUp(s, a) > 0
             /\ a \in UnfilledGaps(w).down => GapDown(s, a) > 0
  <2>1. /\ a \in 1 .. Lookback /\ a + 2 <= Len(w)
        /\ a \in UnfilledGaps(w).up => GapUp(w, a) > 0
        /\ a \in UnfilledGaps(w).down => GapDown(w, a) > 0
    BY DEF UnfilledGaps
  <2>2. a \in 1 .. Len(w) /\ a + 2 \in 1 .. Len(w)
    BY <1>1, <2>1
  <2>3. Aged(w, a) = Aged(s, a) /\ Aged(w, a + 2) = Aged(s, a + 2)
    BY <1>2, <2>2
  <2>4. GapUp(w, a) = GapUp(s, a) /\ GapDown(w, a) = GapDown(s, a)
    BY <2>3 DEF GapUp, GapDown
  <2>5. a \in ages
    BY <1>1, <1>4, <1>6, <2>1
  <2> QED
    BY <2>1, <2>4, <2>5
<1>7. ASSUME NEW a \in SimpleGaps(s).up \cup SimpleGaps(s).down
      PROVE  /\ a \in ages
             /\ a \in SimpleGaps(s).up => GapUp(s, a) > 0
             /\ a \in SimpleGaps(s).down => GapDown(s, a) > 0
  <2>1. /\ a \in 2 .. Min({Lookback, Len(s) - 2}) - 1
        /\ a \in SimpleGaps(s).up => GapUp(s, a) > 0
        /\ a \in SimpleGaps(s).down => GapDown(s, a) > 0
    BY DEF SimpleGaps
  <2>2. a \in Nat /\ 1 <= a /\ a < Lookback /\ a + 2 <= Len(s)
    BY <1>1, <1>3, <2>1
  <2> QED
    BY <1>4, <2>1, <2>2
<1> QED
  BY <1>5, <1>6, <1>7

\* The swings of a window are those of all bars that are not too old for it.
TailSet(A, B, o, first) ==
    /\ A \subseteq Nat /\ B \subseteq Nat /\ \E n \in Nat : \A i \in A : i <= n
    /\ \A i \in A : i >= first /\ o + i \in B
    /\ \A j \in B : j - o >= first => j - o \in A

LEMMA LatestOfTail ==
  ASSUME NEW A, NEW B, NEW o \in Nat, NEW first \in Int, TailSet(A, B, o, first), A # {}
  PROVE  /\ Latest(A) \in A /\ Latest(B) = o + Latest(A)
         /\ TailSet(A \ {Latest(A)}, B \ {Latest(B)}, o, first)
<1> DEFINE x == Latest(A)
<1>1. /\ A \in SUBSET Nat /\ B \in SUBSET Nat
      /\ \A i \in A : i >= first /\ o + i \in B
      /\ \A j \in B : j - o >= first => j - o \in A
  BY DEF TailSet
<1>2. PICK n \in Nat : \A i \in A : i <= n
  BY DEF TailSet
<1>3. x \in A /\ \A i \in A : i <= x
  <2>1. A \in SUBSET Int
    BY <1>1
  <2> QED
    BY <1>2, <2>1, LargestOf DEF Latest
<1> HIDE DEF x
<1>4. o + x \in B /\ x \in Nat
  BY <1>1, <1>3
<1>5. ASSUME NEW j \in B PROVE j <= o + x
  <2>1. j \in Nat /\ x >= first
    BY <1>1, <1>3
  <2>2. CASE j - o >= first
    BY <1>1, <1>3, <1>4, <2>1, <2>2
  <2>3. CASE ~(j - o >= first)
    BY <1>4, <2>1, <2>3
  <2> QED
    BY <2>2, <2>3
<1>6. Latest(B) = o + x
  <2>1. B \in SUBSET Int
    BY <1>1
  <2> DEFINE y == o + x
  <2>2. y \in B /\ \A j \in B : j <= y
    BY <1>4, <1>5
  <2> HIDE DEF y
  <2> QED
    BY <2>1, <2>2, MaxIs, Zenon DEF Latest, y
<1>7. ASSUME NEW i \in A \ {x} PROVE i >= first /\ o + i \in B \ {o + x}
  <2>1. i \in Nat /\ i # x
    BY <1>1
  <2> QED
    BY <1>1, <1>4, <2>1
<1>8. ASSUME NEW j \in B \ {o + x}, j - o >= first PROVE j - o \in A \ {x}
  <2>1. j \in Nat /\ j # o + x /\ j - o \in A
    BY <1>1, <1>8
  <2> QED
    BY <1>4, <2>1
<1>9. \A i \in A \ {x} : i <= n
  BY <1>2
<1>10. TailSet(A \ {x}, B \ {o + x}, o, first)
  BY <1>1, <1>7, <1>8, <1>9 DEF TailSet
<1> QED
  BY <1>3, <1>6, <1>10 DEF x

LEMMA TwoOfTail ==
  ASSUME NEW A, NEW B, NEW o \in Nat, NEW first \in Int, TailSet(A, B, o, first), TwoOf(A)
  PROVE  /\ TwoOf(B) /\ Latest(A) \in A /\ Earlier(A) \in A
         /\ Latest(B) = o + Latest(A) /\ Earlier(B) = o + Earlier(A)
<1>1. PICK i \in A : A \ {i} # {}
  BY DEF TwoOf
<1> DEFINE x == Latest(A)
           A2 == A \ {x}
           B2 == B \ {Latest(B)}
<1>2. x \in A /\ Latest(B) = o + x /\ TailSet(A2, B2, o, first)
  <2>1. A # {}
    BY <1>1
  <2> QED
    BY <2>1, LatestOfTail
<1>3. A2 # {}
  BY <1>1
<1> HIDE DEF A2, B2
<1>4. Latest(A2) \in A2 /\ Latest(B2) = o + Latest(A2)
  BY <1>2, <1>3, LatestOfTail
<1>5. Earlier(A) = Latest(A2) /\ Earlier(B) = Latest(B2)
  BY DEF Earlier, Latest, A2, B2
<1>6. TwoOf(B)
  <2>1. o + x \in B
    BY <1>2 DEF TailSet
  <2>2. o + Latest(A2) \in B2
    BY <1>2, <1>4 DEF TailSet
  <2> QED
    BY <1>2, <2>1, <2>2 DEF TwoOf, B2
<1>7. Earlier(A) \in A
  BY <1>4, <1>5 DEF A2
<1> QED
  BY <1>2, <1>4, <1>5, <1>6, <1>7

LEMMA AroundTail ==
  ASSUME NEW w, NEW s, NEW o, IsTail(w, s, o), NEW i \in Centres(w)
  PROVE  /\ o + i \in Centres(s) /\ i \in 1 .. Len(w) /\ w[i] = s[o + i]
         /\ Around(w, i) = Around(s, o + i)
<1>1. /\ o \in Nat /\ Len(w) \in Nat /\ Len(s) = o + Len(w)
      /\ SwingWidth \in Nat /\ SwingWidth > 0
  BY StructureAssumption DEF IsTail
<1> DEFINE a == i - SwingWidth
           b == i + SwingWidth
<1>2. /\ a \in 1 .. Len(w) /\ b \in 1 .. Len(w) /\ a <= b /\ i \in 1 .. Len(w)
      /\ o + i \in Centres(s)
      /\ o + a = (o + i) - SwingWidth /\ o + b = (o + i) + SwingWidth
  BY <1>1 DEF Centres
<1>3. w[i] = s[o + i]
  BY <1>2 DEF IsTail
<1>4. Around(w, i) = SubSeq(w, a, b) /\ Around(s, o + i) = SubSeq(s, o + a, o + b)
  BY <1>2 DEF Around
<1> HIDE DEF a, b
<1>5. /\ SubSeq(w, a, b) = SubSeq(s, o + a, o + b)
      /\ SubSeq(w, a, b) \in Seq(Candles) /\ Len(SubSeq(w, a, b)) = b - a + 1
  <2>1. a \in 1 .. Len(w) /\ b \in 1 .. Len(w) /\ a <= b
    BY <1>2
  <2> QED
    BY <2>1, SubSeqOfTail, Zenon
<1> QED
  BY <1>2, <1>3, <1>4, <1>5

LEMMA SwingsOfTail ==
  ASSUME NEW w, NEW s, NEW o, IsTail(w, s, o)
  PROVE  /\ TailSet(SwingHighs(w), SwingHighs(s), o, SwingWidth + 1)
         /\ TailSet(SwingLows(w), SwingLows(s), o, SwingWidth + 1)
         /\ SwingHighs(w) \subseteq Centres(w) /\ SwingLows(w) \subseteq Centres(w)
<1>1. /\ o \in Nat /\ Len(w) \in Nat /\ Len(s) = o + Len(w) /\ SwingWidth \in Nat
  BY StructureAssumption DEF IsTail
<1>2. /\ SwingHighs(w) \subseteq Centres(w) /\ SwingLows(w) \subseteq Centres(w)
      /\ SwingHighs(s) \subseteq Centres(s) /\ SwingLows(s) \subseteq Centres(s)
  BY DEF SwingHighs, SwingLows
<1>3. /\ Centres(w) \subseteq Nat /\ Centres(s) \subseteq Nat
      /\ \A i \in Centres(w) : i >= SwingWidth + 1 /\ i <= Len(w)
  BY <1>1 DEF Centres
<1>4. ASSUME NEW i \in Centres(w)
      PROVE  /\ (i \in SwingHighs(w)) <=> (o + i \in SwingHighs(s))
             /\ (i \in SwingLows(w)) <=> (o + i \in SwingLows(s))
  <2>1. /\ o + i \in Centres(s) /\ i \in 1 .. Len(w) /\ w[i] = s[o + i]
        /\ Around(w, i) = Around(s, o + i)
    BY AroundTail
  <2>2. ASSUME NEW t, NEW k \in Centres(t)
        PROVE  /\ (k \in SwingHighs(t)) <=> (t[k].high = HighestOf(Around(t, k)))
               /\ (k \in SwingLows(t)) <=> (t[k].low = LowestOf(Around(t, k)))
    BY DEF SwingHighs, SwingLows
  <2> QED
    BY <2>1, <2>2
<1>5. ASSUME NEW j \in Centres(s), j - o >= SwingWidth + 1
      PROVE  j - o \in Centres(w) /\ o + (j - o) = j
  BY <1>1, <1>5 DEF Centres
<1>6. ASSUME NEW j \in SwingHighs(s), j - o >= SwingWidth + 1 PROVE j - o \in SwingHighs(w)
  BY <1>2, <1>4, <1>5, <1>6
<1>7. ASSUME NEW j \in SwingLows(s), j - o >= SwingWidth + 1 PROVE j - o \in SwingLows(w)
  BY <1>2, <1>4, <1>5, <1>7
<1>8. TailSet(SwingHighs(w), SwingHighs(s), o, SwingWidth + 1)
  BY <1>1, <1>2, <1>3, <1>4, <1>6 DEF TailSet
<1>9. TailSet(SwingLows(w), SwingLows(s), o, SwingWidth + 1)
  BY <1>1, <1>2, <1>3, <1>4, <1>7 DEF TailSet
<1> QED
  BY <1>2, <1>8, <1>9

\* What the swings of a window decide is what those of all bars decide.
LEMMA StructureOfTail ==
  ASSUME NEW w, NEW s, NEW o, IsTail(w, s, o), TwoSwings(w)
  PROVE  Structure(s) = Structure(w)
<1> DEFINE H == SwingHighs(w)
           L == SwingLows(w)
           HS == SwingHighs(s)
           LS == SwingLows(s)
<1>1. o \in Nat /\ SwingWidth + 1 \in Int
  BY StructureAssumption DEF IsTail
<1>2. /\ TailSet(H, HS, o, SwingWidth + 1) /\ TailSet(L, LS, o, SwingWidth + 1)
      /\ H \subseteq Centres(w) /\ L \subseteq Centres(w)
  BY SwingsOfTail
<1>3. TwoOf(H) /\ TwoOf(L)
  BY DEF TwoSwings
<1> HIDE DEF H, L, HS, LS
<1>4. /\ TwoOf(HS) /\ Latest(H) \in H /\ Earlier(H) \in H
      /\ Latest(HS) = o + Latest(H) /\ Earlier(HS) = o + Earlier(H)
  BY <1>1, <1>2, <1>3, TwoOfTail
<1>5. /\ TwoOf(LS) /\ Latest(L) \in L /\ Earlier(L) \in L
      /\ Latest(LS) = o + Latest(L) /\ Earlier(LS) = o + Earlier(L)
  BY <1>1, <1>2, <1>3, TwoOfTail
<1>6. \A i \in Centres(w) : w[i] = s[o + i]
  BY AroundTail
<1>7. /\ w[Latest(H)] = s[Latest(HS)] /\ w[Earlier(H)] = s[Earlier(HS)]
      /\ w[Latest(L)] = s[Latest(LS)] /\ w[Earlier(L)] = s[Earlier(LS)]
  BY <1>2, <1>4, <1>5, <1>6
<1>8. TwoSwings(s) /\ TwoSwings(w)
  BY <1>4, <1>5 DEF TwoSwings, HS, LS
<1>9. (Climb(w) <=> Climb(s)) /\ (Drop(w) <=> Drop(s))
  BY <1>7, Zenon DEF Climb, Drop, H, L, HS, LS
<1> QED
  BY <1>8, <1>9 DEF Structure

LEMMA StructuresAgree ==
  ASSUME NEW s \in Seq(Candles), Len(s) >= Slice
  PROVE  /\ TwoSwings(LastBars(s, Slice)) => LiveStructure(s) = WindowStructure(s)
         /\ SimpleStructure(s) # "ranging" => LiveStructure(s) = SimpleStructure(s)
<1>1. /\ Len(s) \in Nat /\ Slice \in Nat /\ ShortSlice \in Nat /\ SwingWidth \in Nat
      /\ 0 < ShortSlice /\ ShortSlice <= Slice /\ 4 * SwingWidth <= ShortSlice
  BY StructureAssumption
<1>2. LiveStructure(s) = Structure(s)
  BY <1>1 DEF LiveStructure
<1>3. ASSUME TwoSwings(LastBars(s, Slice)) PROVE Structure(s) = WindowStructure(s)
  <2> DEFINE w == LastBars(s, Slice)
             o == Len(s) - Slice
  <2>1. IsTail(w, s, o)
    BY <1>1, LastBarsTail
  <2> HIDE DEF w, o
  <2>2. Structure(s) = Structure(w)
    BY <1>3, <2>1, StructureOfTail DEF w
  <2> QED
    BY <2>2 DEF WindowStructure, w
<1>4. ASSUME SimpleStructure(s) # "ranging" PROVE Structure(s) = SimpleStructure(s)
  <2> DEFINE w == LastBars(s, ShortSlice)
             o == Len(s) - ShortSlice
  <2>1. IsTail(w, s, o) /\ Len(w) = ShortSlice
    BY <1>1, LastBarsTail
  <2> HIDE DEF w, o
  <2>2. SimpleStructure(s) = Structure(w)
    BY <1>1, <2>1 DEF SimpleStructure, w
  <2>3. TwoSwings(w)
    BY <1>4, <2>2 DEF Structure
  <2>4. Structure(s) = Structure(w)
    BY <2>1, <2>3, StructureOfTail
  <2> QED
    BY <2>2, <2>4
<1> QED
  BY <1>2, <1>3, <1>4

LEMMA StructureHolds ==
  ASSUME candles \in Seq(Candles)
  PROVE  StructureParity
<1> SUFFICES ASSUME Len(candles) >= Slice PROVE StructureParity
  BY DEF StructureParity
<1> DEFINE w == LastBars(candles, Slice)
           o == Len(candles) - Slice
<1>1. Slice \in Nat /\ Slice > Lookback /\ Slice > 0
  BY StructureAssumption
<1>2. IsTail(w, candles, o) /\ Len(w) = Slice
  BY <1>1, LastBarsTail
<1>3. /\ TwoSwings(w) => LiveStructure(candles) = WindowStructure(candles)
      /\ SimpleStructure(candles) # "ranging" => LiveStructure(candles) = SimpleStructure(candles)
  BY StructuresAgree
<1> HIDE DEF w, o
<1>4. /\ ConfirmedBreak(w).up => LiveBreak(candles).up
      /\ ConfirmedBreak(w).down => LiveBreak(candles).down
      /\ LiveBreak(candles).up => SimpleBreak(candles) = "bullish"
      /\ LiveBreak(candles).down => \/ SimpleBreak(candles) = "bearish"
                                   \/ Last(candles).high > HighestOf(BarsBefore(candles))
  <2>1. Len(w) > Lookback
    BY <1>1, <1>2
  <2> QED
    BY <1>2, <2>1, BreaksAgree, Zenon
<1>5. /\ UnfilledGaps(w).up \ {Lookback} \subseteq LiveGaps(candles).up
      /\ UnfilledGaps(w).down \ {Lookback} \subseteq LiveGaps(candles).down
      /\ SimpleGaps(candles).up \subseteq LiveGaps(candles).up
      /\ SimpleGaps(candles).down \subseteq LiveGaps(candles).down
  BY <1>2, GapsAgree, Zenon
<1> QED
  BY <1>3, <1>4, <1>5, Zenon DEF StructureParity, w

\* The live context, the vectorised backtest and make_signal_fn read breaks, gaps and
\* swings off the same bars alike as far as their definitions allow, for any bars,
\* windows, widths and thresholds (trading/loop.py, data/indicators.py,
\* backtester/runner.py).
THEOREM ReadingsAgree == StructureSpec => []StructureParity
<1>1. StructureInit => candles \in Seq(Candles)
  BY DEF StructureInit
<1>2. candles \in Seq(Candles) /\ [NewCandle]_candles => (candles \in Seq(Candles))'
  <2> SUFFICES ASSUME candles \in Seq(Candles), NewCandle PROVE candles' \in Seq(Candles)
    OBVIOUS
  <2>1. PICK c \in Candles : candles' = LastBars(Append(candles, c), Fetched)
    BY DEF NewCandle
  <2> DEFINE t == Append(candles, c)
  <2>2. t \in Seq(Candles) /\ Len(t) \in Nat /\ Fetched \in Nat /\ Fetched > 0
    BY StructureAssumption
  <2> HIDE DEF t
  <2>3. CASE Fetched <= Len(t)
    BY <2>1, <2>2, <2>3, LastBarsTail DEF IsTail, t
  <2>4. CASE Len(t) < Fetched
    <3> DEFINE first == Len(t) - Fetched + 1
    <3>1. first \in Int /\ first <= 1
      BY <2>2, <2>4
    <3>2. Max({1, first}) = 1
      <4> HIDE DEF first
      <4>1. {1, first} \in SUBSET Int /\ 1 \in {1, first} /\ \A y \in {1, first} : y <= 1
        BY <3>1
      <4> QED
        BY <4>1, MaxIs, Zenon
    <3>3. LastBars(t, Fetched) = SubSeq(t, 1, Len(t))
      BY <3>2 DEF LastBars
    <3> QED
      BY <2>1, <2>2, <3>3 DEF t
  <2> QED
    BY <2>2, <2>3, <2>4
<1> QED
  BY <1>1, <1>2, StructureHolds, PTL DEF StructureSpec
===============================================================================
