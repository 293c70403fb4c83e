----------------------------- MODULE NewsCalendar -----------------------------
(***************************************************************************)
(* The economic calendar of an instance: fetch_upcoming_news (data/news.py)*)
(* with its providers, its fallbacks and its cache, the context that the   *)
(* loop builds from it every cycle, and the news filter that reads it      *)
(* (NewsGate).                                                             *)
(*                                                                         *)
(* Time is in units of ten minutes.  A calendar is a set of events         *)
(* [at, high]; those after WeekEnd are in the file of the second week.     *)
(***************************************************************************)
EXTENDS PluginTools

CONSTANTS
    Calendars,  \* the calendars a behaviour may have
    WeekEnd,    \* last moment of the first week
    Day,        \* length of a day: a paid provider is asked for whole days
    Lookahead,  \* lookahead_hours
    CacheTTL,   \* _CACHE_TTL_SECONDS
    Blackout,   \* half width of the filter's window, and lookback of ForexFactory
    MaxTime     \* bound: the clock

ASSUME CalendarAssumption ==
    /\ WeekEnd \in Nat /\ Day \in Nat \ {0} /\ CacheTTL \in Nat \ {0} /\ MaxTime \in Nat
    /\ Blackout \in 0 .. 3 /\ Lookahead \in Nat /\ Lookahead >= CacheTTL + Blackout
    /\ \A c \in Calendars : c \subseteq [at : Nat, high : BOOLEAN]

VARIABLES
    clock,     \* now
    calendar,  \* the events there are
    paid,      \* a provider with a key comes first
    cached,    \* _cache_ts and _cache_events, or NoCache
    news,      \* context.news of this cycle: Events(list), Unavailable, or NoContext
    half,      \* ghost: events of a file that failed are missing in what is cached
    raised     \* ghost: the context of this cycle has no news because of an exception
calendarVars == <<clock, calendar, paid, cached, news, half, raised>>

NoCache == [at |-> -1, events |-> {}]
Events(list) == [state |-> "events", list |-> list]
Unavailable == [state |-> "NEWS_DATA_UNAVAILABLE", list |-> {}]
NoContext == [state |-> "none", list |-> {}]

CalendarInit ==
    /\ clock = 0 /\ calendar \in Calendars /\ paid \in BOOLEAN
    /\ cached = NoCache /\ news = NoContext /\ half = FALSE /\ raised = FALSE

\* _fetch_from_finnhub, _fetch_from_fmp: the days of the window, not filtered further.
PaidEvents ==
    {e \in calendar : e.at \div Day \in ((clock - Blackout) \div Day) .. ((clock + Lookahead) \div Day)}

\* Mutant: what has just happened is past.
InWindowAhead(e) == e.at \in clock .. clock + Lookahead
InWindow(e) == e.at \in clock - Blackout .. clock + Lookahead

\* _fetch_from_ff asks for both files at once; one that fails counts as empty.
WeekFile(week) == {e \in calendar : IF clock > WeekEnd THEN e.at > WeekEnd /\ week = "this"
                                    ELSE (e.at <= WeekEnd) = (week = "this")}
ForexFactory(weeks) == {e \in UNION {WeekFile(w) : w \in weeks} : InWindow(e)}

Served == cached # NoCache /\ clock - cached.at < CacheTTL

-----------------------------------------------------------------------------
(* _build_market_context, once a cycle *)

Refresh(events, partial) ==
    /\ cached' = [at |-> clock, events |-> events] /\ news' = Events(events) /\ half' = partial
    /\ UNCHANGED raised

ReadCache ==
    /\ Served /\ news' = Events(cached.events)
    /\ UNCHANGED <<cached, half, raised>>

FetchPaid == ~Served /\ paid /\ Refresh(PaidEvents, FALSE)

\* First choice without a key, and the fallback of a provider that failed.  A file that
\* arrives is not empty: it has the events of low impact too.
FetchForexFactory ==
    /\ ~Served
    /\ \E weeks \in {{"this", "next"}, {"this"}, {"next"}} :
          Refresh(ForexFactory(weeks), ForexFactory(weeks) # ForexFactory({"this", "next"}))

\* The stale events, however old, unless there are none; the next cycle tries again.
FetchNothing ==
    /\ ~Served
    /\ news' = IF cached.events # {} THEN Events(cached.events) ELSE Unavailable
    /\ UNCHANGED <<cached, half, raised>>

\* Settings that cannot be read: the cycle goes on with an empty list.
ContextRaises == news' = Events({}) /\ raised' = TRUE /\ UNCHANGED <<cached, half>>

BuildContext ==
    /\ news = NoContext
    /\ ReadCache \/ FetchPaid \/ FetchForexFactory \/ FetchNothing \/ ContextRaises
    /\ UNCHANGED <<clock, calendar, paid>>

CycleOver ==
    /\ news # NoContext /\ clock < MaxTime
    /\ \E d \in 1 .. 3 : clock' = clock + d
    /\ news' = NoContext /\ raised' = FALSE
    /\ UNCHANGED <<calendar, paid, cached, half>>

RestartProcess ==
    /\ news # NoContext /\ cached # NoCache
    /\ cached' = NoCache /\ news' = NoContext /\ half' = FALSE /\ raised' = FALSE
    /\ UNCHANGED <<clock, calendar, paid>>

CalendarNext == BuildContext \/ CycleOver \/ RestartProcess
CalendarSpec == CalendarInit /\ [][CalendarNext]_calendarVars

-----------------------------------------------------------------------------
\* What the news filter makes of the context.
NewsReading ==
    [missing |-> IF news = Unavailable THEN {"news"} ELSE {},
     news |-> {[high |-> e.high, unparsed |-> FALSE, minutes |-> 10 * (e.at - clock)] : e \in news.list}]

\* No trade passes within half an hour of an event of high impact: not on cached
\* events, not on the days of a paid provider, not in an outage that leaves a stale or
\* an empty cache, not after a restart.  The exceptions are the gaps the code has: the
\* file of a week that failed is taken for an empty one and cached, a context that
\* raises has no news, an outage may outlast what the cached list looked ahead, and
\* after the change of the week no file has the events of the week before.
NewsIsSeen ==
    \A e \in calendar :
        (news # NoContext /\ e.high /\ e.at \in clock - Blackout .. clock + Blackout)
        => \/ ~NewsGate(NewsReading).passed
           \/ half \/ raised
           \/ cached # NoCache /\ clock > cached.at + Lookahead - Blackout
           \/ e.at <= WeekEnd /\ WeekEnd < cached.at
===============================================================================
