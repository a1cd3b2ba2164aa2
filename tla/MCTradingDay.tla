---------------------------- MODULE MCTradingDay ----------------------------
EXTENDS TradingDay

Entry(day, kind, close) == [date |-> day, kind |-> kind, close |-> close]

\* A session closed early between two days without.
MCCalendars ==
  {<<Entry(1, "holiday", None), Entry(2, "early_close", At(13, 0)), Entry(3, "holiday", None)>>}

MCToday == 2

\* The season, and rehearsals with a script or on recorded data.
MCSeason     == <<"aggregates", "subscription">>
MCSettings   == {MCSeason, <<"aggregates", "fake">>, <<"fixture", "subscription">>}
MCBounds     == [s \in MCSettings |-> IF s = MCSeason THEN 3 ELSE 2]
MCSeasonOnly == {MCSeason}
MCOneCommand == [s \in MCSeasonOnly |-> 1]

\* The instants around which something changes.
Around(w) == {w.start, w.deadline, w.deadline + Reaping, w.reference + Minute}

MCReadings ==
  [c \in MCCalendars |->
     LET close == ScheduledClose(c, MCToday)
     IN {MorningRound.start - 1, close}
          \cup UNION {Around(w) : w \in {MorningRound, LateRound(close)}}]

\* The spec of a round may still name the deadline of the other.
MCDeadlines ==
  [c \in MCCalendars |-> {MorningRound.deadline, LateRound(ScheduledClose(c, MCToday)).deadline}]
=============================================================================
