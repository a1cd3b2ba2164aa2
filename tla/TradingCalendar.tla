-------------------------- MODULE TradingCalendar --------------------------
(***************************************************************************)
(* The frozen exchange calendar and the rounds it schedules:               *)
(* src/arena_kernel/calendar.py, with the minute arithmetic of             *)
(* marketdata.py.                                                          *)
(*                                                                         *)
(* An instant is counted in seconds after midnight of the session date.    *)
(* An entry of a calendar file is a record of its date, its kind and its   *)
(* scheduled close, None for a key that is absent.                         *)
(***************************************************************************)
EXTENDS Integers

CONSTANT None   \* absent

Minute == 60
At(hours, minutes) == (60 * hours + minutes) * Minute

SessionKinds  == {"regular", "early_close"}
CalendarKinds == SessionKinds \cup {"holiday"}

\* parse_calendar: no date twice, a close time for sessions and for them alone.
IsCalendar(entries) ==
  /\ \A i \in DOMAIN entries :
       /\ entries[i].kind \in CalendarKinds
       /\ IF entries[i].kind = "holiday"
          THEN entries[i].close = None
          ELSE entries[i].close \in {At(h, m) : h \in 0..23, m \in 0..59}
  /\ \A i, j \in DOMAIN entries : entries[i].date = entries[j].date => i = j

\* None on a day without session: a holiday, or a date that is not listed.
ScheduledClose(entries, day) ==
  IF \E i \in DOMAIN entries : entries[i].date = day
  THEN entries[CHOOSE i \in DOMAIN entries : entries[i].date = day].close
  ELSE None

\* Defective variant, to see that a property notices: the reference minute is
\* the one before the deadline.
Window_BeforeDeadline(start) ==
  [start |-> start, deadline |-> start + 15 * Minute,
   reference |-> start + 14 * Minute]

\* The agents have fifteen minutes; fills are priced one minute after that.
Window(start) ==
  [start |-> start, deadline |-> start + 15 * Minute,
   reference |-> start + 15 * Minute + Minute]

MorningRound == Window(At(10, 0))

LateRound(close) == Window(close - 30 * Minute)

\* The rounds of a day by name: none unless the calendar lists a session.
RoundsForDay(entries, day) ==
  LET close == ScheduledClose(entries, day)
      names == IF close = None THEN {} ELSE {"morning", "late"}
  IN [k \in names |-> IF k = "morning" THEN MorningRound ELSE LateRound(close)]

\* The last minute that is over at an instant, on the minute the one before it.
LastCompleteMinute(instant) == (instant \div Minute) * Minute - Minute

\* Age is counted from the start of the latest bar.
Fresh(instant, latest) == instant - latest <= 60

\* A minute bar can be had once its minute is over.
Over(minute, instant) == minute + Minute <= instant
=============================================================================
