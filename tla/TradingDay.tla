----------------------------- MODULE TradingDay -----------------------------
(***************************************************************************)
(* One session of live rounds and its official close: cmd_run_round with   *)
(* live_round set and cmd_close of src/arena_runtime/cli.py, wait.py, the  *)
(* vendors of marketdata.py and vendors/aggregates.py, publish_round, and  *)
(* mark_official_close of orchestrator.py, on the clock of the exchange.   *)
(*                                                                         *)
(* The operator issues commands one after the other, in any order and at   *)
(* any time of the day; a command may raise or be killed at any point.     *)
(* What a command does with sealed decisions and how publication goes      *)
(* through its files is the subject of ArenaRound and Publication: here    *)
(* an archived round is one step and the copy of its books one per         *)
(* replica.                                                                *)
(*                                                                         *)
(* A book is the set of the symbols it holds and the command that          *)
(* published it; a decision is the set of the symbols it has an order for, *)
(* a sell of what is held and a buy of what is not.                        *)
(***************************************************************************)
EXTENDS TradingCalendar, Disposition, FiniteSets

CONSTANTS
  Replica,      \* the replicas of the field
  Symbol,       \* the frozen universe
  Calendars,    \* calendar files the season may have
  Today,        \* the session date
  Readings,     \* Readings[c]: the readings of the clock on the day of calendar c
  Deadlines,    \* Deadlines[c]: the deadlines the requests may name on that day
  Settings,     \* the pairs of a vendor and the adapters the season may be run with
  Outcome,      \* outcomes an adapter may report
  MaxCommands   \* MaxCommands[s]: bound on the commands in setting s

RoundKind == {"morning", "late"}

\* A portfolio: the symbols it holds and the command that published it.
Book == [held : SUBSET Symbol, command : Nat]

\* What a close leaves: the marks of a replica, and its status.
Mark   == [book : Book, prices : SUBSET Symbol, command : Nat]
Status == [status : {"marked", "deferred"}, replicas : SUBSET Replica, command : Nat]

ASSUME DayAssumption ==
  /\ Replica # {}
  /\ \A entries \in Calendars : IsCalendar(entries)
  /\ Readings \in [Calendars -> SUBSET Nat]
  /\ Deadlines \in [Calendars -> SUBSET Nat]
  /\ None \notin Int \cup Book \cup [Replica -> Book]
  /\ None \notin Mark \cup Status
  /\ Settings \subseteq {"fixture", "aggregates"} \X {"subscription", "fake"}
  /\ Outcome \subseteq RunnerOutcomes
  /\ MaxCommands \in [Settings -> Nat]

VARIABLES
  now,        \* the wall clock
  entries,    \* the calendar file
  vendor,     \* the kind of vendor
  adapter,    \* the kind of the adapters
  commands,   \* commands issued so far
  \* the command in progress
  phase,      \* what it is doing
  name,       \* the round it runs
  given,      \* the key "now" of its spec, or None
  deadline,   \* the deadline its requests share, or None
  loaded,     \* the books it was started with
  data,       \* the common-data status
  published,  \* when the tape was published, or None once the agents are launched
  sealed,     \* sealed[r]: the outcome and the orders of r, or None
  decided,    \* when the last of them was sealed, until the round is archived
  eligible,   \* the symbols with an eligible fill bar
  fetched,    \* when the fill bars were fetched, until the round is archived
  todo,       \* replicas whose file is still to be written
  closes,     \* the closing prices the vendor gave: the symbols that have one
  \* what outlives it
  archive,    \* archive[k]: the books of the committed round k, or None
  live,       \* live[r]: the authoritative book of r, None before the first
  status,     \* .close/<date>/status.json
  marks,      \* marks[r]: .close/<date>/<r>/events.jsonl
  halfCopied, \* whether the last copy of books was cut short
  halfMarked  \* whether the marks of the last close were cut short

world == <<entries, vendor, adapter>>
order == <<name, given, deadline, loaded>>
sealing == <<sealed, decided>>
memory == <<phase, order, data, published, sealing, eligible, fetched, todo, closes>>
disk == <<archive, live, status, marks, halfCopied, halfMarked>>
vars == <<now, world, commands, memory, disk>>

Scheduled == RoundsForDay(entries, Today)

Start     == Scheduled[name].start
Reference == Scheduled[name].reference

Instant == Readings[entries]

\* How long run_process may go on after the deadline and still return: it waits
\* for the killed tree, for its exit status and for each of the two collectors.
TerminationWait == 10
Reaping == 4 * TerminationWait

Bound == MaxCommands[<<vendor, adapter>>]

StartingBook == [held |-> {}, command |-> 0]

Init ==
  /\ entries \in Calendars
  /\ now \in {t \in Instant : \A u \in Instant : t <= u}
  /\ \E setting \in Settings : vendor = setting[1] /\ adapter = setting[2]
  /\ commands = 0
  /\ phase = "idle" /\ name = "morning" /\ given = None /\ deadline = None
  /\ loaded = [r \in Replica |-> StartingBook]
  /\ data = Available
  /\ sealed = [r \in Replica |-> None]
  /\ published = None /\ decided = None
  /\ eligible = {} /\ fetched = None /\ todo = {} /\ closes = {}
  /\ archive = [k \in RoundKind |-> None]
  /\ live = [r \in Replica |-> None]
  /\ status = None
  /\ marks = [r \in Replica |-> None]
  /\ halfCopied = FALSE /\ halfMarked = FALSE

\* The command returns, raises or is killed.
Forget ==
  /\ phase' = "idle" /\ name' = "morning" /\ given' = None /\ deadline' = None
  /\ loaded' = [r \in Replica |-> StartingBook]
  /\ data' = Available
  /\ sealed' = [r \in Replica |-> None]
  /\ published' = None /\ decided' = None
  /\ eligible' = {} /\ fetched' = None /\ todo' = {} /\ closes' = {}

-----------------------------------------------------------------------------
(* The vendors *)

\* bars_at_reference: the symbols with an eligible bar at a minute, or None
\* when the vendor raises.  The recorded vendor has no clock, and leaves out the
\* rows it does not have, which makes ineligible bars; the HTTP vendor has a bar
\* once its minute is over, raises for one symbol without rows, and its rows are
\* all eligible.  Both may fail altogether.
BarsAtReference(minute) ==
  {None} \cup
    CASE vendor = "fixture"    -> SUBSET Symbol
      [] vendor = "aggregates" -> IF Over(minute, now) THEN {Symbol} ELSE {}

\* official_closes: the symbols of the universe with a close.  A file of recorded
\* closes may lack any; the HTTP vendor has none before the session ends and
\* raises when one is missing.
OfficialCloses ==
  {None} \cup
    CASE vendor = "fixture" -> SUBSET Symbol
      [] vendor = "aggregates" ->
           IF ScheduledClose(entries, Today) = None \/ now < ScheduledClose(entries, Today)
           THEN {} ELSE {Symbol}

-----------------------------------------------------------------------------
(* run-round, live *)

\* Defective variant, to see that a property notices: every round starts from
\* the books of the season's start.
StartRound_FirstBooks(k, waiting, fixed, due) ==
  /\ phase = "idle"
  /\ commands < Bound
  /\ k \in DOMAIN Scheduled
  /\ commands' = commands + 1
  /\ phase' = IF waiting THEN "wait" ELSE "fetch"
  /\ name' = k
  /\ given' = IF fixed THEN Scheduled[k].start ELSE None
  /\ deadline' = due
  /\ loaded' = [r \in Replica |-> StartingBook]
  /\ UNCHANGED <<now, world, data, published, sealing, eligible, fetched, todo, closes,
                 disk>>

\* A round the calendar does not schedule is refused.  The spec may fix the
\* time the snapshot is looked at, and its requests name their own deadline: all
\* the same, but compared with the calendar by nobody.
StartRound(k, waiting, fixed, due) ==
  /\ phase = "idle"
  /\ commands < Bound
  /\ k \in DOMAIN Scheduled
  /\ commands' = commands + 1
  /\ phase' = IF waiting THEN "wait" ELSE "fetch"
  /\ name' = k
  /\ given' = IF fixed THEN Scheduled[k].start ELSE None
  /\ deadline' = due
  /\ loaded' = [r \in Replica |-> IF live[r] = None THEN StartingBook ELSE live[r]]
  /\ UNCHANGED <<now, world, data, published, sealing, eligible, fetched, todo, closes,
                 disk>>

SnapshotNow == IF given = None THEN now ELSE given

StartMinute == LastCompleteMinute(Start)

\* Defective variant: the wait is over at one reading of the clock only.
FetchSnapshot_OnTheDot(bars, history) ==
  /\ phase = "fetch" \/ (phase = "wait" /\ now = Start)
  /\ bars \in BarsAtReference(StartMinute)
  /\ data' = IF bars \notin {None, {}} /\ Fresh(SnapshotNow, StartMinute) /\ history
             THEN Available ELSE Unavailable
  /\ phase' = "preflight"
  /\ UNCHANGED <<now, world, commands, order, published, sealing, eligible, fetched,
                 todo, closes, disk>>

\* wait_until, then the bars of the last minute before the start, which must
\* be fresh, and the history, which must be there.
FetchSnapshot(bars, history) ==
  /\ phase = "fetch" \/ (phase = "wait" /\ now >= Start)
  /\ bars \in BarsAtReference(StartMinute)
  /\ data' = IF bars \notin {None, {}} /\ Fresh(SnapshotNow, StartMinute) /\ history
             THEN Available ELSE Unavailable
  /\ phase' = "preflight"
  /\ UNCHANGED <<now, world, commands, order, published, sealing, eligible, fetched,
                 todo, closes, disk>>

\* The probes of a client are processes with the deadline of the requests; the
\* fake adapter answers from its script.
Preflight(ready) ==
  /\ phase = "preflight"
  /\ ready /\ adapter = "subscription" => now <= deadline + Reaping
  /\ IF ready /\ data = Available
     THEN /\ phase' = "publish"
          /\ UNCHANGED <<order, data, published, sealing, eligible, fetched, todo, closes>>
     ELSE Forget
  /\ UNCHANGED <<now, world, commands, disk>>

\* Defective variant: the age of the snapshot is not looked at again.
PublishTape_Once ==
  /\ phase = "publish"
  /\ published' = now
  /\ phase' = "launch"
  /\ UNCHANGED <<now, world, commands, order, data, sealing, eligible, fetched, todo,
                 closes, disk>>

\* publish_round looks at the age of the snapshot once more.
PublishTape ==
  /\ phase = "publish"
  /\ IF Fresh(SnapshotNow, StartMinute)
     THEN /\ published' = now
          /\ phase' = "launch"
          /\ UNCHANGED <<order, data, sealing, eligible, fetched, todo, closes>>
     ELSE Forget
  /\ UNCHANGED <<now, world, commands, disk>>

\* No process is started after its deadline: the runner raises, and with it the
\* barrier.  The fake adapter starts none.
Launch ==
  /\ phase = "launch"
  /\ IF adapter = "fake" \/ now < deadline
     THEN /\ phase' = "barrier"
          /\ published' = None
          /\ UNCHANGED <<order, data, sealing, eligible, fetched, todo, closes>>
     ELSE Forget
  /\ UNCHANGED <<now, world, commands, disk>>

\* An agent finishes early or is killed at the deadline; the fake adapter says
\* when it likes what its script says.
Seal(r, outcome, orders) ==
  /\ phase = "barrier"
  /\ sealed[r] = None
  /\ outcome = "timeout" /\ adapter = "subscription" => now >= deadline
  /\ orders # {} => outcome = "completed"
  /\ sealed' = [sealed EXCEPT ![r] = [outcome |-> outcome, orders |-> orders]]
  /\ decided' = now
  /\ UNCHANGED <<now, world, commands, phase, order, data, published, eligible, fetched,
                 todo, closes, disk>>

\* Defective variant: the barrier is over with the first agent.
FetchFillBars_FirstDone(bars) ==
  /\ phase = "barrier"
  /\ \E r \in Replica : sealed[r] # None
  /\ bars \in BarsAtReference(Reference)
  /\ eligible' = IF bars = None THEN {} ELSE bars
  /\ data' = IF bars \in {None, {}} THEN Unavailable ELSE data
  /\ fetched' = now
  /\ phase' = "evaluate"
  /\ UNCHANGED <<now, world, commands, order, published, sealing, todo, closes, disk>>

\* The barrier has closed, and the bars of the reference minute are asked for
\* at once.
FetchFillBars(bars) ==
  /\ phase = "barrier"
  /\ \A r \in Replica : sealed[r] # None
  /\ bars \in BarsAtReference(Reference)
  /\ eligible' = IF bars = None THEN {} ELSE bars
  /\ data' = IF bars \in {None, {}} THEN Unavailable ELSE data
  /\ fetched' = now
  /\ phase' = "evaluate"
  /\ UNCHANGED <<now, world, commands, order, published, sealing, todo, closes, disk>>

Outcomes == [r \in Replica |-> sealed[r].outcome]

\* A symbol without an eligible bar rejects its order and no other.
Candidate(r) ==
  LET filled == IF sealed[r].outcome = "completed" THEN sealed[r].orders \cap eligible ELSE {}
      old == loaded[r].held
  IN [held |-> (old \ filled) \cup (filled \ old), command |-> commands]

\* The disposition lets the candidates be evaluated and published ...
Publishable == RoundTreatment(Outcomes, data) = "evaluate"

\* ... and no committed tree of the round is there already.
Uncommitted == archive[name] = None

NotCommitted ==
  /\ phase = "evaluate"
  /\ ~(Publishable /\ Uncommitted)
  /\ Forget
  /\ UNCHANGED <<now, world, commands, disk>>

Commit ==
  /\ phase = "evaluate"
  /\ Publishable /\ Uncommitted
  /\ archive' = [archive EXCEPT ![name] = [r \in Replica |-> Candidate(r)]]
  /\ phase' = "copy"
  /\ todo' = Replica
  /\ decided' = None /\ fetched' = None
  /\ UNCHANGED <<now, world, commands, order, data, published, sealed, eligible,
                 closes, live, status, marks, halfCopied, halfMarked>>

CopyBook(r) ==
  /\ phase = "copy"
  /\ r \in todo
  /\ live' = [live EXCEPT ![r] = archive[name][r]]
  /\ todo' = todo \ {r}
  /\ UNCHANGED <<now, world, commands, phase, order, data, published, sealing, eligible,
                 fetched, closes, archive, status, marks, halfCopied, halfMarked>>

Return ==
  /\ phase \in {"copy", "marks"}
  /\ todo = {}
  /\ Forget
  /\ halfCopied' = (halfCopied /\ phase # "copy")
  /\ UNCHANGED <<now, world, commands, archive, live, status, marks, halfMarked>>

-----------------------------------------------------------------------------
(* close *)

\* Every listed replica must have a published portfolio.
StartClose(replicas) ==
  /\ phase = "idle"
  /\ commands < Bound
  /\ \A r \in replicas : live[r] # None
  /\ commands' = commands + 1
  /\ phase' = "close"
  /\ todo' = replicas
  /\ loaded' = [r \in Replica |-> IF r \in replicas THEN live[r] ELSE StartingBook]
  /\ UNCHANGED <<now, world, name, given, deadline, data, published, sealing, eligible, fetched,
                 closes, disk>>

Priced(prices) == \A r \in todo : loaded[r].held \subseteq prices

\* Defective variant: a position without a close is left out of the sum.
WriteStatus_Guesses(prices) ==
  /\ phase = "close"
  /\ prices \in OfficialCloses
  /\ IF prices # None
     THEN /\ status' = [status |-> "marked", replicas |-> todo, command |-> commands]
          /\ closes' = prices
          /\ phase' = "marks"
          /\ UNCHANGED <<order, data, published, sealing, eligible, fetched, todo>>
     ELSE /\ status' = [status |-> "deferred", replicas |-> {}, command |-> commands]
          /\ Forget
  /\ halfMarked' = FALSE
  /\ UNCHANGED <<now, world, commands, archive, live, marks, halfCopied>>

\* The marks are computed, and deferred when a price is missing, before any
\* file is written: first the status, then the marks.
WriteStatus(prices) ==
  /\ phase = "close"
  /\ prices \in OfficialCloses
  /\ IF prices # None /\ Priced(prices)
     THEN /\ status' = [status |-> "marked", replicas |-> todo, command |-> commands]
          /\ closes' = prices
          /\ phase' = "marks"
          /\ UNCHANGED <<order, data, published, sealing, eligible, fetched, todo>>
     ELSE /\ status' = [status |-> "deferred", replicas |-> {}, command |-> commands]
          /\ Forget
  /\ halfMarked' = FALSE
  /\ UNCHANGED <<now, world, commands, archive, live, marks, halfCopied>>

WriteMark(r) ==
  /\ phase = "marks"
  /\ r \in todo
  /\ marks' = [marks EXCEPT ![r] = [book |-> loaded[r], prices |-> closes, command |-> commands]]
  /\ todo' = todo \ {r}
  /\ UNCHANGED <<now, world, commands, phase, order, data, published, sealing, eligible,
                 fetched, closes, archive, live, status, halfCopied, halfMarked>>

-----------------------------------------------------------------------------

\* The command is killed, or an exception nobody expects ends it.
Stop ==
  /\ phase # "idle"
  /\ halfCopied' = (halfCopied \/ (phase = "copy" /\ todo # {}))
  /\ halfMarked' = (halfMarked \/ (phase = "marks" /\ todo # {}))
  /\ Forget
  /\ UNCHANGED <<now, world, commands, archive, live, status, marks>>

\* Time passes; no run of a client goes on long after the deadline.
Tick ==
  /\ \E t \in Instant :
       /\ t > now
       /\ \A u \in Instant : u > now => t <= u
       /\ phase = "barrier" /\ adapter = "subscription" /\ (\E r \in Replica : sealed[r] = None)
            => t <= deadline + Reaping
       /\ now' = t
  /\ UNCHANGED <<world, commands, memory, disk>>

RunRound ==
  \/ \E bars \in {None} \cup SUBSET Symbol, history \in BOOLEAN : FetchSnapshot(bars, history)
  \/ \E ready \in BOOLEAN : Preflight(ready)
  \/ PublishTape
  \/ Launch
  \/ \E r \in Replica, outcome \in Outcome, orders \in SUBSET Symbol :
       Seal(r, outcome, orders)
  \/ \E bars \in {None} \cup SUBSET Symbol : FetchFillBars(bars)
  \/ NotCommitted
  \/ Commit
  \/ \E r \in Replica : CopyBook(r)

Close ==
  \/ \E prices \in {None} \cup SUBSET Symbol : WriteStatus(prices)
  \/ \E r \in Replica : WriteMark(r)

Step == RunRound \/ Close \/ Return

Next ==
  \/ \E k \in RoundKind, waiting, fixed \in BOOLEAN, due \in Deadlines[entries] :
       StartRound(k, waiting, fixed, due)
  \/ \E replicas \in (SUBSET Replica) \ {{}} : StartClose(replicas)
  \/ Step
  \/ Stop
  \/ Tick

Spec == Init /\ [][Next]_vars

\* The threads of a command run and the clock goes on.
FairSpec == Spec /\ WF_vars(Step) /\ WF_vars(Tick)

-----------------------------------------------------------------------------
(* Properties *)

TypeOK ==
  /\ entries \in Calendars /\ now \in Instant
  /\ <<vendor, adapter>> \in Settings
  /\ commands \in 0..Bound
  /\ phase \in {"idle", "wait", "fetch", "preflight", "publish", "launch", "barrier", "evaluate",
                "copy", "close", "marks"}
  /\ phase \notin {"idle", "close", "marks"} => name \in DOMAIN Scheduled
  /\ given \in {None} \cup Int /\ deadline \in {None} \cup Deadlines[entries]
  /\ data \in DataStatus
  /\ eligible \subseteq Symbol /\ closes \subseteq Symbol /\ todo \subseteq Replica
  /\ {published, decided, fetched} \subseteq {None} \cup Instant
  /\ phase \in {"evaluate", "copy"} => \A r \in Replica : sealed[r] # None
  /\ phase = "evaluate" => decided # None /\ fetched # None
  /\ \A r \in Replica :
       /\ sealed[r] # None => sealed[r].outcome \in Outcome
       /\ \A b \in {loaded[r], live[r]} \ {None} :
            b.held \subseteq Symbol /\ b.command \in 0..commands
       /\ marks[r] # None => marks[r].command \in 1..commands
  /\ status # None => status.replicas \subseteq Replica /\ status.command \in 1..commands
  /\ {halfCopied, halfMarked} \subseteq BOOLEAN

\* PROTOCOL.md: "the first complete, eligible one-minute market bar after the
\* common decision deadline".  When a round is archived, every decision was
\* sealed before the minute began whose bar priced its fills.
FillsAfterDecisions ==
  [][\A k \in RoundKind : archive'[k] # archive[k] => decided < Scheduled[k].reference]_vars

\* It is so when the agents were processes and their requests named no later
\* deadline than the calendar: whoever is killed at the deadline is reaped, and
\* his result sealed, before the minute begins that prices the round.
PunctualFills ==
  [][\A k \in RoundKind :
       /\ archive'[k] # archive[k]
       /\ adapter = "subscription" /\ deadline <= Scheduled[k].deadline
       => decided < Scheduled[k].reference]_vars

\* In whichever order the rounds of a day are run and rerun, each is archived on
\* the books of the one archived before it, or on those of the start when there
\* is none, unless the copy of these was cut short.  Nothing keeps the order of
\* the calendar but time, and that only for processes whose requests name no
\* later deadline than the calendar, on a vendor that has no bar in advance: then
\* the morning is not archived after the late round.
RoundsInOrder ==
  [][\A k, other \in RoundKind : archive'[k] # archive[k] /\ other # k =>
       /\ ~halfCopied =>
            loaded = IF archive[other] = None THEN [r \in Replica |-> StartingBook]
                                              ELSE archive[other]
       /\ k = "morning" /\ adapter = "subscription" /\ vendor = "aggregates"
            /\ deadline <= Scheduled[k].deadline => archive["late"] = None]_vars

\* Unless the spec fixes the time, the agents see the last minute before the
\* start, and see it within a minute: preflight of the field, however long it
\* takes, does not make them trade on an old snapshot.  (Recorded bars can be had
\* before their minute.)
SnapshotFresh ==
  published # None /\ given = None =>
    /\ vendor = "aggregates" => Over(StartMinute, published)
    /\ Fresh(published, StartMinute)

\* What the status of a close says can be relied on, unless that very close was
\* killed before it had written its marks, whatever other closes, of these
\* replicas or of others, were killed before it: every replica it lists has
\* marks, of that close and no other, at prices the vendor gave for all it
\* holds, of the book that is authoritative until a later round.  The marked
\* books are of one round unless the copy of the books was cut short.
CloseIsOne ==
  phase = "idle" /\ ~halfMarked /\ status # None =>
    \A r, q \in status.replicas :
      /\ marks[r] # None
      /\ marks[r].command = status.command
      /\ marks[r].book.held \subseteq marks[r].prices
      /\ live[r].command < status.command => marks[r].book = live[r]
      /\ ~halfCopied /\ live[r].command < status.command =>
           marks[r].book.command = marks[q].book.command

\* Every command ends: the wait for the start of a round is a wait for the
\* clock alone, and the agents end at the deadline.
CommandsEnd == phase # "idle" ~> phase = "idle"

\* PROTOCOL.md: "Common reference-minute data unrecoverable: void every batch".
\* A round whose field is done is not voided for its fill bars while their
\* minute is still to come.
VoidOnlyWhenOver ==
  phase = "evaluate" /\ data = Unavailable => Over(Reference, fetched)
=============================================================================
