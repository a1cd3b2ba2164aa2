-------------------------- MODULE TradingDayProofs --------------------------
(***************************************************************************)
(* Proofs about TradingDay, for every calendar, clock, field, universe and *)
(* number of commands.                                                     *)
(***************************************************************************)
EXTENDS TradingDay, TLAPS

-----------------------------------------------------------------------------
(* The inductive invariant *)

RunPhase == {"wait", "fetch", "preflight", "publish", "launch", "barrier", "evaluate", "copy"}
Phase    == RunPhase \cup {"idle", "close", "marks"}

Sealed == [outcome : Outcome, orders : SUBSET Symbol]

\* The command, the clock and what the command holds in memory.
CommandTyped ==
  /\ entries \in Calendars /\ now \in Instant /\ <<vendor, adapter>> \in Settings
  /\ commands \in 0..Bound
  /\ phase \in Phase
  /\ name \in RoundKind
  /\ phase \in RunPhase => name \in DOMAIN Scheduled
  /\ given \in {None} \cup Int
  /\ deadline \in {None} \cup Deadlines[entries]
  /\ phase \in RunPhase => deadline # None
  /\ data \in DataStatus
  /\ published \in {None} \cup Instant
  /\ decided \in {None} \cup Instant
  /\ fetched \in {None} \cup Instant
  /\ eligible \subseteq Symbol /\ closes \subseteq Symbol /\ todo \subseteq Replica
  /\ sealed \in [Replica -> Sealed \cup {None}]
  /\ loaded \in [Replica -> Book]

\* What outlives the command.
DiskTyped ==
  /\ archive \in [RoundKind -> [Replica -> Book] \cup {None}]
  /\ live \in [Replica -> Book \cup {None}]
  /\ status \in Status \cup {None}
  /\ marks \in [Replica -> Mark \cup {None}]
  /\ halfCopied \in BOOLEAN /\ halfMarked \in BOOLEAN

\* No file names a command that has not been given.
Numbered ==
  /\ \A r \in Replica :
       /\ loaded[r].command <= commands
       /\ live[r] # None => live[r].command <= commands
       /\ marks[r] # None => marks[r].command \in 1..commands
  /\ status # None => status.command \in 1..commands
  /\ phase \in RunPhase /\ status # None => status.command < commands
  /\ phase # "idle" => commands > 0

\* A snapshot that is used was over when it was looked at, unless it was
\* recorded, and the clock does not go back.
SnapshotOver ==
  /\ phase = "preflight" /\ data = Available /\ vendor = "aggregates" => Over(StartMinute, now)
  /\ phase = "publish" /\ vendor = "aggregates" => Over(StartMinute, now)
  /\ published # None => phase = "launch"

\* Processes are sealed soon after their deadline.
SealedInTime ==
  /\ phase = "barrier" /\ adapter = "subscription" /\ (\E r \in Replica : sealed[r] = None) =>
       now <= deadline + Reaping
  /\ phase \notin {"barrier", "evaluate", "copy"} => \A r \in Replica : sealed[r] = None
  /\ phase \notin {"barrier", "evaluate"} => decided = None
  /\ decided # None /\ adapter = "subscription" => decided <= deadline + Reaping
  /\ phase \in {"barrier", "evaluate"} /\ (\E r \in Replica : sealed[r] # None) => decided # None
  /\ phase \in {"evaluate", "copy"} => \A r \in Replica : sealed[r] # None
  /\ phase = "evaluate" => fetched # None
  /\ phase = "evaluate" /\ data = Available /\ vendor = "aggregates" => Over(Reference, fetched)

\* While a round runs the authoritative books are those it was started with,
\* until it copies its own.
LoadedIsLive ==
  phase \in RunPhase \ {"copy"} =>
    \A r \in Replica : loaded[r] = IF live[r] = None THEN StartingBook ELSE live[r]

\* Unless a copy was cut short, the authoritative books are of one round: those
\* of the only archived round, or none while there is none.
LiveOfOneRound ==
  /\ phase = "copy" =>
       /\ archive[name] # None
       /\ \A r \in Replica : archive[name][r].command = commands
       /\ \A r \in Replica \ todo : live[r] = archive[name][r]
  /\ phase # "copy" /\ ~halfCopied =>
       /\ \A r, q \in Replica :
            live[r] # None => live[q] # None /\ live[r].command = live[q].command
       /\ \A k, other \in RoundKind :
            k # other /\ archive[k] = None =>
              live = IF archive[other] = None THEN [r \in Replica |-> None] ELSE archive[other]

\* A close marks the books that were authoritative when it was given, one
\* replica after the other.
ClosingLive ==
  /\ phase = "close" =>
       \A r \in todo : live[r] # None /\ loaded[r] = live[r] /\ live[r].command < commands
  /\ phase = "marks" =>
       /\ status # None /\ status.command = commands /\ todo \subseteq status.replicas
       /\ \A r \in status.replicas :
            /\ live[r] # None /\ loaded[r] = live[r] /\ live[r].command < commands
            /\ loaded[r].held \subseteq closes
       /\ \A r \in status.replicas \ todo :
            marks[r] = [book |-> loaded[r], prices |-> closes, command |-> commands]

\* The marks of the last close are whole, but while they are written.
MarksWhole ==
  phase # "marks" /\ ~halfMarked /\ status # None =>
    \A r, q \in status.replicas :
      /\ marks[r] # None
      /\ marks[r].command = status.command
      /\ marks[r].book.held \subseteq marks[r].prices
      /\ live[r] # None
      /\ live[r].command < status.command => marks[r].book = live[r]
      /\ phase # "copy" /\ ~halfCopied /\ live[r].command < status.command =>
           marks[r].book.command = marks[q].book.command

IInv ==
  /\ CommandTyped
  /\ DiskTyped
  /\ Numbered
  /\ SnapshotOver
  /\ SnapshotFresh
  /\ SealedInTime
  /\ LoadedIsLive
  /\ LiveOfOneRound
  /\ ClosingLive
  /\ MarksWhole

-----------------------------------------------------------------------------
(* Facts about the calendar *)

LEMMA CloseTime ==
  ASSUME entries \in Calendars, ScheduledClose(entries, Today) # None
  PROVE  ScheduledClose(entries, Today) \in Nat
<1> DEFINE close == ScheduledClose(entries, Today)
<1>1. PICK i \in DOMAIN entries : close = entries[i].close
  BY DEF ScheduledClose
<1>2. close \in {At(h, m) : h \in 0..23, m \in 0..59}
  BY <1>1, DayAssumption DEF IsCalendar
<1> QED  BY <1>2 DEF At, Minute

\* The rounds of a session last fifteen minutes and are filled a minute after.
LEMMA RoundTimes ==
  ASSUME entries \in Calendars, NEW k \in DOMAIN Scheduled
  PROVE  /\ k \in RoundKind
         /\ Scheduled[k].start \in Int
         /\ Scheduled[k].deadline = Scheduled[k].start + 900
         /\ Scheduled[k].reference = Scheduled[k].start + 960
<1> DEFINE close == ScheduledClose(entries, Today)
<1>1. close # None => close \in Nat
  BY CloseTime
<1>2. /\ DOMAIN Scheduled = IF close = None THEN {} ELSE {"morning", "late"}
      /\ Scheduled[k] = IF k = "morning" THEN MorningRound ELSE LateRound(close)
  BY DEF Scheduled, RoundsForDay
<1>3. MorningRound.start \in Int /\ LateRound(close).start \in Int
  BY <1>1, <1>2 DEF MorningRound, LateRound, Window, At, Minute
<1>4. ASSUME NEW t \in Int
      PROVE  Window(t).start = t /\ Window(t).deadline = t + 900 /\ Window(t).reference = t + 960
  BY DEF Window, Minute
<1> HIDE DEF close
<1> QED  BY <1>1, <1>2, <1>3, <1>4 DEF MorningRound, LateRound, RoundKind, At, Minute

LEMMA InstantNat ==
  ASSUME entries \in Calendars
  PROVE  Instant \subseteq Nat
BY DayAssumption DEF Instant

LEMMA SameRounds ==
  ASSUME UNCHANGED world
  PROVE  Scheduled' = Scheduled /\ Instant' = Instant /\ Bound' = Bound
BY DEF world, Scheduled, Instant, Bound

\* The constants the world was chosen from.
LEMMA WorldTyped ==
  ASSUME CommandTyped
  PROVE  /\ vendor \in {"fixture", "aggregates"} /\ adapter \in {"subscription", "fake"}
         /\ Bound \in Nat /\ commands \in Nat
         /\ Deadlines[entries] \subseteq Nat
         /\ deadline # None => deadline \in Nat
<1>1. <<vendor, adapter>> \in {"fixture", "aggregates"} \X {"subscription", "fake"}
  BY DayAssumption DEF CommandTyped
<1>2. Bound \in Nat
  BY DayAssumption DEF CommandTyped, Bound
<1>3. Deadlines[entries] \subseteq Nat
  BY DayAssumption DEF CommandTyped
<1> QED  BY <1>1, <1>2, <1>3 DEF CommandTyped

-----------------------------------------------------------------------------
(* Initial states, and the end of a command *)

LEMMA InitOK == Init => IInv
<1> SUFFICES ASSUME Init PROVE IInv  OBVIOUS
<1> USE DEF Init
<1>1. StartingBook \in Book
  BY DEF StartingBook, Book
<1>2. CommandTyped
  <2>1. PICK setting \in Settings : vendor = setting[1] /\ adapter = setting[2]
    OBVIOUS
  <2>2. setting = <<vendor, adapter>>
    BY <2>1, DayAssumption
  <2>3. Bound \in Nat /\ <<vendor, adapter>> \in Settings
    BY <2>2, DayAssumption DEF Bound
  <2> QED  BY <1>1, <2>3, DayAssumption DEF CommandTyped, RunPhase, Phase, RoundKind, DataStatus
<1>3. DiskTyped
  BY DEF DiskTyped
<1>4. Numbered
  BY DEF Numbered, RunPhase, StartingBook
<1>5. SnapshotOver /\ SnapshotFresh /\ SealedInTime
  BY DEF SnapshotOver, SnapshotFresh, SealedInTime
<1>6. LoadedIsLive /\ LiveOfOneRound /\ ClosingLive /\ MarksWhole
  BY DEF LoadedIsLive, LiveOfOneRound, ClosingLive, MarksWhole, RunPhase, RoundKind
<1> QED  BY <1>2, <1>3, <1>4, <1>5, <1>6 DEF IInv

\* What a command forgets is as it was before the first command.
LEMMA ForgetMemory ==
  ASSUME IInv, Forget, UNCHANGED <<now, world, commands>>
  PROVE  /\ CommandTyped'
         /\ SnapshotOver' /\ SnapshotFresh' /\ SealedInTime'
         /\ LoadedIsLive' /\ ClosingLive'
         /\ \A r \in Replica : loaded'[r].command <= commands
<1> USE DEF Forget
<1>1. StartingBook \in Book /\ StartingBook.command = 0
  BY DEF StartingBook, Book
<1>2. Scheduled' = Scheduled /\ Instant' = Instant /\ Bound' = Bound
  BY SameRounds
<1>3. CommandTyped'
  BY <1>1, <1>2 DEF IInv, CommandTyped, RunPhase, Phase, RoundKind, DataStatus, world
<1>4. SnapshotOver' /\ SnapshotFresh' /\ SealedInTime'
  BY DEF SnapshotOver, SnapshotFresh, SealedInTime
<1>5. LoadedIsLive' /\ ClosingLive'
  BY DEF LoadedIsLive, ClosingLive, RunPhase
<1>6. commands \in Nat
  BY WorldTyped DEF IInv
<1> QED  BY <1>1, <1>3, <1>4, <1>5, <1>6

\* A command that ends between two writes, or having written all, leaves whole
\* what it leaves.
LEMMA ForgetStep ==
  ASSUME IInv, Forget, UNCHANGED <<now, world, commands, archive, live, status, marks, halfMarked>>,
         phase \in {"copy", "marks"} => todo = {},
         halfCopied' = halfCopied \/ (phase = "copy" /\ halfCopied' = FALSE)
  PROVE  IInv'
<1> USE DEF Forget
<1>1. DiskTyped'
  BY DEF IInv, DiskTyped
<1>2. Numbered'
  BY ForgetMemory DEF IInv, Numbered, RunPhase
<1>3. LiveOfOneRound'
  <2>1. CASE phase = "copy"
    <3>1. \A r \in Replica : live[r] = archive[name][r] /\ archive[name][r].command = commands
      BY <2>1 DEF IInv, LiveOfOneRound
    <3>2. archive[name] \in [Replica -> Book]
      BY <2>1 DEF IInv, LiveOfOneRound, DiskTyped, CommandTyped
    <3>3. live = archive[name]
      BY <3>1, <3>2 DEF IInv, DiskTyped
    <3>4. name \in RoundKind /\ archive[name] # None
      BY <2>1 DEF IInv, LiveOfOneRound, CommandTyped
    <3>5. \A r \in Replica : live[r] # None
      BY <3>2, <3>3, DayAssumption
    <3>6. \A k, other \in RoundKind : k # other /\ archive[k] = None => other = name
      BY <3>4 DEF RoundKind
    <3> QED  BY <3>1, <3>3, <3>4, <3>5, <3>6 DEF LiveOfOneRound
  <2>2. CASE phase # "copy"
    BY <2>2 DEF IInv, LiveOfOneRound
  <2> QED  BY <2>1, <2>2
<1>4. MarksWhole'
  <2>1. CASE phase = "marks"
    <3> SUFFICES ASSUME NEW r \in status.replicas, NEW q \in status.replicas
                 PROVE  /\ marks[r] # None
                        /\ marks[r].command = status.command
                        /\ marks[r].book.held \subseteq marks[r].prices
                        /\ live[r] # None
                        /\ live[r].command < status.command => marks[r].book = live[r]
                        /\ ~halfCopied' => marks[r].book.command = marks[q].book.command
      BY DEF MarksWhole
    <3>1. r \in Replica /\ q \in Replica
      BY <2>1 DEF IInv, ClosingLive, DiskTyped, Status
    <3>2. /\ marks[r] = [book |-> loaded[r], prices |-> closes, command |-> commands]
          /\ marks[q] = [book |-> loaded[q], prices |-> closes, command |-> commands]
          /\ loaded[r].held \subseteq closes /\ status.command = commands
          /\ loaded[r] = live[r] /\ loaded[q] = live[q] /\ live[r] # None
      BY <2>1 DEF IInv, ClosingLive
    <3>3. ~halfCopied' => live[r].command = live[q].command
      BY <2>1, <3>1, <3>2 DEF IInv, LiveOfOneRound
    <3>4. marks[r] # None
      BY <3>1, <3>2, DayAssumption DEF IInv, CommandTyped, DiskTyped, Mark
    <3> QED  BY <3>2, <3>3, <3>4
  <2>2. CASE phase = "copy"
    <3>1. status # None => status.replicas \subseteq Replica /\ status.command < commands
      BY <2>2 DEF IInv, DiskTyped, Status, Numbered, RunPhase
    <3>2. \A r \in Replica : live[r] = archive[name][r] /\ archive[name][r].command = commands
      BY <2>2 DEF IInv, LiveOfOneRound
    <3>3. status # None => status.command \in Nat /\ commands \in Nat
      BY WorldTyped DEF IInv, DiskTyped, Status
    <3>4. status # None => \A r \in status.replicas : ~(live[r].command < status.command)
      BY <3>1, <3>2, <3>3
    <3> QED  BY <2>2, <3>4 DEF IInv, MarksWhole
  <2>3. CASE phase \notin {"marks", "copy"}
    BY <2>3 DEF IInv, MarksWhole
  <2> QED  BY <2>1, <2>2, <2>3
<1> QED  BY <1>1, <1>2, <1>3, <1>4, ForgetMemory DEF IInv

-----------------------------------------------------------------------------
(* A live round *)

\* The steps between the start of a round and its commit touch no file.
LEMMA NoFile ==
  ASSUME IInv, UNCHANGED <<disk, commands, loaded>>,
         phase \in RunPhase \ {"copy"}, phase' \in RunPhase \ {"copy"}
  PROVE  /\ DiskTyped' /\ Numbered' /\ LoadedIsLive'
         /\ LiveOfOneRound' /\ ClosingLive' /\ MarksWhole'
<1> USE DEF disk, RunPhase
<1>1. DiskTyped' /\ Numbered'
  BY DEF IInv, DiskTyped, Numbered
<1>2. LoadedIsLive' /\ LiveOfOneRound'
  BY DEF IInv, LoadedIsLive, LiveOfOneRound
<1>3. ClosingLive' /\ MarksWhole'
  BY DEF IInv, ClosingLive, MarksWhole
<1> QED  BY <1>1, <1>2, <1>3

LEMMA StartRoundStep ==
  ASSUME IInv, NEW k \in RoundKind, NEW waiting \in BOOLEAN, NEW fixed \in BOOLEAN,
         NEW due \in Deadlines[entries], StartRound(k, waiting, fixed, due)
  PROVE  IInv'
<1> USE DEF StartRound, RunPhase
<1>1. Scheduled' = Scheduled /\ Instant' = Instant /\ Bound' = Bound
  BY SameRounds
<1>2. StartingBook \in Book /\ StartingBook.command = 0
  BY DEF StartingBook, Book
<1>3. commands \in Nat /\ commands' = commands + 1 /\ commands' \in 0..Bound
  BY WorldTyped DEF IInv, CommandTyped
<1>4. Scheduled[k].start \in Int /\ due \in Nat /\ due # None
  BY RoundTimes, WorldTyped, DayAssumption DEF IInv, CommandTyped
<1>5. loaded' \in [Replica -> Book]
  BY <1>2 DEF IInv, DiskTyped
<1>6. CommandTyped'
  BY <1>1, <1>3, <1>4, <1>5
     DEF IInv, CommandTyped, Phase, world, sealing
<1>7. DiskTyped'
  BY DEF IInv, DiskTyped, disk
<1>8. Numbered'
  <2>1. \A r \in Replica : live[r] # None => live[r].command \in Nat
    BY DEF IInv, DiskTyped, Book
  <2> QED  BY <1>2, <1>3, <2>1 DEF IInv, Numbered, disk
<1>9. SnapshotOver' /\ SnapshotFresh' /\ SealedInTime'
  BY DEF IInv, SnapshotOver, SnapshotFresh, SealedInTime, sealing
<1>10. LoadedIsLive' /\ LiveOfOneRound'
  BY DEF IInv, LoadedIsLive, LiveOfOneRound, disk
<1>11. ClosingLive' /\ MarksWhole'
  BY DEF IInv, ClosingLive, MarksWhole, disk
<1> QED  BY <1>6, <1>7, <1>8, <1>9, <1>10, <1>11 DEF IInv

\* The HTTP vendor gives a bar after its minute.
LEMMA BarsAreOver ==
  ASSUME NEW minute, NEW bars \in BarsAtReference(minute), bars # None,
         vendor = "aggregates"
  PROVE  Over(minute, now)
BY DEF BarsAtReference

LEMMA FetchSnapshotStep ==
  ASSUME IInv, NEW bars \in {None} \cup SUBSET Symbol, NEW history \in BOOLEAN,
         FetchSnapshot(bars, history)
  PROVE  IInv'
<1> USE DEF FetchSnapshot
<1>1. Scheduled' = Scheduled /\ Instant' = Instant /\ Bound' = Bound /\ StartMinute' = StartMinute
  BY SameRounds DEF world, order, StartMinute, Start
<1>2. phase \in {"wait", "fetch"}
  OBVIOUS
<1>3. CommandTyped'
  BY <1>1, <1>2 DEF IInv, CommandTyped, Phase, RunPhase, DataStatus, world, order, sealing
<1>4. SnapshotOver' /\ SnapshotFresh'
  <2>1. data' = Available /\ vendor = "aggregates" => Over(StartMinute, now)
    BY BarsAreOver DEF Available, Unavailable
  <2>2. published' = None
    BY <1>2 DEF IInv, SnapshotOver
  <2> QED  BY <1>1, <2>1, <2>2 DEF SnapshotOver, SnapshotFresh, Over, world
<1>5. SealedInTime'
  BY <1>2 DEF IInv, SealedInTime, sealing
<1> QED  BY <1>2, <1>3, <1>4, <1>5, NoFile DEF IInv, RunPhase, order

LEMMA PreflightStep ==
  ASSUME IInv, NEW ready \in BOOLEAN, Preflight(ready)
  PROVE  IInv'
<1> USE DEF Preflight
<1>1. CASE ready /\ data = Available
  <2>1. /\ phase' = "publish"
        /\ UNCHANGED <<now, world, commands, disk, order, data, published, sealing, eligible,
                       fetched, todo, closes>>
    BY <1>1
  <2>2. Scheduled' = Scheduled /\ Instant' = Instant /\ Bound' = Bound /\ StartMinute' = StartMinute
    BY <2>1, SameRounds DEF world, order, StartMinute, Start
  <2>3. CommandTyped'
    BY <2>1, <2>2 DEF IInv, CommandTyped, Phase, RunPhase, world, order, sealing
  <2>4. SnapshotOver' /\ SnapshotFresh'
    BY <1>1, <2>1, <2>2 DEF IInv, SnapshotOver, SnapshotFresh, Over, order, world
  <2>5. SealedInTime'
    BY <2>1 DEF IInv, SealedInTime, sealing
  <2> QED  BY <2>1, <2>3, <2>4, <2>5, NoFile DEF IInv, RunPhase, order
<1>2. CASE ~(ready /\ data = Available)
  BY <1>2, ForgetStep DEF disk
<1> QED  BY <1>1, <1>2

LEMMA PublishTapeStep ==
  ASSUME IInv, PublishTape
  PROVE  IInv'
<1> USE DEF PublishTape
<1>1. CASE Fresh(SnapshotNow, StartMinute)
  <2>1. /\ phase' = "launch" /\ published' = now
        /\ UNCHANGED <<now, world, commands, disk, order, data, sealing, eligible, fetched,
                       todo, closes>>
    BY <1>1
  <2>2. Scheduled' = Scheduled /\ Instant' = Instant /\ Bound' = Bound /\ StartMinute' = StartMinute
    BY <2>1, SameRounds DEF world, order, StartMinute, Start
  <2>3. CommandTyped'
    BY <2>1, <2>2 DEF IInv, CommandTyped, Phase, RunPhase, world, order, sealing
  <2>4. SnapshotOver' /\ SnapshotFresh'
    BY <1>1, <2>1, <2>2
       DEF IInv, SnapshotOver, SnapshotFresh, Over, Fresh, SnapshotNow, order, world
  <2>5. SealedInTime'
    BY <2>1 DEF IInv, SealedInTime, sealing
  <2> QED  BY <2>1, <2>3, <2>4, <2>5, NoFile DEF IInv, RunPhase, order
<1>2. CASE ~Fresh(SnapshotNow, StartMinute)
  BY <1>2, ForgetStep DEF disk
<1> QED  BY <1>1, <1>2

LEMMA LaunchStep ==
  ASSUME IInv, Launch
  PROVE  IInv'
<1> USE DEF Launch
<1>1. CASE adapter = "fake" \/ now < deadline
  <2>1. /\ phase' = "barrier" /\ published' = None
        /\ UNCHANGED <<now, world, commands, disk, order, data, sealing, eligible,
                       fetched, todo, closes>>
    BY <1>1
  <2>2. /\ Scheduled' = Scheduled /\ Instant' = Instant /\ Bound' = Bound
        /\ StartMinute' = StartMinute
    BY <2>1, SameRounds DEF world, order, StartMinute, Start
  <2>3. CommandTyped'
    BY <2>1, <2>2 DEF IInv, CommandTyped, Phase, RunPhase, world, order, sealing
  <2>4. SnapshotOver' /\ SnapshotFresh'
    BY <2>1 DEF SnapshotOver, SnapshotFresh
  <2>5. adapter = "subscription" => now <= deadline + Reaping
    <3>1. now \in Nat /\ deadline \in Nat
      BY WorldTyped, InstantNat DEF IInv, CommandTyped, RunPhase
    <3> QED  BY <1>1, <3>1 DEF Reaping, TerminationWait
  <2>6. SealedInTime'
    BY <2>1, <2>5 DEF IInv, SealedInTime, sealing, order, world
  <2> QED  BY <2>1, <2>3, <2>4, <2>6, NoFile DEF IInv, RunPhase, order
<1>2. CASE ~(adapter = "fake" \/ now < deadline)
  BY <1>2, ForgetStep DEF disk
<1> QED  BY <1>1, <1>2
LEMMA SealStep ==
  ASSUME IInv, NEW r \in Replica, NEW outcome \in Outcome, NEW decision \in SUBSET Symbol,
         Seal(r, outcome, decision)
  PROVE  IInv'
<1> USE DEF Seal
<1>1. /\ Scheduled' = Scheduled /\ Instant' = Instant /\ Bound' = Bound
      /\ StartMinute' = StartMinute
  BY SameRounds DEF world, order, StartMinute, Start
<1>2. [outcome |-> outcome, orders |-> decision] \in Sealed
  BY DEF Sealed
<1>3. CommandTyped'
  BY <1>1, <1>2 DEF IInv, CommandTyped, world, order
<1>4. SnapshotOver' /\ SnapshotFresh'
  BY <1>1 DEF IInv, SnapshotOver, SnapshotFresh, Over, Fresh, order, world
<1>5. SealedInTime'
  <2>1. adapter = "subscription" => now <= deadline + Reaping
    BY DEF IInv, SealedInTime
  <2>2. decided' = now /\ now # None
    BY InstantNat, DayAssumption DEF IInv, CommandTyped
  <2> QED  BY <2>1, <2>2 DEF IInv, SealedInTime, order, world
<1> QED  BY <1>3, <1>4, <1>5, NoFile DEF IInv, RunPhase, order

LEMMA FetchFillBarsStep ==
  ASSUME IInv, NEW bars \in {None} \cup SUBSET Symbol, FetchFillBars(bars)
  PROVE  IInv'
<1> USE DEF FetchFillBars
<1>1. /\ Scheduled' = Scheduled /\ Instant' = Instant /\ Bound' = Bound
      /\ StartMinute' = StartMinute /\ Reference' = Reference
  BY SameRounds DEF world, order, StartMinute, Start, Reference
<1>2. CommandTyped'
  BY <1>1 DEF IInv, CommandTyped, Phase, RunPhase, DataStatus, world, order, sealing
<1>3. SnapshotOver' /\ SnapshotFresh'
  BY <1>1 DEF IInv, SnapshotOver, SnapshotFresh, Over, Fresh, order, world
<1>4. SealedInTime'
  <2>1. data' = Available /\ vendor = "aggregates" => Over(Reference, now)
    BY BarsAreOver DEF Available, Unavailable
  <2>2. fetched' = now /\ now # None
    BY InstantNat, DayAssumption DEF IInv, CommandTyped
  <2> QED  BY <1>1, <2>1, <2>2 DEF IInv, SealedInTime, sealing, Over, order, world
<1> QED  BY <1>2, <1>3, <1>4, NoFile DEF IInv, RunPhase, order

LEMMA NotCommittedStep ==
  ASSUME IInv, NotCommitted
  PROVE  IInv'
BY ForgetStep DEF NotCommitted, disk

\* The candidate of a replica is a book of the command.
LEMMA CandidateIsBook ==
  ASSUME IInv, NEW r \in Replica, sealed[r] # None
  PROVE  Candidate(r) \in Book /\ Candidate(r).command = commands
<1>1. loaded[r] \in Book /\ sealed[r] \in Sealed /\ commands \in Nat
  BY WorldTyped DEF IInv, CommandTyped
<1> QED  BY <1>1 DEF Candidate, Book, Sealed

LEMMA CommitStep ==
  ASSUME IInv, Commit
  PROVE  IInv'
<1> USE DEF Commit
<1>1. /\ Scheduled' = Scheduled /\ Instant' = Instant /\ Bound' = Bound
      /\ StartMinute' = StartMinute
  BY SameRounds DEF world, order, StartMinute, Start
<1>2. \A r \in Replica : Candidate(r) \in Book /\ Candidate(r).command = commands
  BY CandidateIsBook DEF IInv, SealedInTime
<1> DEFINE candidates == [r \in Replica |-> Candidate(r)]
<1>3. candidates \in [Replica -> Book] /\ candidates # None
  BY <1>2, DayAssumption
<1>4. /\ name \in RoundKind /\ archive' = [archive EXCEPT ![name] = candidates]
      /\ archive'[name] = candidates
  BY DEF IInv, CommandTyped, DiskTyped
<1> HIDE DEF candidates
<1>5. CommandTyped'
  BY <1>1 DEF IInv, CommandTyped, Phase, RunPhase, world, order, sealing
<1>6. DiskTyped'
  BY <1>3, <1>4 DEF IInv, DiskTyped
<1>7. Numbered'
  BY DEF IInv, Numbered, RunPhase, order
<1>8. SnapshotOver' /\ SnapshotFresh'
  BY <1>1 DEF IInv, SnapshotOver, SnapshotFresh, Over, Fresh, order, world
<1>9. SealedInTime'
  BY DEF IInv, SealedInTime
<1>10. LoadedIsLive' /\ ClosingLive'
  BY DEF LoadedIsLive, ClosingLive
<1>11. LiveOfOneRound'
  BY <1>2, <1>3, <1>4 DEF LiveOfOneRound, candidates, order
<1>12. MarksWhole'
  BY DEF IInv, MarksWhole
<1> QED  BY <1>5, <1>6, <1>7, <1>8, <1>9, <1>10, <1>11, <1>12 DEF IInv

LEMMA CopyBookStep ==
  ASSUME IInv, NEW r \in Replica, CopyBook(r)
  PROVE  IInv'
<1> USE DEF CopyBook
<1>1. /\ Scheduled' = Scheduled /\ Instant' = Instant /\ Bound' = Bound
      /\ StartMinute' = StartMinute
  BY SameRounds DEF world, order, StartMinute, Start
<1>2. /\ archive[name] \in [Replica -> Book]
      /\ archive[name][r] \in Book /\ archive[name][r].command = commands
  BY DEF IInv, LiveOfOneRound, DiskTyped, CommandTyped
<1>3. /\ live' = [live EXCEPT ![r] = archive[name][r]]
      /\ \A q \in Replica : live'[q] = IF q = r THEN archive[name][r] ELSE live[q]
  BY DEF IInv, DiskTyped
<1>4. CommandTyped'
  BY <1>1 DEF IInv, CommandTyped, world, order, sealing
<1>5. DiskTyped'
  BY <1>2, <1>3 DEF IInv, DiskTyped
<1>6. commands \in Nat
  BY WorldTyped DEF IInv
<1>7. Numbered'
  BY <1>2, <1>3, <1>6 DEF IInv, Numbered, RunPhase, order
<1>8. SnapshotOver' /\ SnapshotFresh'
  BY <1>1 DEF IInv, SnapshotOver, SnapshotFresh, Over, Fresh, order, world
<1>9. SealedInTime'
  BY <1>1 DEF IInv, SealedInTime, sealing
<1>10. LoadedIsLive' /\ ClosingLive'
  BY DEF LoadedIsLive, ClosingLive
<1>11. LiveOfOneRound'
  BY <1>3 DEF IInv, LiveOfOneRound, order
<1>12. MarksWhole'
  <2>1. archive[name][r] # None
    BY <1>2, DayAssumption
  <2>2. status # None => status.command < commands /\ status.command \in Int
    BY DEF IInv, Numbered, RunPhase
  <2>3. status # None => ~(archive[name][r].command < status.command)
    BY <1>2, <1>6, <2>2
  <2> QED  BY <1>3, <2>1, <2>3 DEF IInv, MarksWhole
<1> QED  BY <1>4, <1>5, <1>7, <1>8, <1>9, <1>10, <1>11, <1>12 DEF IInv

LEMMA ReturnStep ==
  ASSUME IInv, Return
  PROVE  IInv'
<1>1. halfCopied' = halfCopied \/ (phase = "copy" /\ halfCopied' = FALSE)
  BY DEF Return, IInv, DiskTyped
<1> QED  BY <1>1, ForgetStep DEF Return

-----------------------------------------------------------------------------
(* The official close, the end of a command and the clock *)

LEMMA StartCloseStep ==
  ASSUME IInv, NEW replicas \in SUBSET Replica, StartClose(replicas)
  PROVE  IInv'
<1> USE DEF StartClose, sealing
<1>1. Scheduled' = Scheduled /\ Instant' = Instant /\ Bound' = Bound
  BY SameRounds
<1>2. StartingBook \in Book /\ StartingBook.command = 0
  BY DEF StartingBook, Book
<1>3. commands \in Nat /\ commands' = commands + 1 /\ commands' \in 0..Bound
  BY WorldTyped DEF IInv, CommandTyped
<1>4. \A r \in Replica : live[r] # None => live[r] \in Book /\ live[r].command \in Nat
  BY DEF IInv, DiskTyped, Book
<1>5. loaded' \in [Replica -> Book]
  BY <1>2, <1>4
<1>6. CommandTyped'
  BY <1>1, <1>3, <1>5 DEF IInv, CommandTyped, Phase, RunPhase, world
<1>7. DiskTyped'
  BY DEF IInv, DiskTyped, disk
<1>8. Numbered'
  BY <1>2, <1>3, <1>4 DEF IInv, Numbered, RunPhase, disk
<1>9. SnapshotOver' /\ SnapshotFresh'
  <2>1. published' = None
    BY DEF IInv, SnapshotOver
  <2> QED  BY <2>1 DEF SnapshotOver, SnapshotFresh
<1>10. SealedInTime'
  BY DEF IInv, SealedInTime
<1>11. LoadedIsLive' /\ LiveOfOneRound'
  BY DEF IInv, LoadedIsLive, LiveOfOneRound, RunPhase, disk
<1>12. ClosingLive'
  BY <1>3, <1>4 DEF IInv, Numbered, ClosingLive, disk
<1>13. MarksWhole'
  BY DEF IInv, MarksWhole, disk
<1> QED  BY <1>6, <1>7, <1>8, <1>9, <1>10, <1>11, <1>12, <1>13 DEF IInv

LEMMA WriteStatusStep ==
  ASSUME IInv, NEW prices \in {None} \cup SUBSET Symbol, WriteStatus(prices)
  PROVE  IInv'
<1> USE DEF WriteStatus
<1>1. commands \in Nat /\ commands \in 1..commands
  BY WorldTyped DEF IInv, CommandTyped, Numbered
<1>2. CASE prices # None /\ Priced(prices)
  <2>1. /\ status' = [status |-> "marked", replicas |-> todo, command |-> commands]
        /\ closes' = prices /\ prices \subseteq Symbol
        /\ phase' = "marks" /\ halfMarked' = FALSE
        /\ UNCHANGED <<order, data, published, sealing, eligible, fetched, todo,
                       now, world, commands, archive, live, marks, halfCopied>>
    BY <1>2
  <2>2. Scheduled' = Scheduled /\ Instant' = Instant /\ Bound' = Bound
    BY <2>1, SameRounds DEF world
  <2>3. CommandTyped'
    BY <2>1, <2>2 DEF IInv, CommandTyped, Phase, RunPhase, world, order, sealing
  <2>4. DiskTyped' /\ Numbered' /\ status' # None
    <3>1. status' \in Status
      BY <1>1, <2>1 DEF IInv, CommandTyped, Status
    <3>2. status' # None
      BY <3>1, DayAssumption
    <3> QED  BY <1>1, <2>1, <3>1, <3>2 DEF IInv, DiskTyped, Numbered, RunPhase, order
  <2>5. SnapshotOver' /\ SnapshotFresh' /\ SealedInTime' /\ LoadedIsLive' /\ MarksWhole'
    BY <2>1 DEF IInv, SnapshotOver, SnapshotFresh, SealedInTime, LoadedIsLive, MarksWhole,
                RunPhase, sealing
  <2>6. LiveOfOneRound'
    BY <2>1 DEF IInv, LiveOfOneRound
  <2>7. ClosingLive'
    BY <1>2, <2>1, <2>4 DEF IInv, ClosingLive, Priced, order
  <2> QED  BY <2>3, <2>4, <2>5, <2>6, <2>7 DEF IInv
<1>3. CASE ~(prices # None /\ Priced(prices))
  <2>1. /\ status' = [status |-> "deferred", replicas |-> {}, command |-> commands]
        /\ Forget /\ halfMarked' = FALSE
        /\ UNCHANGED <<now, world, commands, archive, live, marks, halfCopied>>
    BY <1>3
  <2>2. DiskTyped' /\ Numbered'
    <3>1. status' \in Status
      BY <1>1, <2>1 DEF Status
    <3> QED  BY <1>1, <2>1, <3>1, ForgetMemory DEF IInv, DiskTyped, Numbered, RunPhase, Forget
  <2>3. LiveOfOneRound' /\ MarksWhole'
    BY <2>1 DEF IInv, LiveOfOneRound, MarksWhole, Forget
  <2> QED  BY <2>1, <2>2, <2>3, ForgetMemory DEF IInv
<1> QED  BY <1>2, <1>3

LEMMA WriteMarkStep ==
  ASSUME IInv, NEW r \in Replica, WriteMark(r)
  PROVE  IInv'
<1> USE DEF WriteMark
<1>1. Scheduled' = Scheduled /\ Instant' = Instant /\ Bound' = Bound
  BY SameRounds
<1> DEFINE mark == [book |-> loaded[r], prices |-> closes, command |-> commands]
<1>2. commands \in Nat /\ commands \in 1..commands
  BY WorldTyped DEF IInv, CommandTyped, Numbered
<1>3. mark \in Mark /\ mark # None /\ mark.command = commands
  BY <1>2, DayAssumption DEF IInv, CommandTyped, Mark
<1>4. \A q \in Replica : marks'[q] = IF q = r THEN mark ELSE marks[q]
  BY DEF IInv, DiskTyped
<1>5. marks' \in [Replica -> Mark \cup {None}]
  BY <1>3 DEF IInv, DiskTyped
<1>6. CommandTyped'
  BY <1>1 DEF IInv, CommandTyped, world, order, sealing
<1>7. DiskTyped'
  BY <1>5 DEF IInv, DiskTyped
<1>8. Numbered'
  BY <1>2, <1>3, <1>4 DEF IInv, Numbered, RunPhase, order
<1>9. SnapshotOver' /\ SnapshotFresh' /\ SealedInTime' /\ LoadedIsLive' /\ MarksWhole'
  BY DEF IInv, SnapshotOver, SnapshotFresh, SealedInTime, LoadedIsLive, MarksWhole,
         RunPhase, sealing
<1>10. LiveOfOneRound'
  BY DEF IInv, LiveOfOneRound
<1>11. ClosingLive'
  <2>1. status # None => status.replicas \subseteq Replica
    BY DEF IInv, DiskTyped, Status
  <2> QED  BY <1>4, <2>1 DEF IInv, ClosingLive, order
<1> QED  BY <1>6, <1>7, <1>8, <1>9, <1>10, <1>11 DEF IInv

LEMMA StopStep ==
  ASSUME IInv, Stop
  PROVE  IInv'
<1> USE DEF Stop
<1> USE DEF Forget
<1>1. halfCopied' \in BOOLEAN /\ halfMarked' \in BOOLEAN
  BY DEF IInv, DiskTyped
<1>2. DiskTyped' /\ Numbered'
  BY <1>1, ForgetMemory DEF IInv, DiskTyped, Numbered, RunPhase
<1>3. CASE phase = "copy" /\ todo # {}
  <2>1. halfCopied' /\ halfMarked' = halfMarked
    BY <1>3 DEF IInv, DiskTyped
  <2>2. LiveOfOneRound' /\ MarksWhole'
    BY <1>3, <2>1 DEF IInv, LiveOfOneRound, MarksWhole
  <2> QED  BY <1>2, <2>2, ForgetMemory DEF IInv
<1>4. CASE phase = "marks" /\ todo # {}
  <2>1. halfMarked' /\ halfCopied' = halfCopied
    BY <1>4 DEF IInv, DiskTyped
  <2>2. LiveOfOneRound' /\ MarksWhole'
    BY <1>4, <2>1 DEF IInv, LiveOfOneRound, MarksWhole
  <2> QED  BY <1>2, <2>2, ForgetMemory DEF IInv
<1>5. CASE ~(phase \in {"copy", "marks"} /\ todo # {})
  <2>1. halfCopied' = halfCopied /\ halfMarked' = halfMarked
    BY <1>5 DEF IInv, DiskTyped
  <2> QED  BY <1>5, <2>1, ForgetStep
<1> QED  BY <1>3, <1>4, <1>5

LEMMA TickStep ==
  ASSUME IInv, Tick
  PROVE  IInv'
<1>1. PICK t \in Instant :
        /\ t > now /\ now' = t
        /\ phase = "barrier" /\ adapter = "subscription" /\ (\E r \in Replica : sealed[r] = None)
             => t <= deadline + Reaping
  BY DEF Tick
<1>2. UNCHANGED <<world, commands, memory, disk>>
  BY DEF Tick
<1> USE <1>2 DEF world, memory, order, sealing, disk
<1>3. /\ Scheduled' = Scheduled /\ Instant' = Instant /\ Bound' = Bound /\ StartMinute' = StartMinute
      /\ Reference' = Reference
  BY SameRounds DEF StartMinute, Start, Reference
<1>4. CommandTyped' /\ DiskTyped' /\ Numbered'
  BY <1>1, <1>3 DEF IInv, CommandTyped, DiskTyped, Numbered
<1>5. SnapshotOver' /\ SnapshotFresh'
  <2>1. now \in Nat /\ t \in Nat
    BY InstantNat DEF IInv, CommandTyped
  <2>2. phase \in {"preflight", "publish"} => StartMinute \in Int
    BY RoundTimes DEF IInv, CommandTyped, RunPhase, StartMinute, Start, LastCompleteMinute, Minute
  <2> QED  BY <1>1, <1>3, <2>1, <2>2 DEF IInv, SnapshotOver, SnapshotFresh, Over, Fresh, Minute
<1>6. SealedInTime'
  BY <1>1, <1>3 DEF IInv, SealedInTime, Over
<1>7. LoadedIsLive' /\ LiveOfOneRound' /\ ClosingLive' /\ MarksWhole'
  BY DEF IInv, LoadedIsLive, LiveOfOneRound, ClosingLive, MarksWhole
<1> QED  BY <1>4, <1>5, <1>6, <1>7 DEF IInv

-----------------------------------------------------------------------------
(* Theorems *)

\* The inductive invariant holds in every reachable state.
THEOREM Invariance == Spec => []IInv
<1>1. IInv /\ [Next]_vars => IInv'
  <2> SUFFICES ASSUME IInv, [Next]_vars PROVE IInv'  OBVIOUS
  <2>1. ASSUME NEW k \in RoundKind, NEW waiting \in BOOLEAN, NEW fixed \in BOOLEAN,
               NEW due \in Deadlines[entries], StartRound(k, waiting, fixed, due)
        PROVE  IInv'
    BY <2>1, StartRoundStep
  <2>2. ASSUME NEW replicas \in (SUBSET Replica) \ {{}}, StartClose(replicas)
        PROVE  IInv'
    BY <2>2, StartCloseStep
  <2>3. CASE RunRound
    BY <2>3, FetchSnapshotStep, PreflightStep, PublishTapeStep, LaunchStep, SealStep,
       FetchFillBarsStep, NotCommittedStep, CommitStep, CopyBookStep DEF RunRound
  <2>4. CASE Close
    BY <2>4, WriteStatusStep, WriteMarkStep DEF Close
  <2>5. CASE Return \/ Stop \/ Tick
    BY <2>5, ReturnStep, StopStep, TickStep
  <2>6. CASE UNCHANGED vars
    <3> USE <2>6 DEF vars, world, memory, order, sealing, disk
    <3>1. /\ Scheduled' = Scheduled /\ Instant' = Instant /\ Bound' = Bound /\ StartMinute' = StartMinute
          /\ Reference' = Reference
      BY SameRounds DEF StartMinute, Start, Reference
    <3>2. CommandTyped' /\ DiskTyped' /\ Numbered'
      BY <3>1 DEF IInv, CommandTyped, DiskTyped, Numbered
    <3>3. SnapshotOver' /\ SnapshotFresh' /\ SealedInTime'
      BY <3>1 DEF IInv, SnapshotOver, SnapshotFresh, SealedInTime, Over
    <3>4. LoadedIsLive' /\ LiveOfOneRound' /\ ClosingLive' /\ MarksWhole'
      BY DEF IInv, LoadedIsLive, LiveOfOneRound, ClosingLive, MarksWhole
    <3> QED  BY <3>2, <3>3, <3>4 DEF IInv
  <2> QED  BY <2>1, <2>2, <2>3, <2>4, <2>5, <2>6 DEF Next, Step
<1> QED  BY InitOK, <1>1, PTL DEF Spec
\* Every state of a day is well-formed: a command evaluates only when every
\* replica has a sealed result, and no file is ahead of the commands.
THEOREM TypeCorrect == Spec => []TypeOK
<1>1. IInv => TypeOK
  <2> SUFFICES ASSUME IInv PROVE TypeOK  OBVIOUS
  <2> USE DEF IInv, CommandTyped, DiskTyped, Numbered
  <2>1. commands \in Nat
    BY WorldTyped
  <2>2. ASSUME NEW r \in Replica
        PROVE  /\ sealed[r] # None => sealed[r].outcome \in Outcome
               /\ \A b \in {loaded[r], live[r]} \ {None} :
                    b.held \subseteq Symbol /\ b.command \in 0..commands
               /\ marks[r] # None => marks[r].command \in 1..commands
    <3>1. sealed[r] # None => sealed[r].outcome \in Outcome
      BY <2>2 DEF Sealed
    <3>2. loaded[r] \in Book /\ (live[r] # None => live[r] \in Book)
      BY <2>2
    <3>3. ASSUME NEW b \in {loaded[r], live[r]} \ {None}
          PROVE  b \in Book /\ b.command <= commands
      BY <2>2, <3>2, <3>3
    <3> QED  BY <2>1, <2>2, <3>1, <3>3 DEF Book
  <2>3. status # None => status.replicas \subseteq Replica /\ status.command \in 1..commands
    BY DEF Status
  <2>4. /\ phase \in {"evaluate", "copy"} => \A r \in Replica : sealed[r] # None
        /\ phase = "evaluate" => decided # None /\ fetched # None
    BY DayAssumption DEF SealedInTime
  <2> QED  BY <2>2, <2>3, <2>4 DEF TypeOK, Phase, RunPhase
<1> QED  BY Invariance, <1>1, PTL

\* On every clock the agents see the minute before the start of their round, and
\* see it within a minute, unless the spec fixes the time.
THEOREM SnapshotsFresh == Spec => []SnapshotFresh
<1>1. IInv => SnapshotFresh  BY DEF IInv
<1> QED  BY Invariance, <1>1, PTL

\* Whatever rounds and closes are run, rerun, given up or killed, a status that
\* lists marked replicas is followed by whole marks of one round.
THEOREM ClosesWhole == Spec => []CloseIsOne
<1>1. IInv => CloseIsOne
  BY DEF IInv, MarksWhole, CloseIsOne
<1> QED  BY Invariance, <1>1, PTL

-----------------------------------------------------------------------------
(* What a commit relies on *)

LEMMA OnlyCommit ==
  ASSUME [Next]_vars, archive' # archive
  PROVE  Commit
<1> USE DEF disk
<1>1. ASSUME NEW k \in RoundKind, NEW waiting \in BOOLEAN, NEW fixed \in BOOLEAN,
             NEW due, StartRound(k, waiting, fixed, due)
      PROVE  FALSE
  BY <1>1 DEF StartRound
<1>2. ASSUME NEW replicas, StartClose(replicas)  PROVE FALSE
  BY <1>2 DEF StartClose
<1>3. CASE RunRound
  BY <1>3 DEF RunRound, FetchSnapshot, Preflight, PublishTape, Launch, Seal, FetchFillBars,
              NotCommitted, CopyBook
<1>4. ~Close
  BY DEF Close, WriteStatus, WriteMark
<1>5. ~Return /\ ~Stop /\ ~Tick /\ ~UNCHANGED vars
  BY DEF Return, Stop, Tick, vars
<1> QED  BY <1>1, <1>2, <1>3, <1>4, <1>5 DEF Next, Step

\* A round is committed on bars that were there, after all its decisions.
LEMMA CommitFacts ==
  ASSUME IInv, Commit
  PROVE  /\ name \in DOMAIN Scheduled /\ name \in RoundKind
         /\ archive[name] = None
         /\ \A k \in RoundKind \ {name} : archive'[k] = archive[k]
         /\ decided \in Nat /\ deadline \in Nat
         /\ adapter = "subscription" => decided <= deadline + Reaping
         /\ fetched \in Nat
         /\ vendor = "aggregates" => Over(Reference, fetched)
<1>1. name \in DOMAIN Scheduled /\ name \in RoundKind /\ archive[name] = None
  BY DEF IInv, CommandTyped, RunPhase, Commit, Uncommitted
<1>2. \A k \in RoundKind \ {name} : archive'[k] = archive[k]
  BY DEF IInv, DiskTyped, Commit
<1>3. data = Available
  BY DEF Commit, Publishable, RoundTreatment, IInv, CommandTyped, DataStatus
<1>4. PICK r \in Replica : sealed[r] # None
  BY DayAssumption DEF IInv, SealedInTime, Commit
<1>5. decided # None /\ (adapter = "subscription" => decided <= deadline + Reaping)
  BY <1>4 DEF IInv, SealedInTime, Commit
<1>6. fetched # None /\ (vendor = "aggregates" => Over(Reference, fetched))
  BY <1>3 DEF IInv, SealedInTime, Commit
<1>7. deadline \in Nat
  BY WorldTyped DEF IInv, CommandTyped, RunPhase, Commit
<1> QED  BY <1>1, <1>2, <1>5, <1>6, <1>7, InstantNat DEF IInv, CommandTyped

\* For every calendar, clock and deadline the requests name, up to that of the
\* calendar: an archived round was decided before the minute began whose bar
\* prices its fills, because a killed client is reaped in less than the minute
\* between the two.
THEOREM FillsArePunctual == Spec => PunctualFills
<1>1. ASSUME IInv, [Next]_vars, NEW k \in RoundKind, archive'[k] # archive[k],
             adapter = "subscription", deadline <= Scheduled[k].deadline
      PROVE  decided < Scheduled[k].reference
  <2>1. Commit
    BY <1>1, OnlyCommit
  <2>2. k = name /\ k \in DOMAIN Scheduled
    BY <1>1, <2>1, CommitFacts
  <2>3. decided \in Nat /\ deadline \in Nat /\ decided <= deadline + 40
    BY <1>1, <2>1, CommitFacts DEF Reaping, TerminationWait
  <2>4. /\ Scheduled[k].deadline \in Int
        /\ Scheduled[k].reference = Scheduled[k].deadline + 60
    BY <1>1, <2>2, RoundTimes DEF IInv, CommandTyped
  <2> QED  BY <1>1, <2>3, <2>4
<1>2. IInv /\ [Next]_vars =>
        [\A k \in RoundKind :
           /\ archive'[k] # archive[k]
           /\ adapter = "subscription" /\ deadline <= Scheduled[k].deadline
           => decided < Scheduled[k].reference]_vars
  BY <1>1
<1> QED  BY Invariance, <1>2, PTL DEF Spec, PunctualFills

-----------------------------------------------------------------------------
(* The order of the rounds *)

\* A session is long enough for its late round to be filled after the deadline
\* of the morning.  calendar.py does not ask for it; the sessions of an
\* exchange, closed at 13:00 at the earliest, all are.
LateFollowsMorning ==
  \A c \in Calendars :
    ScheduledClose(c, Today) # None => ScheduledClose(c, Today) >= At(10, 28)

\* Clients whose requests name no later deadline than the calendar, on a vendor
\* with a clock.
Punctual ==
  adapter = "subscription" /\ vendor = "aggregates" /\ deadline <= Scheduled[name].deadline

\* Once the late round is archived its fill bars are history, and a punctual
\* morning round that has begun does not find it archived.
LateIsHistory ==
  /\ phase = "evaluate" => fetched <= now
  /\ vendor = "aggregates" /\ archive["late"] # None =>
       "late" \in DOMAIN Scheduled /\ Over(Scheduled["late"].reference, now)
  /\ phase \in {"barrier", "evaluate"} /\ name = "morning" /\ Punctual => archive["late"] = None

LEMMA MorningBeforeLate ==
  ASSUME LateFollowsMorning, entries \in Calendars, "late" \in DOMAIN Scheduled
  PROVE  /\ "morning" \in DOMAIN Scheduled
         /\ Scheduled["morning"].deadline <= Scheduled["late"].reference + Minute
<1> DEFINE close == ScheduledClose(entries, Today)
<1>1. /\ DOMAIN Scheduled = IF close = None THEN {} ELSE {"morning", "late"}
      /\ "morning" \in DOMAIN Scheduled => Scheduled["morning"] = MorningRound
      /\ Scheduled["late"] = LateRound(close)
  BY DEF Scheduled, RoundsForDay
<1>2. close # None
  BY <1>1
<1>3. close \in Int
  BY <1>2, CloseTime
<1>4. close >= 37680
  BY <1>2 DEF LateFollowsMorning, At, Minute
<1> HIDE DEF close
<1>5. Scheduled["late"].start = close - 1800 /\ Scheduled["late"].reference = close - 1800 + 960
  BY <1>1, <1>3 DEF LateRound, Window, Minute
<1>6. MorningRound.deadline = 36900
  BY DEF MorningRound, Window, At, Minute
<1> QED  BY <1>1, <1>2, <1>4, <1>5, <1>6, <1>3 DEF Minute

\* The calendar is frozen and the clock goes on.
LEMMA WorldStays ==
  ASSUME [Next]_vars
  PROVE  UNCHANGED world /\ (now' = now \/ (now' \in Instant /\ now' > now))
<1>1. ASSUME NEW k \in RoundKind, NEW waiting \in BOOLEAN, NEW fixed \in BOOLEAN,
             NEW due, StartRound(k, waiting, fixed, due)
      PROVE  UNCHANGED world /\ now' = now
  BY <1>1 DEF StartRound
<1>2. ASSUME NEW replicas, StartClose(replicas)  PROVE UNCHANGED world /\ now' = now
  BY <1>2 DEF StartClose
<1>3. ASSUME RunRound  PROVE UNCHANGED world /\ now' = now
  BY <1>3 DEF RunRound, FetchSnapshot, Preflight, PublishTape, Launch, Seal, FetchFillBars,
              NotCommitted, Commit, CopyBook
<1>4. ASSUME Close  PROVE UNCHANGED world /\ now' = now
  BY <1>4 DEF Close, WriteStatus, WriteMark
<1>5. ASSUME Return \/ Stop \/ UNCHANGED vars  PROVE UNCHANGED world /\ now' = now
  BY <1>5 DEF Return, Stop, vars
<1>6. ASSUME Tick  PROVE UNCHANGED world /\ now' \in Instant /\ now' > now
  BY <1>6 DEF Tick
<1> QED  BY <1>1, <1>2, <1>3, <1>4, <1>5, <1>6 DEF Next, Step

\* The steps that concern the order of the rounds, and the others.
LEMMA StepKinds ==
  ASSUME [Next]_vars
  PROVE  \/ Commit
         \/ Launch /\ phase' = "barrier"
         \/ \E bars : FetchFillBars(bars)
         \/ /\ archive' = archive
            /\ \/ phase' \notin {"barrier", "evaluate"}
               \/ UNCHANGED <<phase, name, deadline, fetched>>
<1> DEFINE Other == /\ archive' = archive
                    /\ \/ phase' \notin {"barrier", "evaluate"}
                       \/ UNCHANGED <<phase, name, deadline, fetched>>
<1> USE DEF disk, memory, order, Forget
<1>1. ASSUME NEW k \in RoundKind, NEW waiting \in BOOLEAN, NEW fixed \in BOOLEAN,
             NEW due, StartRound(k, waiting, fixed, due)
      PROVE  Other
  BY <1>1 DEF StartRound
<1>2. ASSUME NEW replicas, StartClose(replicas)  PROVE Other
  BY <1>2 DEF StartClose
<1>3. ASSUME RunRound, ~Commit, ~(Launch /\ phase' = "barrier"), ~(\E bars : FetchFillBars(bars))
      PROVE  Other
  <2>1. ASSUME NEW bars, NEW history, FetchSnapshot(bars, history)  PROVE Other
    BY <2>1 DEF FetchSnapshot
  <2>2. ASSUME NEW ready, Preflight(ready)  PROVE Other
    BY <2>2 DEF Preflight
  <2>3. ASSUME PublishTape \/ Launch \/ NotCommitted  PROVE Other
    BY <1>3, <2>3 DEF PublishTape, Launch, NotCommitted
  <2>4. ASSUME NEW r, NEW outcome, NEW decision, Seal(r, outcome, decision)  PROVE Other
    BY <2>4 DEF Seal
  <2>5. ASSUME NEW r, CopyBook(r)  PROVE Other
    BY <2>5 DEF CopyBook
  <2> HIDE DEF Other
  <2> QED  BY <1>3, <2>1, <2>2, <2>3, <2>4, <2>5 DEF RunRound
<1>4. ASSUME Close  PROVE Other
  BY <1>4 DEF Close, WriteStatus, WriteMark
<1>5. ASSUME Return \/ Stop \/ Tick \/ UNCHANGED vars  PROVE Other
  BY <1>5 DEF Return, Stop, Tick, vars
<1> QED  BY <1>1, <1>2, <1>3, <1>4, <1>5 DEF Next, Step

\* Time separates punctual rounds: the late one is archived after the deadline by
\* which the morning must be launched.
LEMMA LateStep ==
  ASSUME LateFollowsMorning, IInv, LateIsHistory, [Next]_vars
  PROVE  LateIsHistory'
<1>1. /\ Scheduled' = Scheduled /\ UNCHANGED <<vendor, adapter>>
      /\ now \in Nat /\ now' \in Nat /\ now' >= now
  <2>1. UNCHANGED world /\ (now' = now \/ (now' \in Instant /\ now' > now))
    BY WorldStays
  <2> QED  BY <2>1, SameRounds, InstantNat DEF IInv, CommandTyped, world
<1>2. ASSUME vendor = "aggregates", archive["late"] # None
      PROVE  Over(Scheduled["late"].reference, now')
  BY <1>1, <1>2, RoundTimes DEF LateIsHistory, Over, IInv, CommandTyped, Minute
<1>3. CASE Commit
  <2>1. /\ phase = "evaluate" /\ UNCHANGED <<now, name>> /\ phase' = "copy"
    BY <1>3 DEF Commit, order
  <2>2. fetched <= now
    BY <2>1 DEF LateIsHistory
  <2>3. vendor = "aggregates" /\ archive'["late"] # None =>
          "late" \in DOMAIN Scheduled /\ Over(Scheduled["late"].reference, now)
    <3>1. CASE vendor = "aggregates" /\ name = "late"
      <4>1. Over(Scheduled["late"].reference, fetched) /\ fetched \in Nat
            /\ "late" \in DOMAIN Scheduled
        BY <1>3, <3>1, CommitFacts DEF Reference
      <4> QED  BY <1>1, <2>2, <4>1, RoundTimes DEF Over, Minute, IInv, CommandTyped
    <3>2. CASE name # "late"
      BY <1>3, <3>2, CommitFacts DEF LateIsHistory, RoundKind
    <3> QED  BY <3>1, <3>2
  <2> QED  BY <1>1, <2>1, <2>3 DEF LateIsHistory
<1>4. CASE Launch /\ phase' = "barrier"
  <2>1. /\ phase = "launch" /\ UNCHANGED <<now, name, deadline, archive>>
        /\ adapter = "subscription" => now < deadline
    BY <1>4 DEF Launch, Forget, order, disk
  <2>2. name = "morning" /\ Punctual => archive["late"] = None
    <3>1. SUFFICES ASSUME name = "morning", Punctual, archive["late"] # None PROVE FALSE
      OBVIOUS
    <3>2. /\ "late" \in DOMAIN Scheduled /\ Over(Scheduled["late"].reference, now)
      BY <3>1 DEF LateIsHistory, Punctual
    <3>3. deadline \in Nat /\ now < deadline /\ deadline <= Scheduled["morning"].deadline
      BY <2>1, <3>1, WorldTyped DEF Punctual, IInv, CommandTyped, RunPhase
    <3>4. Scheduled["morning"].deadline <= Scheduled["late"].reference + Minute
          /\ Scheduled["morning"].deadline \in Int /\ Scheduled["late"].reference \in Int
      BY <3>2, MorningBeforeLate, RoundTimes DEF IInv, CommandTyped
    <3> QED  BY <1>1, <3>2, <3>3, <3>4 DEF Over, Minute
  <2> QED  BY <1>1, <1>4, <2>1, <2>2 DEF LateIsHistory, Punctual
<1>5. CASE \E bars : FetchFillBars(bars)
  <2>1. /\ phase = "barrier" /\ phase' = "evaluate" /\ fetched' = now
        /\ UNCHANGED <<now, name, deadline, archive>>
    BY <1>5 DEF FetchFillBars, order, disk
  <2> QED  BY <1>1, <2>1 DEF LateIsHistory, Punctual
<1>6. CASE /\ archive' = archive
           /\ \/ phase' \notin {"barrier", "evaluate"}
              \/ UNCHANGED <<phase, name, deadline, fetched>>
  <2>1. phase = "evaluate" => fetched \in Nat
    BY InstantNat DEF IInv, CommandTyped, SealedInTime
  <2> QED  BY <1>1, <1>2, <1>6, <2>1 DEF LateIsHistory, Punctual
<1> QED  BY <1>3, <1>4, <1>5, <1>6, StepKinds

\* However often and in whichever order the rounds are given: each is archived on
\* the books of the one before it, unless their copy was cut short; and on every
\* calendar whose late round follows the morning, punctual clients never have the
\* morning archived after the late round.
THEOREM RoundsFollow ==
  ASSUME LateFollowsMorning
  PROVE  Spec => RoundsInOrder
<1>1. Init => LateIsHistory
  BY DEF Init, LateIsHistory, RoundKind
<1>2. IInv /\ LateIsHistory /\ [Next]_vars => LateIsHistory'
  BY LateStep
<1> DEFINE Builds(k, other) ==
             /\ ~halfCopied =>
                  loaded = IF archive[other] = None THEN [r \in Replica |-> StartingBook]
                                                    ELSE archive[other]
             /\ k = "morning" /\ adapter = "subscription" /\ vendor = "aggregates"
                  /\ deadline <= Scheduled[k].deadline => archive["late"] = None
<1>3. ASSUME IInv, LateIsHistory, [Next]_vars, NEW k \in RoundKind, NEW other \in RoundKind,
             archive'[k] # archive[k], other # k
      PROVE  Builds(k, other)
  <2>1. Commit /\ phase = "evaluate"
    BY <1>3, OnlyCommit DEF Commit
  <2>2. k = name /\ archive[k] = None
    BY <1>3, <2>1, CommitFacts
  <2>3. k = "morning" /\ adapter = "subscription" /\ vendor = "aggregates"
          /\ deadline <= Scheduled[k].deadline => archive["late"] = None
    BY <1>3, <2>1, <2>2 DEF LateIsHistory, Punctual
  <2>4. ASSUME ~halfCopied
        PROVE  loaded = IF archive[other] = None THEN [r \in Replica |-> StartingBook]
                                                 ELSE archive[other]
    <3>1. live = IF archive[other] = None THEN [r \in Replica |-> None] ELSE archive[other]
      BY <1>3, <2>1, <2>2, <2>4 DEF IInv, LiveOfOneRound
    <3>2. \A r \in Replica : loaded[r] = IF live[r] = None THEN StartingBook ELSE live[r]
      BY <1>3, <2>1 DEF IInv, LoadedIsLive, RunPhase
    <3>3. loaded \in [Replica -> Book]
      BY <1>3 DEF IInv, CommandTyped
    <3>4. CASE archive[other] = None
      BY <3>1, <3>2, <3>3, <3>4
    <3>5. CASE archive[other] # None
      <4>1. archive[other] \in [Replica -> Book] /\ live = archive[other]
        BY <1>3, <3>1, <3>5 DEF IInv, DiskTyped
      <4>2. \A r \in Replica : live[r] # None
        BY <4>1, DayAssumption
      <4>3. \A r \in Replica : loaded[r] = archive[other][r]
        BY <3>2, <4>1, <4>2
      <4> QED  BY <3>3, <3>5, <4>1, <4>3
    <3> QED  BY <3>4, <3>5
  <2> QED  BY <2>3, <2>4
<1>4. IInv /\ LateIsHistory /\ [Next]_vars =>
        [\A k, other \in RoundKind : archive'[k] # archive[k] /\ other # k =>
           Builds(k, other)]_vars
  <2> HIDE DEF Builds
  <2> QED  BY <1>3
<1> QED  BY Invariance, <1>1, <1>2, <1>4, PTL DEF Spec, RoundsInOrder
=============================================================================
