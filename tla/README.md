# Verification of the Agent Trading Arena

TLA+ specifications of the evaluator of the arena: the program that runs a
decision round for a field of autonomous trading agents, seals what they
decide, settles it against common market data and publishes the resulting books.
Source references are relative to the repository; `orchestrator.py`, `cli.py`,
`disposition.py`, `process.py`, `session.py`, `audit.py` and `adapters/` are in
`src/arena_runtime/`, the rest in `src/arena_kernel/`.

## 1. The system

### Components

| Component | State it keeps | Operations | What makes it correct |
|---|---|---|---|
| Round command (`cli.py: cmd_run_round`) | memory of one invocation: books read at the start, due replicas, results | preflight, tape, barrier, fill bars, disposition, collection, evaluation, publication | stages run in this order; a failure anywhere leaves the authoritative books usable |
| Field preflight (`orchestrator.py: preflight_round`) | `pause` events | ask every due runner; ready or paused | nobody starts unless everybody can |
| Decision barrier (`run_decision_barrier`) | futures and results | one thread per due replica, `wait`, all results or an exception | nothing happens for a part of the field |
| Runner adapters (`adapters/codex.py`, `grok_build.py`, `fake.py`) | audit artifacts, session references | launch, wait, hash the outbox, classify | one outcome per run; the decision sealed is the one in the outbox |
| Process supervisor (`process.py`) | the agent's process group, two collectors | start, wait for the deadline, kill | a run ends at the deadline |
| Sealed collection (`collect_sealed_decisions`) | `staging_root/<round>/<replica>/decision.json` | compare the outbox with the sealed hash, stage | evidence is what was sealed, and is never replaced |
| Disposition (`disposition.py`) | none | outcomes and data status to treatments | a shared failure voids the round for everyone, a private one for nobody else |
| Evaluation (`evaluate_candidates`) | none | staged decision + book to candidate | a book trades only its own replica's decision of this round |
| Paper exchange (`matching.py`, `pricing.py`, `validate.py`) | none | validate orders, sell, buy, round | cash and holdings never go negative |
| Publication (`publish_candidates`) | `.staging/`, `.committed/`, `<replica>/` under `books_root`; commit events | stage, rename, copy | all books of a round together, once |
| Session store (`session.py`) | one record per replica | save, load | one immutable reference per replica, none shared |
| Audit archive (`audit.py`) | `normalized/events.jsonl`, artifacts and their checksums | append, write once | what an event names stays in the archive, unchanged |
| Official close (`cmd_close`, `mark_official_close`) | `.close/<day>/` | mark every book, or defer | what a marked close lists is marked, at official prices, once |
| Calendar and market data (`calendar.py`, `marketdata.py`, `vendors/`) | none | rounds of a day, bars at a minute, freshness | nobody trades on a price of the future or on an old snapshot |
| Baselines (`baselines.py`, `ledger.py`) | none | four strategies on a recorded tape, equity, net liquidation value | the same exchange and the same valuation as for the agents |
| Workspace and tape (`workspace.py`, `marketdata.py: publish_round`) | the agent's directory | rewrite the state files | every agent sees the same snapshot |
| Replay, schemas, operator spec, registration, isolation | none, or the operating system's | pure functions, parsing, permissions | |

The round command calls the others in order and is the only writer of the books.
The agents run concurrently with it and with one another; they share only
`outbox/decision.json` with the evaluator, and processes they leave behind may
still write it after the run has ended. What survives a command is on disk:
outboxes, staged decisions, the staging tree of a publication, the archive, the
books, the audit log. Nothing locks `books_root`, so two operator processes may
publish at once.

### What is hard

* one call is many file operations, and it may stop after any of them: the
  process is killed, or `OSError` propagates and nothing is undone;
* the same round may be run again over whatever the last attempt left;
* state is read early and used late: the books are read before the agents run,
  the outbox is hashed when an agent ends and read again after the barrier;
* agents end by themselves, at the deadline, or not entirely;
* one replica failing must stop all of the field, or none of it, depending on how;
* an agent's output may be cut anywhere, and contain more than one reason to end;
* threads of one command save conversations in one store, and a crash may tear
  any file they write;
* everything is tied to the clock: rounds start, agents end and bars exist at
  given minutes, while commands are given, and finish, at any time.

`PROJECT.json` lists each hazard at its line with the properties that cover it.

## 2. Plan

| Order | Module | Content | State |
|---|---|---|---|
| 1 | `AtomicBooks`, `Publication` | the promise of publication, and its file operations | done, proved |
| 2 | `Disposition`, `ArenaRound` | the round command, composed with the agents and reruns | done, proved |
| 3 | `ProcessSupervisor` | leader, descendants, pipes, collectors, termination waits | done, proved |
| 4 | `PaperExchange`, `BatchOutcome` | parsing and validation, prices, sells before buys, rounding; the settlement of a whole batch | done, proved |
| 5 | `AgentOutput`, `RunnerAdapter` | probes, evidence, conversations, classification, with the session store and the audit archive | done, proved |
| 6 | `TradingCalendar`, `TradingDay` | the two rounds and the close of a session against the clock and the vendor | done, proved |
| 7 | `Baselines` | the reference strategies on the paper exchange, and the valuation of a book | done, proved |
| 8 | the `...Proofs` modules | type correctness and every safety and action property that a passing run checks; what is left to TLC is listed in section 5 | done |

Publication, the adapters, the supervisor and the exchange are each the inside of
one step of `ArenaRound`; `TradingDay` is the outside of the command, with the
calendar and the close around it. `Baselines` composes with `PaperExchange` by
extending it.

## 3. Modules

**`AtomicBooks`** is the abstract specification of publication: an archive in
which a round is absent or holds one book for each replica of a nonempty set, and
`Commit` sets it once and for ever.

**`Publication`** is `publish_candidates` operation by operation. `pc[p]` is where
process `p` stands: `check_staging` and `make_staging` (the `exists()` and the
`mkdir()` of `_stage_candidate_set`), `stage` (the write loop; `written[p]` are
the files done, `IsNextFile` the order of the loops), `rename` (between the
`exists()` and the `replace()` of `_finalize_candidate_publication`), `copy` (the
copy loop). `staging`, `committed` and `live` are the three directory trees, a
file's content being the number of the call it came from, `NoFile` or `Torn` (an
archived tree never holds `Torn`: that is part of `TypeOK`).
`started` and `completed` count the audit events. `Interrupt`, `TearStaged` and
`TearLive` stop a call between two operations or inside a write. The order in
which a loop visits the replicas is left open. An interrupted `copy` is never
resumed, as in the code: a retry finds the round committed and raises.

**`Disposition`** is the table of `disposition.py`.

**`ArenaRound`** is the life of `cmd_run_round`. `phase` is the call it is in:

| phase | code | actions |
|---|---|---|
| `preflight`, `tape` | `preflight_round`, `publish_round` (live rounds only) | `PreflightReady`, `PreflightPauses`, `PublishTape`, `TapeUnavailable` |
| `barrier` | `run_decision_barrier` and the adapters' `run` | `Launch`, `Exit`, `Seal`, `SealRaises` per replica; `CloseBarrier` |
| `fill` | `bars_at_reference` at the reference minute | `FetchFillBars` |
| `collect` | `collect_sealed_decisions`, then `evaluate_candidates` | `CollectOne`, `CollectRaises`, `Evaluate`, `NotCommitted` |
| `publish`, `commit`, `copy` | `publish_candidates` | `StageBooks`, `Commit`, `CopyBook`, `Committed` |

`StartCommand` reads the books (`loaded`); `Forget` is what happens to a
command's memory when it returns, raises or dies. `survivors`, `outbox`,
`staged`, `publishing`, `archive`, `live` and `paused` outlive it. Around the
command, `WriteDecision` is an agent, `SurvivorWrites` a process an agent left
behind, `Stop` and `StopStaging` the end of the command at any point, and
`ClearOutbox` the operator's hand: nothing in the code empties an outbox, and the
adapters refuse one that is not empty.

A decision is a round and a version. A portfolio is the set of decisions traded
in it and a fills file the set of decisions whose executions it lists: this is
what tells a lost, doubled, foreign or unsealed trade apart. The operator's spec
is taken to point at the authoritative books.

What is abstracted: an adapter's reasons to raise (session, executable, preflight
identity, artifacts that exist with other bytes) are one nondeterministic
`raised`; an agent killed at its deadline or not may have any provider failure on
its output, so `OutcomesOf` offers every outcome the classifiers can return for
the way the process ended and for the outbox; publication is
one step per replica in the copy loop, its file granularity being in
`Publication`; the operator issues one command at a time (several processes are
in `Publication`).

**`ProcessSupervisor`** is one call of `run_process` on POSIX. `pc` is where it
stands: `wait` is `process.wait` up to the deadline, `terminate` the test at the
head of `_terminate_process_tree`, `killwait` its wait after the signal, `reap`
the wait of ten seconds that follows a timeout, `stdout` and `stderr` the two
`_BoundedCollector.finish`. The code may call `_terminate_process_tree` three
times (after the deadline, when reaping fails, in the `finally` clause), and
`attempt` says which call it is in. `Interrupt` is an exception that is not
`TimeoutExpired`, as `KeyboardInterrupt` is, on its way through `finally`.

The processes do what they like: `Fork`, `Escape` (`setsid`), `Write`,
`CloseStream`, `Die`. `status`, `holds` and `escaped` are the kernel's view of
them; the supervisor reads the leader's status alone. A signal sent is a status
of its own (`signalled`), since a process dies some time after it. A pipe holds
`PipeSize` bytes; a write to a full pipe blocks. `Drain`, `EndOfStream` and
`ReadFails` are the loop of a collector thread. Bytes are counted: a pipe is a
queue with one reader, so the captured bytes are determined by how many there
are. Timers expire at any moment. The Windows branch is not modelled.

**`PaperExchange`** is `apply_decision` with the validation before it, for one
replica and one decision after the other. `Submit` hands a decision to the
exchange: `Parses` is `parse_decision`, `Accepted` is `validate_decision` (the
cap on orders, the checks of each order, the sort by priority, one order per
symbol), and the book `before` it is remembered. Then each accepted order is one
step, in the order `IsNext` of the code's two loops: `Buy` and `Sell` change cash
and positions, `Reject` is an order logged as rejected, `Raise` an exception out
of `apply_decision`, `Settle` the end. Money is exact, in the units the code
rounds to: cents, thousandths of a share, hundredths of a cent for fill prices
and for cost bases. `RoundHalfEven` is `quantize` with `ROUND_HALF_EVEN`,
`BuyQuantity` the floor of `floor_to_0_001`. Products of the `Decimal` context's
28 digits are exact for every amount this arena can hold, and are exact here. A
reference price so small that the fill price rounds to zero makes the code divide
by zero or refuse the fill event; this is `Raise`. `paid` is a history variable:
the prices paid for the shares now held. The price eligibility of a bar
(`is_price_eligible`, participation) is one value, `NoReference`. Rejection
reasons, the text of rationales and confidence are left out.

**`BatchOutcome`** states what `PaperExchange` computes for a whole batch, without
a loop, from the decision and the book it was given.

**`AgentOutput`** is what the two adapters read in the output of their clients. A
line of output is its type, the classes of the error codes found anywhere in it, its
stop reason (for codex, whether an item was declined or refused) and the session it
names; a line that is no JSON, half a line for one, is `garbled`. `CodexOutcome` and
`GrokOutcome` are the two classifiers, in the order of their returns, and `CodexSession`
and `GrokSession` the conversation an output shows. A codex output with one unreadable line has no events at all; a grok
output is read with an untyped object that names a session or a stop reason as an end.

**`RunnerAdapter`** is `preflight` and `run` of both adapters for a whole field,
under the three commands that use them: `preflight`, a live `run-round`, and a
`run-round` that is handed a preflight result (`kind`). `answers[r]` are the
answers to the probes of `r` so far, each good or off in one respect; `Verdict`
is the reason the code gives for it. `run[r]` is where the thread of `r` stands:

| `run[r]` | code | next |
|---|---|---|
| `none` | the head of `run` | `Launch`, `LaunchRaises` |
| `running` | `run_isolated_process` | `AgentExits` (streams archived, outbox hashed), `AgentLost` |
| `collected` | classification, `_session_store.save` | `Settle` |
| `settled`, `terminated` | `replica_terminated`, the result | `Terminate`, `Report` |
| `done`, `raised` | the future of the thread | `CloseBarrier` |

`files` are the artifacts of the archive, each with its checksum sidecar, `log`
its events, `records` the session store. `MayWrite` is `_write_immutable`,
`MaySave` the loop over all records under the lock. What a client may print is the
constant `Output`, any sequences of lines at all, and any of them may come with any
exit: it is the classifier that decides what counts as an answer. `Leftovers` are
the files a crash leaves of a write: torn, without sidecar, with half of it, or whole but
without the event that would have announced them. `Crash` ends the command at
any point, and may leave torn the artifact, the sidecar or the record it was
writing. Nothing in the code empties an outbox; `Start` may be preceded by the
operator's doing so. Artifacts and records are named by replica and round as in
the code, so that a rerun meets the files of the run before.

**`TradingCalendar`** is `calendar.py` with the minute arithmetic of
`marketdata.py`; an instant is a number of seconds.

**`TradingDay`** is one session. `now` takes the readings of the clock that
matter, and `Tick` moves it to the next; `StartRound` and `StartClose` are
commands given at any of them. A live round waits (`wait_until`), fetches the
snapshot of the minute before its start, probes the field, publishes the tape,
launches, collects, fetches the fill bars of the reference minute, and archives
and copies the books. A book is the set of symbols held and the command it came
from. An order is a symbol, bought when it is not held and sold when it is.
`StartClose`, `WriteStatus`, `WriteMark` are `mark_official_close`. The books are read
from disk by each command; the operator's spec is taken to point at them.

Two times govern a round, from two sources. Its start and its reference minute are the
calendar's (`Start`, `Reference`). Its deadline, by which agents are launched and killed,
is the one its requests name in the operator's spec (`deadline`, chosen by `StartRound`
from `Deadlines`): the code asks that the replicas of a round agree on it and compares
it with nothing else. Nor does anything but the operator's hand order the rounds.
`PunctualFills` and the second half of `RoundsInOrder` therefore have a deadline not
later than the calendar's as their condition, and `FillsAfterDecisions`, which has no
condition, is violated (run `day_deadline`).

`adapter` is the kind of the adapters. A supervised process is launched before its
deadline only, killed at it, and its result sealed at most `Reaping` later: the four
waits of `run_process` that may follow the deadline, of ten seconds each, when the call
still returns. What else happens between the deadline and the seal (archiving two
streams, hashing the outbox) is taken to fit in what `Reaping`, 40 seconds, leaves of
the minute before the reference minute. The fake adapter launches nothing and looks at
no clock. `vendor` is the kind of the vendor. `BarsAtReference` and `OfficialCloses` are
what it may answer at an instant: `FixtureVendor` returns the rows its file has, at any
time; the HTTP one has all symbols or raises, and that it has no bar before its minute is
over and no daily close before the session ends is an assumption about the service, not
about the code. Either may fail. The properties that need processes, or the HTTP
vendor, say so in their conditions.

`halfCopied` and `halfMarked` are history variables: whether the last copy of books, and
whether the marks of the last close, were cut short by the end of the command. The
conditions of `RoundsInOrder` and `CloseIsOne` are those two, so that a close or a round
that follows a killed one is covered: only what the killed one itself left is not.
Marks of replicas that the last status does not list stay on disk, and nothing is
claimed of them.

**`Baselines`** is `run_baselines`: its four strategies run one after the other on
`PaperExchange`, each from the starting portfolio, and are valued by `Equity`
(`mark_to_close`) and `NetLiquidation` (`final_nlv`). A draw of the seeded
generator is any hold or buy it may draw. A bar that is eligible has a price here
(`NoReference` is a bar that is not eligible or none at all), so that a strategy whose
bar is eligible without a usable price, and which the exchange then refuses, is left
out. Closes are counted in hundredths of a cent, the finest tick of an exchange, where
the code takes any decimal.

A variant of a definition with a plausible bug is named after it, as in
`Drain_StopsAtLimit`; each property is known to fail with one of them. In the
first two components they are in the section "Defective variants".

The modules named `...Proofs` hold the theorems of a component, those named
`MC...` the instance that TLC checks. The steps of `ArenaRound` that evaluate a
candidate trade a decision as a whole; what such a trade does to the book is
`PaperExchange`. Its step `Exit` is one complete call of `run_process`.

## 4. What is checked

| Run | Instance | Shows |
|---|---|---|
| `publication` | 2 processes, 2 rounds, 2 replicas, 2 calls | `CommittedWhole`, `LiveIsArchived`, `CompletedOnce`, `ArchiveFinal`, `OrphanNeverPublished`, and `ArchiveIsAtomic` (refinement of `AtomicBooks`) under every crash and race; `SequentialLiveIsLatest`: as long as no two calls overlapped, the audit log tells whether the live books can be trusted |
| `publication_all_or_none` | 1 process, 2 calls | **violated**: `EveryBookOrNone` |
| `round` | 1 replica, 2 rounds, 3 commands, 2 decisions per round | `TradesAreStaged`, `StagedIsSealed`, `LiveGrows` |
| `round_field` | 2 replicas, 1 round, 2 commands, fair | `NothingBeforeTheBarrier`, `CommitsAreClean`, `CommandsEnd` |
| `supervisor` | leader and one descendant, pipes of 1 byte, limits of 1 and 0 bytes, 2 bytes per stream, fair | `CaptureIsComplete`, `KilledGroupGone`, `Returns`, `NoBackPressure` |
| `supervisor_tree` | the same with 1 byte per stream | **violated**: `TreeTerminated` |
| `exchange` | 2 symbols, 6 orders, up to 3 in a decision, 2 rounds | `OutcomeExplained`, `BuysWithinNotional`, `BasisWithinPrices` |
| `adapter` | two codex replicas sharing a store, or one grok replica; 2 rounds, 2 conversations, 2 commands, 1 fault, every output of up to three lines built from the first line of a client, one oddity, the last line or half a line, with any exit | `EvidenceIntact`, `LaunchedOnEvidence`, `ConversationKept`, `ConversationsApart`, `SharedFailureVoids`, `CompletedOnEvidence` |
| `day` | 2 replicas, 1 symbol, an early close between two holidays, the deadlines of both rounds in any spec; 3 commands with the HTTP vendor and subscription adapters, 2 with the fake adapter or the recorded vendor; fair | `SnapshotFresh`, `PunctualFills`, `RoundsInOrder`, `CloseIsOne`, `CommandsEnd` |
| `day_early` | HTTP vendor, subscription adapters, 1 command | **violated**: `VoidOnlyWhenOver` |
| `day_deadline` | the same, fair | **violated**: `FillsAfterDecisions` |
| `baselines` | 3 symbols, tapes of 2 rounds, 3 orders | `BuysAffordable`, `NlvIsLiquidation` |

`TypeOK` of a component is an invariant of its first run (`Baselines` relies on that
of `PaperExchange`). `overlapped` in
`MCPublication` is a history variable: whether two calls were ever under way
together.

### Bounds

`MaxCalls`, `MaxCommands` and `MaxRound` bound counters that the code does not;
they appear in the guards of `Begin` and `StartCommand` and in the set `Round`.
Two calls for one round are enough for every race on its directories, and two
rounds for one to overwrite or outlive the other; a third call lets a round
interrupted in its copy be followed by a retry and by a later round. In
`ArenaRound` replicas meet only in the barrier, the disposition and the
candidate set, so two of them and one round show what concerns the field;
what concerns reruns and staleness is per replica, so one replica, two rounds and
three commands show a round interrupted, another committed, and the first rerun.
Two versions let an agent, or what it left running, change its decision after it
was sealed. In `ProcessSupervisor`, `MaxWritten` bounds what the tree may write to a stream;
two bytes exceed the limits, one of them zero, and the capacity of a pipe, so that truncation
and a blocked writer occur, and one descendant can do all that a descendant does:
outlive the leader, escape, hold a stream. `PaperExchange` bounds the orders of a
decision by `MaxLength`, one more than `MaxOrders` so that the cap is met, and the
rounds by `MaxDecisions`: the second finds positions to add to and to sell. The
amounts make two buys compete for a cash that covers one; a reference of 0.00005
dollars gives a buying price of 0.0001 and a selling price of zero. They are small
because TLC's integers have 32 bits.

In `RunnerAdapter`, `MaxCommands` lets a round be rerun, or followed by another,
after whatever the first command left; `MaxFaults` counts bad answers, bad runs
and crashes together, and one of them is enough to tear a file, lose a
conversation or void a round, with everything after it going well. Two replicas
that may be shown the same conversation are what the store is for. In
`TradingDay`, three commands are both rounds and a close, a round and two closes, or a
round three times; the scripted adapter and the recorded vendor, which constrain less,
get two. The readings of the clock are the instants around which a comparison in the
code changes its outcome: before the first round, and of each its start, its deadline,
the end of the reaping, the end of its reference minute; and the close. A request may
name the deadline of either round. Two outcomes stand for an agent that is done by
itself and one that is killed; a void round comes from the common data. One symbol
is enough, since symbols meet only in "some bar" and "every position", and
two replicas because a vendor or a crash may treat them differently. In
`Baselines` the prices of the bars are one that rounds to nothing, one of 0.40001 dollars
and one of 1.4999, against a cash of fifty;
any symbol may lack a bar in either round, and one may lack a close.

The safety and action properties checked are all proved without these bounds;
the liveness properties are not. Deadlock is not checked:
with every call, command or decision used up and nobody running, the system stops.

### Fairness

`CommandsEnd` of `ArenaRound` assumes weak fairness of `Step`, the steps a command takes by
itself: its threads are scheduled, and the deadline ends every agent
(`process.wait(timeout=...)` followed by `killpg`), so `Exit` does not depend on
the agent. No fairness is assumed for agents, survivors, the operator, or for
stopping. `Returns` and `NoBackPressure` assume weak fairness of `Supervise`, whose
waits all have a time limit, and of each collector thread, which reads as soon as
there is something to read or the end of the stream; the supervised processes are
assumed nothing at all, not even to die of a signal. `CommandsEnd` of `TradingDay`
assumes weak fairness of `Step`, the steps of the command given, and of `Tick`: the
clock goes on. Commands are given, and killed, or not.

### Disagreements found

* `EveryBookOrNone`: the docstring of `publish_candidates` promises "Publish every
  candidate together, or change no authoritative book". The archive keeps that
  promise (`ArchiveIsAtomic`); the authoritative books do not: the copy after the
  rename may stop half way, and nothing ever completes it.
* `TreeTerminated`: `PROTOCOL.md` says that the process tree is terminated after
  every round; `run_process` terminates it only when the leader outlives its
  deadline. A leader that exits early leaves running whoever has closed its streams.
* `VoidOnlyWhenOver`: `PROTOCOL.md` voids a round when its reference-minute data is
  unrecoverable, and lets agents finish early. `cmd_run_round` asks for the fill
  bars as soon as the last agent is done. The reference minute begins a minute
  after the deadline, so even a field that runs into the deadline is asked for
  bars before they exist; with the HTTP vendor no live round can be filled.
* `FillsAfterDecisions`: `PROTOCOL.md` prices a round at the first bar after the common
  decision deadline. The deadline of the agents is the spec's, the minute that prices
  them the calendar's, and nothing compares the two: a spec that is reused, or rerun in
  the afternoon, with a later deadline and a fixed `now` has a morning round decided
  after its fill bars can be had, and archived, after the late round if need be.

Further disagreements met in the code, which no run is needed to see:

* After an interrupted copy the next round is evaluated from the stale books and
  its archive lacks the trades of the round before, where the protocol promises an
  append-only ledger (`PROTOCOL.md:519`; `LiveGrows` and `RoundsInOrder` hold for
  the live books, not for the archive after such a stop).
* `fills.json` is to hold the prior executions (`PROTOCOL.md:417`); the command never
  passes them to the evaluation, and publication overwrites the file with those of
  the last round.
* A quota or provider failure during a round is to pause future rounds
  (`PROTOCOL.md:568`); the command discards the round and records no pause.
* One invalid order, with a negative amount for instance, is not to invalidate the
  others (`PROTOCOL.md:495`); `parse_decision` rejects the whole file.
* A line cut by the deadline makes the codex adapter answer `runner_error`, which
  voids the round for the field, where the protocol's row for a timeout holds one
  replica (`PROTOCOL.md:572`).
* A `run-round` that is not live builds new adapters and hands them no identity, so
  a subscription adapter always raises in it; only the fake runner can run.
* A second preflight of a round whose answers differ from the first, as a repaired
  field's must, raises on the immutable artifact of the first.
* A first grok run cut before its end event shows no conversation, so none is stored
  and the next round starts a new one; the protocol lets the conversation persist
  across rounds (`PROTOCOL.md:430`).
* A torn session record makes every later save of its store raise, of any replica.
* Freshness (`PROTOCOL.md:315`) is counted from the start of a minute bar: at the exact
  start of a round the snapshot's age is the sixty seconds allowed, and any delay
  makes it stale, so that a live round needs a spec that fixes `now`.
* The HTTP vendor raises when one symbol has no rows, which pauses or voids the
  round where the protocol rejects the orders for that symbol alone.
* A close killed after `status.json` says "marked" without marks; and a second close
  for fewer replicas leaves the marks of the others behind.
* The equal-weight baseline is to allocate equally across the frozen universe
  (`PROTOCOL.md:612`). It does so in one decision (`baselines.py:331`), of which the exchange
  takes the first twenty orders (`validate.py:59`); the universe has about a hundred
  symbols.
* The archived tape has the bars of a round's start in `bars.json`, while fills are
  priced from `fill-bars.json`: baselines run on that tape fill at the starting
  prices.

## 5. What is proved

All proofs hold for arbitrary sets of replicas, publishers, decisions, processes,
conversations, orders, calendars and prices, infinite ones included (the universe of
`Baselines` is a sequence, hence finite), and for any bounds. The assumptions are

* `PublicationAssumption`, `ArenaAssumption`, `SupervisorAssumption` and
  `ExchangeAssumption`: the bounds and the limits of the streams are natural numbers,
  a pipe holds at least a byte, references and priorities are positive, the values standing for "no
  file", "no archive", "no decision" and "no reference" differ from the real ones,
  and the leader is not its own descendant;
* `AdapterAssumption` and `OutputAssumption`: a field gives an adapter to some of the
  replicas, `None`, `Torn` and `Unusable` are not conversations, rounds, reasons or
  outputs, and a client prints a sequence of lines, any lines in any order;
* `DayAssumption`: there is a replica, the calendars are what `parse_calendar`
  returns, and `None` is not a time, a book or a mark. Readings and deadlines are any;
* `BaselineAssumption`: the universe is the sorted sequence of its symbols, a recorded
  tape has a bar or none for each of them, a close is a price or none, and a draw is
  an amount.

One theorem has a hypothesis besides: `RoundsFollow` (`RoundsInOrder`) assumes
`LateFollowsMorning`, that sessions close at 10:28 or later. `calendar.py` does not
ask for it, and on a calendar with a close at ten the late round would be over
before the morning one; exchanges close at 13:00 at the earliest.

**`PublicationProofs`.** `Invariance: Spec => []IInv`. `TypeOK` and the safety
properties are not inductive by themselves; `IInv` adds that at most one process
holds the staging tree of a round, that a tree being staged agrees with the files
its holder has written and is empty elsewhere, that a process between `rename` and
`copy` knows the state of the directories it has tested, and that a completed or
copying round is archived whole by the call that says so. From it follow
`CommittedAlwaysWhole`, `LiveAlwaysArchived`, `CompletedAtMostOnce`,
`ArchiveNeverChanges`, `OrphansStay` and the refinement `PublicationIsAtomic`,
whose only visible step is `Rename`.

**`SequentialPublicationProofs`.** `AuditProvesTheBooks`: as long as no two calls have
overlapped and every archived round has its `completed` event, each live file is of
the latest round archived for its replica. `SInv` adds to `IInv`, for such histories,
`OneAtATime` (a call under way is the last one made) and `CopiesFollow` (while no
archived round was abandoned in its copy, a live file is of the latest of the
archived rounds that are not still to be copied to it). The second is what is
inductive: in the middle of a copy the live books are of two rounds.

**`ArenaRoundProofs`.** `IInv` is the conjunction of
`TypeOK`; `BooksHaveEvidence` (live, loaded, candidate and archived books all trade
only staged decisions, which is what makes `TradesAreStaged` inductive);
`PhaseFacts`; `LoadedIsLive` (until a replica is copied its live book is the one
the command read, because commands do not overlap); `CandidatesExtend`;
`StagedIsSealed`; `BarrierFacts` (exactly the due replicas have runners, and past
the barrier all have sealed); `CandidatesAreClean`. `ForgetKeeps`,
`EarlyStepKeeps` and `OutboxKeeps` treat the steps that only end a command, move
it towards the barrier, or write an outbox; the other actions have a lemma
each. The three lemmas `OnlyCopyChangesBooks`, `OnlyCommitArchives` and
`OnlyCollectionStages` say which step may change what and carry the action
properties `BooksOnlyGrow`, `SealedUntilTheBarrier` and `OnlyCleanCommits`.

**`ProcessSupervisorProofs`.** `CaptureIsComplete` speaks of the end of a call; what
makes it inductive is `CaptureIsPrefix` (at any moment the buffer of a collector
that has not failed holds the first bytes of what it has read, which is what was
written less what is in the pipe), `EndIsFinal` (once a collector has seen the
end of its stream, the pipe is empty and nobody can write to it again: a process
only gets a stream from a parent that holds it) and `JoinedInOrder` (the call is
past a join only if that collector has ended). `DeadHoldNothing` and `NotStarted`
say so of processes that cannot act. `KilledGroupGone` is inductive with them: a
process is forked by a running one, and the group has none left. From `IInv`
follow `ResultsAreComplete`, `GroupStaysDead` and `TypeCorrect`.

**`PaperExchangeProofs`.** The lemmas `Division`, `HalfEvenSteps` and `HalfEvenBetween`
say what the rounding does for every pair of numbers: it returns the quotient or
one more, and stays between any two whole numbers the exact quotient is between.
From them `CostWithinNotional` (flooring the quantity leaves the rounded cost
within the budget) and `AverageBetween` (a rounded average of two prices stays
between their bounds). `IInv` adds to `TypeOK` that the current book and the one
before the batch both have positive positions whose bases lie between prices
paid, that pending orders are valid, and `BuysWithinNotional`. From it follow
`TypeCorrect` (cash and holdings are never negative, for any decisions and prices),
`BudgetsHold` and `BasisIsAnAverage`.

`OutcomesExplained` says that a settled batch, whatever its decision, has the
executions and the book that `BatchOutcome` states without a loop. It needs sums:
`SumOf` is defined through the functions that add an element at a time, and
`SumIs` and `SumFacts` (a sum is the same in whatever order its terms are added)
are proved by taking a smallest set for which they fail. `BatchInv` describes the
middle of a batch: the orders looked at precede all that are pending; each of them
was filled exactly if it could be with what sells and earlier buys had left; cash and
holdings are the old ones with the sums of the fills. `BuyOutcome`, `SellOutcome`,
`RejectOutcome` and `SubmitOutcome` preserve it, and `BatchOver` draws the conclusion
when nothing is pending.

**`RunnerAdapterProofs`.** The lemmas about `AgentOutput` come first: what the
classifiers return for any output a client may leave (`OutcomeFacts`,
`OutcomeOfRun`), and that "completed" is said only of an answer that came to its end and shows the
conversation recorded (`CodexCompleted`, `GrokCompleted`). `IInv` adds to the types
`Answered` (the answers that count are in the archive), `Ready` (a replica found ready
has a clean preflight of this command in the log), `Thread` with `Conversed` (a
run's output is archived, and its conversation stored, before anything is said of
it), `RecordsApart`, and `Sound` with `Explained`: whatever an event of the log says
follows from artifacts that are still there. `Carried` is the lemma that an
archive that only grows and a store that keeps its references preserve all that.
`LaunchesOnEvidence`, `EvidenceStays`, `ConversationsKept`, `ConversationsDiffer`,
`SharedFailuresVoid` and `CompletionsOnEvidence` follow, over crashes, torn files and
reruns.

**`TradingDayProofs`.** What makes the properties inductive is `SealedInTime` (a
supervised process is sealed by the deadline and the reaping), `LoadedIsLive`,
`LiveOfOneRound` (unless a copy was cut short the books are of one round, and those of
the only archived round while there is only one), `ClosingLive` and `MarksWhole`, with
`Numbered` (no file names a command not given yet) for telling rounds apart.
`SnapshotsFresh`, `ClosesWhole` and `FillsArePunctual` follow; the last is where the
40 seconds of `Reaping` meet the minute between deadline and reference. `RoundsFollow`
needs `LateIsHistory` as well: the late round is archived, by a vendor with a clock, after
the deadline by which a punctual morning round must be launched. Time keeps the order
for punctual rounds alone, and no check in the code does.

**`BaselinesProofs`.** `BuysAreAffordable`: no baseline is refused an order for lack
of cash. The inductive fact is `Reserved`: the order at position i asks for no more
than what i - 1 shares leave of the cash, and the orders before it have spent no more
than those shares; `SharesOut` is why the rounded shares of the universe sum to the
cash. `NlvIsALiquidation`: the net liquidation value is what the exchange would pay,
for every book and every closing price, to within half a cent per position and one for
the sum (`SumRounded`), and never more than the equity (`SlippedDown`).

Every inductive invariant was checked with TLC on the instance of its component before
it was relied on. For that, `SumOf` in `BatchInv` was evaluated as a fold and the
share in `Reserved` searched up to the cash, since TLC cannot search all the functions
and numbers their definitions mention.

Only model-checked: the liveness properties `CommandsEnd`, `Returns` and
`NoBackPressure` (the prover does not treat fairness), and the violations.

## 6. What is not modelled

Parsing of the operator's JSON, schemas, HTTP, file permissions and link checks,
environment filtering and redaction are validation or I/O without a protocol
between actors. Of the adapters, command lines and the payloads of events are left
out, and of the archive the reading back of its log; of the market data, the
history of bars, the recorded tape and its hold decisions, and the requests of the
HTTP vendor; of the baselines, the generator itself, `replay.py` and the file of
results; `median_nlv`. Exceptions of the transport that the vendor does not
convert end a command like any other stop. The staged bytes that make
`parse_decision` raise something other than `SchemaError` are not modelled. The Windows branch of
the supervisor is not modelled. Loss of files already written (no
`fsync` is called) is not modelled.
