---------------------------- MODULE RunnerAdapter ----------------------------
(***************************************************************************)
(* The subscription adapters, CodexAdapter and GrokBuildAdapter, with the  *)
(* session store (session.py) and the audit archive (audit.py) they share: *)
(* the probes of a preflight, the launch of an agent in a fresh or a       *)
(* resumed conversation, the evidence they archive and what they report.   *)
(*                                                                         *)
(* The operator issues commands one after the other.  cmd_preflight only   *)
(* probes the field; a live run-round probes it and, when all of it is     *)
(* ready, runs one thread per replica; a run-round that is not live is     *)
(* handed a preflight result and runs its threads with adapters that have  *)
(* probed nothing.  A command may be killed at any moment.                 *)
(*                                                                         *)
(* The two streams of a process are archived as one artifact, and an       *)
(* answer to a probe is off in at most one respect: which of two failures  *)
(* is looked at first only words the pause.  What a client prints is given *)
(* by the constant Output, and any of it may come with any exit.           *)
(***************************************************************************)
EXTENDS AgentOutput, Disposition

CONSTANTS
  Replica,      \* registered replicas
  Field,        \* the fields a season may have: the adapter of each due replica
  Session,      \* conversations a provider may open
  Torn,         \* the bytes of a write that was cut short
  Round,        \* the rounds
  Deviation,    \* respects in which answers to probes may be off
  Output,       \* Output[a]: what a client of adapter a may have printed
  MaxCommands,  \* bound on the commands
  MaxFaults     \* bound on bad answers, bad runs and crashes

Adapter == {"codex", "grok_build"}
Kind    == {"preflight", "live", "handed"}
Exit    == {"zero", "nonzero", "deadline"}

ASSUME AdapterAssumption ==
  /\ \A f \in Field : DOMAIN f \subseteq Replica /\ f \in [DOMAIN f -> Adapter]
  /\ MaxCommands \in Nat /\ MaxFaults \in Nat
  /\ None \notin Session \cup Round /\ Torn \notin Session /\ Unusable \notin Session
  /\ None # Torn /\ None # Unusable

-----------------------------------------------------------------------------
(* Probes: for each respect in which an answer may be off, the reason given. *)
(* The first step of a preflight compares the request with the registration  *)
(* and finds the executable: it runs nothing and leaves no artifact.         *)

\* An answer that agrees with the registration, and the verdict of a preflight
\* whose answers all do.
Good == "good"

\* No process, a process beyond the deadline, an exit status that is not zero.
Failed == [supervisor |-> "probe_failed", deadline |-> "probe_failed",
           nonzero |-> "probe_failed"]

Plus(f, g) == [d \in DOMAIN f \cup DOMAIN g |-> IF d \in DOMAIN g THEN g[d] ELSE f[d]]

CodexRequest ==
  [registration |-> "registration_mismatch", executable |-> "executable_missing"]

CodexVersion == Plus(Failed, [version |-> "version_mismatch"])

CodexLogin ==
  Plus(Failed, [nonzero |-> "unauthenticated", unknownMode |-> "unauthenticated",
                otherMode |-> "api_key_authentication"])

CodexHelp == Plus(Failed, [capability |-> "structured_interface_missing"])

CodexDoctor ==
  Plus(Failed,
       [invalid |-> "doctor_invalid", version |-> "version_mismatch",
        installation |-> "probe_failed", credentials |-> "unauthenticated",
        authMode |-> "api_key_authentication", storedKey |-> "api_key_authentication",
        config |-> "doctor_invalid", model |-> "model_mismatch",
        reasoning |-> "reasoning_mismatch", routing |-> "routing_enabled",
        reachability |-> "provider_unavailable"])

CodexProbes ==
  << [name |-> "request", checks |-> CodexRequest],
     [name |-> "version", checks |-> CodexVersion],
     [name |-> "login-status", checks |-> CodexLogin],
     [name |-> "exec-help", checks |-> CodexHelp],
     [name |-> "doctor", checks |-> CodexDoctor] >>

GrokRequest ==
  [registration |-> "registration_mismatch", executable |-> "executable_missing"]

GrokVersion == Plus(Failed, [version |-> "version_mismatch"])

GrokModels ==
  Plus(Failed, [unreachable |-> "provider_unavailable", signedOut |-> "unauthenticated",
                unknownMode |-> "unauthenticated", apiKey |-> "api_key_authentication",
                defaultModel |-> "model_mismatch", available |-> "model_mismatch"])

GrokHelp == Plus(Failed, [capability |-> "structured_interface_missing"])

GrokAgentHelp ==
  Plus(Failed, [stdio |-> "structured_interface_missing",
                reasoningMode |-> "reasoning_mismatch"])

GrokInspect ==
  Plus(Failed,
       [invalid |-> "inspect_invalid", version |-> "version_mismatch",
        model |-> "model_mismatch", reasoning |-> "reasoning_mismatch",
        routing |-> "routing_enabled", reachability |-> "provider_unavailable"])

GrokProbes ==
  << [name |-> "request", checks |-> GrokRequest],
     [name |-> "version", checks |-> GrokVersion],
     [name |-> "models", checks |-> GrokModels],
     [name |-> "help", checks |-> GrokHelp],
     [name |-> "agent-help", checks |-> GrokAgentHelp],
     [name |-> "inspect", checks |-> GrokInspect] >>

-----------------------------------------------------------------------------

VARIABLES
  adapter,   \* adapter[r]: the adapter of due replica r
  commands,  \* commands issued so far
  faults,    \* bad answers, bad runs and crashes so far
  \* the command in progress
  stage,     \* what it is doing
  kind,      \* which command it is
  round,     \* its round
  answers,   \* answers[r]: the answers to the probes of r so far
  reported,  \* replicas whose preflight has returned
  ready,     \* replicas whose adapter holds a ready identity
  run,       \* run[r]: where the thread of r stands
  resumed,   \* resumed[r]: the conversation r resumes, or None
  seen,      \* seen[r]: what the agent of r wrote, how it exited, its decision
  \* what outlives it
  outbox,    \* replicas with a file outbox/decision.json
  files,     \* files[p]: artifact p of the archive and its checksum sidecar
  log,       \* the events of the archive
  records    \* records[r]: the session record of r, Torn or None

memory == <<stage, kind, round, answers, reported, ready, run, resumed, seen>>
disk == <<outbox, files, log, records>>
vars == <<adapter, commands, faults, memory, disk>>

Due == DOMAIN adapter

NothingSeen == [output |-> << >>, exit |-> "zero", present |-> FALSE]

Init ==
  /\ adapter \in Field
  /\ commands = 0 /\ faults = 0
  /\ stage = "idle" /\ kind = "preflight" /\ round = None
  /\ answers = [r \in Replica |-> << >>]
  /\ reported = {} /\ ready = {}
  /\ run = [r \in Replica |-> "none"]
  /\ resumed = [r \in Replica |-> None]
  /\ seen = [r \in Replica |-> NothingSeen]
  /\ outbox = {}
  /\ files = [p \in {} |-> p]
  /\ log = {}
  /\ records = [r \in Replica |-> None]

\* The command returns, raises or is killed: its adapters are gone.
Forget ==
  /\ stage' = "idle" /\ kind' = "preflight" /\ round' = None
  /\ answers' = [r \in Replica |-> << >>]
  /\ reported' = {} /\ ready' = {}
  /\ run' = [r \in Replica |-> "none"]
  /\ resumed' = [r \in Replica |-> None]
  /\ seen' = [r \in Replica |-> NothingSeen]

Probes(r) == IF adapter[r] = "codex" THEN CodexProbes ELSE GrokProbes

Fault(bad) ==
  /\ bad => faults < MaxFaults
  /\ faults' = IF bad THEN faults + 1 ELSE faults

-----------------------------------------------------------------------------
(* AuditArchive *)

Path(r, name) == <<r, round, name>>

\* Defective variant, to see that a property notices: a rerun replaces the
\* artifacts of the earlier one.
MayWrite_Overwrites(path, bytes) == TRUE

\* _write_immutable, of the artifact and then of its sidecar: a file that is
\* there must hold the same bytes.
MayWrite(path, bytes) ==
  path \in DOMAIN files =>
    /\ files[path].bytes = bytes
    /\ files[path].digest \in {None, bytes}

Store(path, file) ==
  files' = [p \in DOMAIN files \cup {path} |-> IF p = path THEN file ELSE files[p]]

WriteArtifact(path, bytes) ==
  /\ MayWrite(path, bytes)
  /\ Store(path, [bytes |-> bytes, digest |-> bytes])

\* A crash may cut the artifact, its sidecar, or the time between them, or come
\* before the event that announces both.
Leftovers(path, bytes) ==
  CASE path \notin DOMAIN files ->
         {[bytes |-> Torn, digest |-> None]}
           \cup {[bytes |-> bytes, digest |-> d] : d \in {None, Torn, bytes}}
    [] path \in DOMAIN files /\ files[path] = [bytes |-> bytes, digest |-> None] ->
         {[bytes |-> bytes, digest |-> d] : d \in {Torn, bytes}}
    [] OTHER -> {}

Event(r, type, about, artifacts) ==
  [replica |-> r, type |-> type, round |-> round, command |-> commands,
   about |-> about, artifacts |-> artifacts]

AppendEvent(e) == log' = log \cup {e}

-----------------------------------------------------------------------------
(* The command *)

Start(k, n, cleared) ==
  /\ stage = "idle"
  /\ commands < MaxCommands
  /\ commands' = commands + 1
  /\ kind' = k
  /\ round' = n
  /\ stage' = IF k = "handed" THEN "barrier" ELSE "preflight"
  /\ outbox' = outbox \ cleared
  /\ UNCHANGED <<adapter, faults, answers, reported, ready, run, resumed, seen,
                 files, log, records>>

\* Replicas are probed one after the other.
Probing(r) ==
  /\ stage = "preflight"
  /\ r \notin reported
  /\ \A q \in Due \ (reported \cup {r}) : answers[q] = << >>

Step(r) == Probes(r)[Len(answers[r]) + 1]

Verdict(r) ==
  LET n == Len(answers[r])
  IN IF n = 0 \/ answers[r][n] = Good THEN Good ELSE Probes(r)[n].checks[answers[r][n]]

Asked(r) == Len(answers[r]) = Len(Probes(r)) \/ Verdict(r) # Good

LeavesArtifact(name, answer) == name # "request" /\ answer # "supervisor"

\* preflight_started, then one probe after the other while they are passed.
Probe(r, answer) ==
  /\ Probing(r) /\ ~Asked(r)
  /\ answer \in {Good} \cup DOMAIN Step(r).checks
  /\ Fault(answer # Good)
  /\ answers' = [answers EXCEPT ![r] = Append(@, answer)]
  /\ IF answers[r] = << >>
     THEN AppendEvent(Event(r, "preflight_started", None, {})) ELSE UNCHANGED log
  /\ IF LeavesArtifact(Step(r).name, answer)
     THEN WriteArtifact(Path(r, Step(r).name), answer) ELSE UNCHANGED files
  /\ UNCHANGED <<adapter, commands, stage, kind, round, reported, ready, run, resumed,
                 seen, outbox, records>>

\* The same probe of an earlier preflight of the round was answered otherwise.
ProbeRaises(r, answer) ==
  /\ Probing(r) /\ ~Asked(r)
  /\ answer \in {Good} \cup DOMAIN Step(r).checks
  /\ LeavesArtifact(Step(r).name, answer)
  /\ ~MayWrite(Path(r, Step(r).name), answer)
  /\ Fault(answer # Good)
  /\ Forget
  /\ UNCHANGED <<adapter, commands, disk>>

\* The artifacts of the preflight, with the bytes their checksums stand for.
Gathered(r) ==
  {<<Path(r, Probes(r)[i].name), answers[r][i]>> :
     i \in {j \in DOMAIN answers[r] : LeavesArtifact(Probes(r)[j].name, answers[r][j])}}
    \cup {<<Path(r, "summary"), Verdict(r)>>}

Finish(r) ==
  /\ Probing(r) /\ Asked(r)
  /\ WriteArtifact(Path(r, "summary"), Verdict(r))
  /\ AppendEvent(Event(r, "preflight_completed", Verdict(r), Gathered(r)))
  /\ reported' = reported \cup {r}
  /\ ready' = IF Verdict(r) = Good THEN ready \cup {r} ELSE ready
  /\ UNCHANGED <<adapter, commands, faults, stage, kind, round, answers, run, resumed,
                 seen, outbox, records>>

FinishRaises(r) ==
  /\ Probing(r) /\ Asked(r)
  /\ ~MayWrite(Path(r, "summary"), Verdict(r))
  /\ Forget
  /\ UNCHANGED <<adapter, commands, faults, disk>>

CodexPreflight(r) ==
  /\ adapter[r] = "codex"
  /\ \/ \E answer \in {Good} \cup Deviation :
          Probe(r, answer) \/ ProbeRaises(r, answer)
     \/ Finish(r) \/ FinishRaises(r)

GrokPreflight(r) ==
  /\ adapter[r] = "grok_build"
  /\ \/ \E answer \in {Good} \cup Deviation :
          Probe(r, answer) \/ ProbeRaises(r, answer)
     \/ Finish(r) \/ FinishRaises(r)

\* preflight_round: one replica that is not ready, or common data that is not
\* available, pauses the field.
Decide(data) ==
  /\ stage = "preflight"
  /\ reported = Due
  /\ IF ready = Due /\ data = Available
     THEN UNCHANGED log ELSE AppendEvent(Event(None, "pause", None, {}))
  /\ IF ready = Due /\ data = Available /\ kind = "live"
     THEN /\ stage' = "barrier"
          /\ UNCHANGED <<kind, round, answers, reported, ready, run, resumed, seen>>
     ELSE Forget
  /\ UNCHANGED <<adapter, commands, faults, outbox, files, records>>

-----------------------------------------------------------------------------
(* The thread of one replica: the run method of its adapter *)

\* Defective variant: a preflight result handed in is enough.
MayLaunch_Unprobed(r, given) == records[r] = given /\ r \notin outbox

\* A conversation is resumed by the reference the store holds, and a fresh one
\* needs a replica without record; a torn record is no reference.
MayLaunch(r, given) ==
  /\ r \in ready
  /\ records[r] = given
  /\ r \notin outbox

Turn(r) == stage = "barrier" /\ run[r] = "none"

Launch(r, given) ==
  /\ Turn(r)
  /\ MayLaunch(r, given)
  /\ run' = [run EXCEPT ![r] = "running"]
  /\ resumed' = [resumed EXCEPT ![r] = given]
  /\ AppendEvent(Event(r, "replica_launched", given, {}))
  /\ UNCHANGED <<adapter, commands, faults, stage, kind, round, answers, reported, ready,
                 seen, outbox, files, records>>

Raise(r) ==
  /\ run' = [run EXCEPT ![r] = "raised"]
  /\ UNCHANGED <<adapter, commands, stage, kind, round, answers, reported, ready, resumed,
                 seen, files, log, records>>

LaunchRaises(r, given) ==
  /\ Turn(r)
  /\ ~MayLaunch(r, given)
  /\ Raise(r)
  /\ UNCHANGED <<faults, outbox>>

\* The classes of a client's error codes, and the lines it may print.
Codes   == CodexClasses \cup GrokClasses \cup {"other"}
Reasons == Codes \cup {"end_turn", "blank"}
Printed == [type : {"thread.started", "turn.completed", "turn.failed", "item.completed",
                    "text", "error", "end", "untyped", "garbled"},
            codes : SUBSET Codes,
            reason : Reasons \cup {None},
            session : Session \cup {None}]

\* A client prints lines.  Nothing a probe answers, a preflight finds or a
\* client prints is None.
ASSUME OutputAssumption ==
  /\ Output \in [Adapter -> SUBSET Seq(Printed)]
  /\ \A a \in Adapter : None \notin Output[a]
  /\ None \notin Reasons \cup {Good}
  /\ \A probes \in {CodexProbes, GrokProbes} : \A i \in DOMAIN probes :
       \A d \in DOMAIN probes[i].checks : probes[i].checks[d] # None

\* What the adapter of product a makes of an output, and the conversation it
\* reads there.
OutcomeIn(a, output, exit, present) ==
  IF a = "codex" THEN CodexOutcome(output, exit, present)
  ELSE GrokOutcome(output, exit, present)

SessionIn(a, output) ==
  LET events == IF a = "codex" THEN CodexEvents(output) ELSE GrokEvents(output)
  IN IF events = None THEN None
     ELSE IF a = "codex" THEN CodexSession(events) ELSE GrokSession(events)

\* A run is good when it is an answer, in the right conversation.
BadRun(r, output, exit) ==
  \/ OutcomeIn(adapter[r], output, exit, TRUE) # "completed"
  \/ SessionIn(adapter[r], output) \notin Session
  \/ resumed[r] \notin {None, SessionIn(adapter[r], output)}

\* run_isolated_process returns; the adapter archives the streams, then hashes
\* the outbox and records whether there is a decision.
AgentExits(r, output, exit, writes) ==
  /\ run[r] = "running"
  /\ Fault(BadRun(r, output, exit))
  /\ outbox' = IF writes THEN outbox \cup {r} ELSE outbox
  /\ IF MayWrite(Path(r, "run"), output)
     THEN /\ WriteArtifact(Path(r, "run"), output)
          /\ run' = [run EXCEPT ![r] = "collected"]
          /\ seen' = [seen EXCEPT ![r] =
                        [output |-> output, exit |-> exit, present |-> writes]]
          /\ AppendEvent(Event(r, "decision_collected", writes, {}))
          /\ UNCHANGED <<adapter, commands, stage, kind, round, answers, reported, ready,
                         resumed, records>>
     ELSE Raise(r)

\* The supervisor raises: no artifact.
AgentLost(r) ==
  /\ run[r] = "running"
  /\ Fault(TRUE)
  /\ Raise(r)
  /\ UNCHANGED outbox

OutcomeOf(r) == OutcomeIn(adapter[r], seen[r].output, seen[r].exit, seen[r].present)

Observed(r) == SessionIn(adapter[r], seen[r].output)

-----------------------------------------------------------------------------
(* SessionStore: one store per adapter, save under a lock *)

Peers(r) == {q \in Due : adapter[q] = adapter[r]}

\* Defective variant: only the replica's own record is looked at.
MaySave_OwnRecord(r, s) == records[r] \in {None, s}

\* Every record of the store is loaded: a torn one raises.
MaySave(r, s) ==
  /\ \A q \in Peers(r) : records[q] # Torn /\ (q # r => records[q] # s)
  /\ records[r] \in {None, s}

\* What the run has shown of its conversation.
MaySettle(r) ==
  /\ Observed(r) # Unusable
  /\ Observed(r) = None => OutcomeOf(r) \notin {"completed", "missing_decision"}
  /\ Observed(r) # None =>
       IF resumed[r] = None THEN MaySave(r, Observed(r)) ELSE Observed(r) = resumed[r]

\* Defective variant: only a completed round opens a conversation.
Saves_OnlyCompleted(r) ==
  resumed[r] = None /\ Observed(r) # None /\ OutcomeOf(r) = "completed"

Saves(r) == resumed[r] = None /\ Observed(r) # None

Settle(r) ==
  /\ run[r] = "collected"
  /\ IF MaySettle(r)
     THEN /\ run' = [run EXCEPT ![r] = "settled"]
          /\ records' = IF Saves(r) THEN [records EXCEPT ![r] = Observed(r)] ELSE records
          /\ UNCHANGED <<adapter, commands, stage, kind, round, answers, reported, ready,
                         resumed, seen, files, log>>
     ELSE Raise(r)
  /\ UNCHANGED <<faults, outbox>>

Terminate(r) ==
  /\ run[r] = "settled"
  /\ OutcomeOf(r) = "timeout"
  /\ run' = [run EXCEPT ![r] = "terminated"]
  /\ AppendEvent(Event(r, "replica_terminated", None, {}))
  /\ UNCHANGED <<adapter, commands, faults, stage, kind, round, answers, reported, ready,
                 resumed, seen, outbox, files, records>>

ResultSession(r) == IF resumed[r] # None THEN resumed[r] ELSE Observed(r)

Report(r) ==
  /\ run[r] = IF OutcomeOf(r) = "timeout" THEN "terminated" ELSE "settled"
  /\ run' = [run EXCEPT ![r] = "done"]
  /\ AppendEvent(Event(r, "replica_completed",
                       [outcome |-> OutcomeOf(r), exit |-> seen[r].exit,
                        session |-> ResultSession(r)],
                       {<<Path(r, "run"), seen[r].output>>}))
  /\ UNCHANGED <<adapter, commands, faults, stage, kind, round, answers, reported, ready,
                 resumed, seen, outbox, files, records>>

RunThread(r) ==
  \/ \E given \in Session \cup {None} : Launch(r, given) \/ LaunchRaises(r, given)
  \/ \E output \in Output[adapter[r]], exit \in Exit, writes \in BOOLEAN :
       AgentExits(r, output, exit, writes)
  \/ AgentLost(r) \/ Settle(r) \/ Terminate(r) \/ Report(r)

CodexRun(r) == adapter[r] = "codex" /\ RunThread(r)
GrokRun(r)  == adapter[r] = "grok_build" /\ RunThread(r)

\* The barrier closes when no thread is left.
CloseBarrier ==
  /\ stage = "barrier"
  /\ \A r \in Due : run[r] \in {"done", "raised"}
  /\ Forget
  /\ UNCHANGED <<adapter, commands, faults, disk>>

-----------------------------------------------------------------------------
(* Crashes *)

\* The command is killed, perhaps while it writes an artifact or a record.
TornProbe(r) ==
  /\ Probing(r) /\ ~Asked(r) /\ LeavesArtifact(Step(r).name, Good)
  /\ \E left \in Leftovers(Path(r, Step(r).name), Good) : Store(Path(r, Step(r).name), left)
  /\ UNCHANGED records

TornSummary(r) ==
  /\ Probing(r) /\ Asked(r)
  /\ \E left \in Leftovers(Path(r, "summary"), Verdict(r)) : Store(Path(r, "summary"), left)
  /\ UNCHANGED records

\* An output that makes a bad run as well is a second fault.
TornOutput(r, output) ==
  /\ run[r] = "running"
  /\ BadRun(r, output, "zero") => faults + 1 < MaxFaults
  /\ \E left \in Leftovers(Path(r, "run"), output) : Store(Path(r, "run"), left)
  /\ UNCHANGED records

TornRecord(r) ==
  /\ run[r] = "collected"
  /\ MaySettle(r) /\ Saves(r) /\ records[r] = None
  /\ records' = [records EXCEPT ![r] = Torn]
  /\ UNCHANGED files

Crash ==
  /\ stage # "idle"
  /\ Fault(TRUE)
  /\ \/ UNCHANGED <<files, records>>
     \/ \E r \in Due : TornProbe(r) \/ TornSummary(r) \/ TornRecord(r)
     \/ \E r \in Due : \E output \in Output[adapter[r]] : TornOutput(r, output)
  /\ Forget
  /\ UNCHANGED <<adapter, commands, outbox, log>>

Next ==
  \/ \E k \in Kind, n \in Round, cleared \in {{}, Replica} : Start(k, n, cleared)
  \/ \E r \in Due : CodexPreflight(r) \/ GrokPreflight(r) \/ CodexRun(r) \/ GrokRun(r)
  \/ \E data \in DataStatus : Decide(data)
  \/ CloseBarrier
  \/ Crash

Spec == Init /\ [][Next]_vars

-----------------------------------------------------------------------------
(* Properties *)

EventType == {"preflight_started", "preflight_completed", "pause", "replica_launched",
              "decision_collected", "replica_terminated", "replica_completed"}

TypeOK ==
  /\ adapter \in Field
  /\ commands \in 0..MaxCommands /\ faults \in 0..MaxFaults
  /\ stage \in {"idle", "preflight", "barrier"}
  /\ kind \in Kind /\ round \in Round \cup {None}
  /\ \A r \in Due : Len(answers[r]) <= Len(Probes(r))
  /\ reported \subseteq Due /\ ready \subseteq reported
  /\ run \in [Replica -> {"none", "running", "collected", "settled", "terminated",
                          "done", "raised"}]
  /\ resumed \in [Replica -> Session \cup {None}]
  /\ outbox \subseteq Replica
  /\ \A p \in DOMAIN files : p[1] \in Due /\ p[2] \in Round
  /\ \A e \in log : e.type \in EventType /\ e.command \in 1..MaxCommands
  /\ \A e \in log : e.type = "replica_completed" => e.about.outcome \in RunnerOutcomes
  /\ records \in [Replica -> Session \cup {None, Torn}]

Results == {e \in log : e.type = "replica_completed"}

\* What an event of the log names is in the archive for ever: the artifact
\* with the bytes the event was written for and its checksum sidecar, after
\* any reruns of the round and crashes.  (_write_immutable, _verify_artifact.)
EvidenceIntact ==
  \A e \in log : \A a \in e.artifacts :
    /\ a[1] \in DOMAIN files
    /\ files[a[1]] = [bytes |-> a[2], digest |-> a[2]]

\* An agent is launched only when the command that launches it has found the
\* whole field ready, on archived answers to every probe of every replica that
\* agree with the registration; a preflight of another command, or of one
\* replica alone, launches nobody.  (run: "matching ready preflight is
\* required before execution"; preflight_round.)
CleanPreflight(r, e) ==
  /\ e.type = "preflight_completed" /\ e.replica = r
  /\ \A i \in DOMAIN Probes(r) :
       Probes(r)[i].name # "request" =>
         <<<<r, e.round, Probes(r)[i].name>>, Good>> \in e.artifacts

LaunchedOnEvidence ==
  \A l \in log :
    l.type = "replica_launched" =>
      \A r \in Due : \E e \in log :
        CleanPreflight(r, e) /\ e.command = l.command /\ e.round = l.round

\* The conversation a result names is the one the store holds for its replica,
\* for ever: later rounds resume it or fail.  (save, load; "resumed output
\* reported a different thread".)
ConversationKept ==
  \A e \in Results :
    e.about.session # None => records[e.replica] = e.about.session

\* Two replicas of one product never report results in one conversation, even
\* when both threads are shown the same new reference at once or a record of
\* the store is torn.  (save scans every record under its lock.)
ConversationsApart ==
  \A e, f \in Results :
    /\ e.replica # f.replica
    /\ adapter[e.replica] = adapter[f.replica]
    /\ e.about.session # None
    => e.about.session # f.about.session

ArchivedOutput(e) == files[<<e.replica, e.round, "run">>].bytes

\* The lines of a stream that report a failure with code c.
Reports(a, line, c) ==
  \/ c \in line.codes /\ line.type \in IF a = "codex" THEN {"error", "turn.failed"} ELSE {"error"}
  \/ a = "grok_build" /\ c = line.reason /\ line.type \in {"end", "untyped"}

\* A quota or provider failure the client printed is never taken for a hold, a
\* refusal or a decision of one replica, whatever else it printed, a failure of
\* another class perhaps, and however the process ended: it voids the round.
\* (_classify_codex_outcome, _classify_grok_build_outcome, disposition.py.)
SharedFailureVoids ==
  \A e \in Results :
    (\E i \in DOMAIN ArchivedOutput(e), c \in SharedVoidOutcomes :
       Reports(adapter[e.replica], ArchivedOutput(e)[i], c)) =>
      RoundTreatment([r \in {e.replica} |-> e.about.outcome], Available) # "evaluate"

\* An answer given in conversation s: every line can be read, none reports a
\* failure or a refusal, the turn came to its end, and one line, no more, names
\* a conversation, s.
AnswerIn(a, s, output) ==
  LET of(T) == {i \in DOMAIN output : output[i].type \in T}
  IN /\ of({"garbled", "error"}) = {}
     /\ IF a = "codex"
        THEN /\ of({"untyped", "turn.failed"}) = {}
             /\ \A i \in of({"item.completed"}) : output[i].reason # "refusal"
             /\ of({"turn.completed"}) # {}
             /\ \E i \in of({"thread.started"}) :
                  output[i].session = s /\ of({"thread.started"}) = {i}
        ELSE /\ \A i \in of({"end", "untyped"}) : output[i].reason \in {None, "end_turn"}
             /\ \E i \in of({"end", "untyped"}) :
                  /\ output[i].session = s
                  /\ \A j \in of({"end", "untyped"}) : output[j].session # None => j = i

\* A decision is traded only on a completed outcome, and an outcome is only
\* completed on evidence: for ever, the archive holds an answer in the
\* conversation the result names, of a client that ended by itself, and the
\* same command has collected a decision.
CompletedOnEvidence ==
  \A e \in Results :
    e.about.outcome = "completed" =>
      /\ e.about.exit = "zero"
      /\ AnswerIn(adapter[e.replica], e.about.session, ArchivedOutput(e))
      /\ \E c \in log : /\ c.type = "decision_collected" /\ c.about
                        /\ c.replica = e.replica /\ c.command = e.command
=============================================================================
