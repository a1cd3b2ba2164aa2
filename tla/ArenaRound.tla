----------------------------- MODULE ArenaRound -----------------------------
(***************************************************************************)
(* The life of a decision round: cmd_run_round of src/arena_runtime/cli.py *)
(* driving preflight_round, run_decision_barrier, collect_sealed_decisions, *)
(* evaluate_candidates and publish_candidates of orchestrator.py, with the *)
(* agents that write outbox/decision.json while it runs.                   *)
(*                                                                         *)
(* The operator issues commands one after the other.  A command may raise  *)
(* or be killed at any point; what it leaves on disk (outboxes, staged     *)
(* decisions, a publication staging tree, the archive, the books) and the  *)
(* agent processes it leaves running are all the next command finds.  The  *)
(* operator may rerun a round, move on, and change the due replicas.       *)
(*                                                                         *)
(* A decision is identified by the round it was written for and a version; *)
(* a portfolio is the set of the decisions traded in it, a fills file the  *)
(* set of the decisions whose executions it lists.                         *)
(***************************************************************************)
EXTENDS Integers, Disposition

CONSTANTS
  Replica,       \* registered replicas
  MaxRound,      \* bound on the decision rounds of the season
  MaxCommands,   \* bound on the invocations of run-round
  Version,       \* distinct decisions one agent may write for one round
  Malformed,     \* bytes that are no acceptable decision
  None           \* no file

Round    == 1..MaxRound
Decision == [round : Round, version : Version]
Bytes    == Decision \cup {Malformed}
Book     == [portfolio : SUBSET Decision, fills : SUBSET Decision]

\* A sealed RunnerResult, with the bytes its checksum stands for.
Result == {res \in [outcome : RunnerOutcomes, decision : Bytes \cup {None}] :
             /\ res.outcome = "completed" => res.decision # None
             /\ res.outcome = "missing_decision" => res.decision = None}

\* A round archived: one book for every replica that was due.
IsArchive(books) == \E D \in (SUBSET Replica) \ {{}} : books \in [D -> Book]

ASSUME ArenaAssumption ==
  /\ MaxRound \in Nat
  /\ MaxCommands \in Nat
  /\ Malformed \notin Decision
  /\ None \notin Bytes
  /\ None \notin Result
  /\ ~IsArchive(None)

VARIABLES
  \* the command in progress
  commands,    \* commands issued so far
  phase,       \* what cmd_run_round is doing
  round,       \* the round of the command
  due,         \* its due replicas
  loaded,      \* the books it read when it started
  data,        \* common-data status once the reference minute is fetched
  run,         \* run[r]: where the runner of replica r stands
  result,      \* result[r]: its sealed RunnerResult
  collected,   \* replicas whose sealed decision has been collected
  candidates,  \* the candidate books, or None
  copied,      \* replicas whose authoritative book has been replaced
  \* what outlives it
  survivors,   \* survivors[r]: rounds whose agent of r left processes running
  outbox,      \* outbox[r]: outbox/decision.json in the workspace of r
  staged,      \* staged[k][r]: staging_root/<k>/<r>/decision.json
  publishing,  \* rounds with a tree in books_root/.staging
  archive,     \* archive[k]: books_root/.committed/<k>, or None
  live,        \* live[r]: the authoritative book of r
  paused       \* rounds with a pause event in the audit log

command == <<phase, round, due, loaded, data, run, result, collected, candidates, copied>>
disk == <<survivors, outbox, staged, publishing, archive, live, paused>>
vars == <<commands, command, disk>>

EmptyBook == [portfolio |-> {}, fills |-> {}]

Init ==
  /\ commands = 0
  /\ phase = "idle"
  /\ round = 1
  /\ due = {}
  /\ loaded = [r \in Replica |-> EmptyBook]
  /\ data = Available
  /\ run = [r \in Replica |-> "none"]
  /\ result = [r \in Replica |-> None]
  /\ collected = {}
  /\ candidates = None
  /\ copied = {}
  /\ survivors = [r \in Replica |-> {}]
  /\ outbox = [r \in Replica |-> None]
  /\ staged = [k \in Round |-> [r \in Replica |-> None]]
  /\ publishing = {}
  /\ archive = [k \in Round |-> None]
  /\ live = [r \in Replica |-> EmptyBook]
  /\ paused = {}

\* cmd_run_round returns, raises or is killed; its memory is gone.
Forget ==
  /\ phase' = "idle"
  /\ round' = 1
  /\ due' = {}
  /\ loaded' = [r \in Replica |-> EmptyBook]
  /\ data' = Available
  /\ run' = [r \in Replica |-> "none"]
  /\ result' = [r \in Replica |-> None]
  /\ collected' = {}
  /\ candidates' = None
  /\ copied' = {}

Goto(label) == phase' = label

-----------------------------------------------------------------------------
(* Defective variants of the definitions below.  Nothing uses them; each one *)
(* replaces its original to see that a property notices the defect.          *)

\* The barrier goes on with the replicas that did not fail.
CloseBarrier_DropsFailed ==
  /\ phase = "barrier"
  /\ \A r \in due : run[r] \in {"sealed", "raised"}
  /\ due' = {r \in due : run[r] = "sealed"}
  /\ Goto("fill")
  /\ UNCHANGED <<commands, round, loaded, data, run, result, collected, candidates,
                 copied, disk>>

\* The barrier waits for every replica to seal a result, failed ones included.
CloseBarrier_WaitsForFailed ==
  /\ phase = "barrier"
  /\ \A r \in due : run[r] = "sealed"
  /\ Goto("fill")
  /\ UNCHANGED <<commands, round, due, loaded, data, run, result, collected,
                 candidates, copied, disk>>

\* A staged decision of an earlier attempt is overwritten.
CanStage_Overwrites(r) == outbox[r] = result[r].decision

\* The second read of the outbox is not compared with the sealed hash.
CanStage_TrustsOutbox(r) == outbox[r] # None /\ staged[round][r] = None

\* Only replicas that traded get a candidate book.
Evaluate_OnlyTraders ==
  /\ phase = "collect"
  /\ collected = due
  /\ \A r \in due : result[r].outcome \in {"completed", "refusal"} \cup HoldOutcomes
  /\ candidates' = [r \in {s \in due : result[s].outcome = "completed"} |-> loaded[r]]
  /\ Goto("publish")
  /\ UNCHANGED <<commands, round, due, loaded, data, run, result, collected, copied, disk>>

\* A round committed before is copied again instead of refused.
Commit_CopiesAgain ==
  /\ phase = "commit"
  /\ archive' = IF archive[round] = None
                  THEN [archive EXCEPT ![round] = candidates]
                  ELSE archive
  /\ publishing' = publishing \ {round}
  /\ due' = DOMAIN archive'[round]
  /\ Goto("copy")
  /\ UNCHANGED <<commands, round, loaded, data, run, result, collected, candidates,
                 copied, survivors, outbox, staged, live, paused>>

-----------------------------------------------------------------------------
(* Before the agents start *)

\* The command reads the books it will evaluate against now, before it waits
\* for the agents.  A live round goes through preflight and the tape; a
\* recorded one brings both with it and starts at the barrier.
StartCommand(k, D, first) ==
  /\ phase = "idle"
  /\ commands < MaxCommands
  /\ commands' = commands + 1
  /\ Goto(first)
  /\ round' = k
  /\ due' = D
  /\ loaded' = live
  /\ run' = [r \in Replica |-> IF r \in D THEN "waiting" ELSE "none"]
  /\ UNCHANGED <<data, result, collected, candidates, copied, disk>>

\* Every due replica is ready and the snapshot data is there.
PreflightReady ==
  /\ phase = "preflight"
  /\ Goto("tape")
  /\ UNCHANGED <<commands, round, due, loaded, data, run, result, collected,
                 candidates, copied, disk>>

\* Some due replica is not ready, or the data is unavailable.
PreflightPauses ==
  /\ phase = "preflight"
  /\ paused' = paused \cup {round}
  /\ Forget
  /\ UNCHANGED <<commands, survivors, outbox, staged, publishing, archive, live>>

\* publish_round rewrites the state files of every workspace; it creates
\* outbox/ but leaves a decision that is already there.
PublishTape ==
  /\ phase = "tape"
  /\ Goto("barrier")
  /\ UNCHANGED <<commands, round, due, loaded, data, run, result, collected,
                 candidates, copied, disk>>

\* The snapshot turned stale meanwhile: "paused", with no pause event.
TapeUnavailable ==
  /\ phase = "tape"
  /\ Forget
  /\ UNCHANGED <<commands, disk>>

-----------------------------------------------------------------------------
(* The decision barrier: one thread per due replica *)

\* The adapter refuses a workspace that still has a decision, and may refuse
\* for reasons of its own (session, executable).
Launch(r) ==
  /\ phase = "barrier"
  /\ run[r] = "waiting"
  /\ \E next \in {"running", "raised"} :
       /\ outbox[r] # None => next = "raised"
       /\ run' = [run EXCEPT ![r] = next]
  /\ UNCHANGED <<commands, phase, round, due, loaded, data, result, collected,
                 candidates, copied, disk>>

\* The agent process ends by itself or is killed at the deadline; either way
\* processes it started outside its group, or any it leaves when it ends by
\* itself, live on.
Exit(r) ==
  /\ phase = "barrier"
  /\ run[r] = "running"
  /\ \E how \in {"exited", "timed_out"} : run' = [run EXCEPT ![r] = how]
  /\ \E left \in {{}, {round}} : survivors' = [survivors EXCEPT ![r] = @ \cup left]
  /\ UNCHANGED <<commands, phase, round, due, loaded, data, result, collected,
                 candidates, copied, outbox, staged, publishing, archive, live, paused>>

\* What the adapter may make of a finished process, given what it finds in the
\* outbox: a provider error on its output wins over everything else, and an
\* output it cannot parse is a runner_error.
OutcomesOf(how, bytes) ==
  {"refusal", "runner_error"} \cup SharedVoidOutcomes \cup
  (CASE how = "timed_out" -> {"timeout"}
     [] how = "exited" -> {IF bytes = None THEN "missing_decision" ELSE "completed"})

\* The adapter hashes the outbox once, after the process has ended.
Seal(r) ==
  /\ phase = "barrier"
  /\ run[r] \in {"exited", "timed_out"}
  /\ \E outcome \in OutcomesOf(run[r], outbox[r]) :
       result' = [result EXCEPT ![r] = [outcome |-> outcome, decision |-> outbox[r]]]
  /\ run' = [run EXCEPT ![r] = "sealed"]
  /\ UNCHANGED <<commands, phase, round, due, loaded, data, collected, candidates,
                 copied, disk>>

\* The archive or the session store refuses, or a collector thread hangs.
SealRaises(r) ==
  /\ phase = "barrier"
  /\ run[r] \in {"exited", "timed_out"}
  /\ run' = [run EXCEPT ![r] = "raised"]
  /\ UNCHANGED <<commands, phase, round, due, loaded, data, result, collected,
                 candidates, copied, disk>>

\* wait(futures): nothing happens before every thread is done; one exception
\* fails the command.
CloseBarrier ==
  /\ phase = "barrier"
  /\ \A r \in due : run[r] \in {"sealed", "raised"}
  /\ IF \A r \in due : run[r] = "sealed"
       THEN Goto("fill") /\ UNCHANGED <<round, due, loaded, data, run, result,
                                        collected, candidates, copied>>
       ELSE Forget
  /\ UNCHANGED <<commands, disk>>

-----------------------------------------------------------------------------
(* After the barrier *)

\* The bars of the reference minute arrive, or they do not.
FetchFillBars ==
  /\ phase = "fill"
  /\ data' \in DataStatus
  /\ Goto("collect")
  /\ UNCHANGED <<commands, round, due, loaded, run, result, collected, candidates,
                 copied, disk>>

Treatment == RoundTreatment([r \in due |-> result[r].outcome], data)
TreatmentOf(r) == ReplicaTreatment(Treatment, result[r].outcome)

ShouldStage(r) ==
  \/ TreatmentOf(r) = "evaluate"
  \/ TreatmentOf(r) = "voided" /\ result[r].decision # None

\* The outbox is read a second time and must still have the sealed hash; the
\* staged path must be free.
CanStage(r) == outbox[r] = result[r].decision /\ staged[round][r] = None

CollectOne(r) ==
  /\ phase = "collect"
  /\ r \in due \ collected
  /\ ShouldStage(r) => CanStage(r)
  /\ staged' = IF ShouldStage(r) THEN [staged EXCEPT ![round][r] = outbox[r]] ELSE staged
  /\ collected' = collected \cup {r}
  /\ UNCHANGED <<commands, phase, round, due, loaded, data, run, result, candidates,
                 copied, survivors, outbox, publishing, archive, live, paused>>

CollectRaises(r) ==
  /\ phase = "collect"
  /\ r \in due \ collected
  /\ ShouldStage(r) /\ ~CanStage(r)
  /\ Forget
  /\ UNCHANGED <<commands, disk>>

\* A decision of another round, or none at all, trades nothing.
Traded(r) ==
  IF TreatmentOf(r) = "evaluate" /\ staged[round][r] \in [round : {round}, version : Version]
    THEN {staged[round][r]}
    ELSE {}

\* cmd_run_round passes no fills, so every candidate starts from an empty
\* fills file.
Candidate(r) ==
  [portfolio |-> loaded[r].portfolio \cup Traded(r), fills |-> Traded(r)]

Evaluate ==
  /\ phase = "collect"
  /\ collected = due
  /\ Treatment = "evaluate"
  /\ candidates' = [r \in due |-> Candidate(r)]
  /\ Goto("publish")
  /\ UNCHANGED <<commands, round, due, loaded, data, run, result, collected, copied, disk>>

\* A voided round, or an exception of the kernel: nothing is published.
NotCommitted ==
  /\ phase = "collect"
  /\ collected = due
  /\ Forget
  /\ UNCHANGED <<commands, disk>>

-----------------------------------------------------------------------------
(* Publication; module Publication has its file operations *)

StageBooks ==
  /\ phase = "publish"
  /\ IF round \notin publishing
       THEN /\ publishing' = publishing \cup {round}
            /\ Goto("commit")
            /\ UNCHANGED <<round, due, loaded, data, run, result, collected,
                           candidates, copied>>
       ELSE Forget /\ UNCHANGED publishing
  /\ UNCHANGED <<commands, survivors, outbox, staged, archive, live, paused>>

Commit ==
  /\ phase = "commit"
  /\ IF archive[round] = None
       THEN /\ archive' = [archive EXCEPT ![round] = candidates]
            /\ publishing' = publishing \ {round}
            /\ Goto("copy")
            /\ UNCHANGED <<round, due, loaded, data, run, result, collected,
                           candidates, copied>>
       ELSE Forget /\ UNCHANGED <<archive, publishing>>
  /\ UNCHANGED <<commands, survivors, outbox, staged, live, paused>>

CopyBook(r) ==
  /\ phase = "copy"
  /\ r \in due \ copied
  /\ live' = [live EXCEPT ![r] = archive[round][r]]
  /\ copied' = copied \cup {r}
  /\ UNCHANGED <<commands, phase, round, due, loaded, data, run, result, collected,
                 candidates, survivors, outbox, staged, publishing, archive, paused>>

Committed ==
  /\ phase = "copy"
  /\ copied = due
  /\ Forget
  /\ UNCHANGED <<commands, disk>>

-----------------------------------------------------------------------------
(* The surroundings *)

WriteDecision(r) ==
  /\ phase = "barrier"
  /\ run[r] = "running"
  /\ \E bytes \in [round : {round}, version : Version] \cup {Malformed} :
       outbox' = [outbox EXCEPT ![r] = bytes]
  /\ UNCHANGED <<commands, command, survivors, staged, publishing, archive, live, paused>>

\* A process left over from an earlier agent still has the outbox open.
SurvivorWrites(r) ==
  /\ \E k \in survivors[r], v \in Version :
       outbox' = [outbox EXCEPT ![r] = [round |-> k, version |-> v]]
  /\ UNCHANGED <<commands, command, survivors, staged, publishing, archive, live, paused>>

\* The command raises or is killed.  Agents run in sessions of their own, so
\* those still running are not stopped with it.
Stop ==
  /\ phase # "idle"
  /\ survivors' = [r \in Replica |->
                     survivors[r] \cup IF run[r] = "running" THEN {round} ELSE {}]
  /\ Forget
  /\ UNCHANGED <<commands, outbox, staged, publishing, archive, live, paused>>

\* The same while a decision is being staged: part of it stays behind.
StopStaging(r) ==
  /\ phase = "collect"
  /\ r \in due \ collected
  /\ ShouldStage(r) /\ CanStage(r)
  /\ staged' = [staged EXCEPT ![round][r] = Malformed]
  /\ Forget
  /\ UNCHANGED <<commands, survivors, outbox, publishing, archive, live, paused>>

\* Nothing in the program empties an outbox: the operator does, between rounds.
ClearOutbox(r) ==
  /\ phase = "idle"
  /\ outbox[r] # None
  /\ outbox' = [outbox EXCEPT ![r] = None]
  /\ UNCHANGED <<commands, command, survivors, staged, publishing, archive, live, paused>>

-----------------------------------------------------------------------------

\* The steps of a command, which wait for nobody but the deadline.
Step ==
  \/ PreflightReady
  \/ PreflightPauses
  \/ PublishTape
  \/ TapeUnavailable
  \/ \E r \in due : Launch(r) \/ Exit(r) \/ Seal(r) \/ SealRaises(r)
  \/ CloseBarrier
  \/ FetchFillBars
  \/ \E r \in due : CollectOne(r) \/ CollectRaises(r)
  \/ Evaluate
  \/ NotCommitted
  \/ StageBooks
  \/ Commit
  \/ \E r \in due : CopyBook(r)
  \/ Committed

Surroundings ==
  \/ \E r \in Replica : WriteDecision(r) \/ SurvivorWrites(r) \/ ClearOutbox(r)
  \/ Stop
  \/ \E r \in due : StopStaging(r)

Next ==
  \/ \E k \in Round, D \in (SUBSET Replica) \ {{}}, first \in {"preflight", "barrier"} :
       StartCommand(k, D, first)
  \/ Step
  \/ Surroundings

Spec == Init /\ [][Next]_vars

\* The threads of a command are scheduled and every deadline passes.
FairSpec == Spec /\ WF_vars(Step)

-----------------------------------------------------------------------------
(* Properties *)

TypeOK ==
  /\ commands \in 0..MaxCommands
  /\ phase \in {"idle", "preflight", "tape", "barrier", "fill", "collect",
                "publish", "commit", "copy"}
  /\ round \in Nat
  /\ phase # "idle" => round \in Round
  /\ due \in SUBSET Replica
  /\ loaded \in [Replica -> Book]
  /\ data \in DataStatus
  /\ run \in [Replica -> {"none", "waiting", "running", "exited", "timed_out",
                          "sealed", "raised"}]
  /\ result \in [Replica -> Result \cup {None}]
  /\ collected \in SUBSET due
  /\ candidates = None \/ IsArchive(candidates)
  /\ copied \in SUBSET due
  /\ survivors \in [Replica -> SUBSET Round]
  /\ outbox \in [Replica -> Bytes \cup {None}]
  /\ staged \in [Round -> [Replica -> Bytes \cup {None}]]
  /\ publishing \in SUBSET Round
  /\ archive = [k \in Round |-> archive[k]]
  /\ \A k \in Round : archive[k] = None \/ IsArchive(archive[k])
  /\ live \in [Replica -> Book]
  /\ paused \in SUBSET Round

\* Every decision ever traded in an authoritative book is on disk in the
\* staging root, under its own round and replica: none is traded outside the
\* round it was written for, none twice, none that was not collected, and no
\* rerun replaces the evidence.
TradesAreStaged ==
  \A r \in Replica : \A d \in live[r].portfolio : staged[d.round][r] = d

\* What collection has staged for the running command is, byte for byte, what
\* the runner hashed, although agents and their leftovers may go on writing.
StagedIsSealed ==
  \A r \in collected : ShouldStage(r) => staged[round][r] = result[r].decision

\* Sealed until everyone is done: while some replica the command set out with
\* has no sealed result (its agent still runs, or its runner failed), no
\* decision is exposed in the staging root, no round is archived and no book
\* changes.
Field == {r \in Replica : run[r] # "none"}

NothingBeforeTheBarrier ==
  [][(\E r \in Field : run[r] # "sealed") => UNCHANGED <<staged, archive, live>>]_vars

\* A round is archived only for the complete field, when none of it met a
\* shared failure or a runner error, and with market data; a book gains at most
\* the sealed decision of its own replica, and only if that replica completed.
CommitsAreClean ==
  [][\A k \in Round : archive'[k] # archive[k] =>
       /\ k = round
       /\ DOMAIN archive'[k] = Field
       /\ data = Available
       /\ \A r \in Field :
            /\ result[r].outcome \in {"completed", "refusal"} \cup HoldOutcomes
            /\ archive'[k][r].portfolio \ loaded[r].portfolio \subseteq
                 IF result[r].outcome = "completed" THEN {result[r].decision} ELSE {}]_vars

\* An authoritative portfolio never loses a trade, whatever is interrupted,
\* rerun or run out of order.
LiveGrows ==
  [][\A r \in Replica : live[r].portfolio \subseteq live'[r].portfolio]_vars

\* run-round always ends: at the latest the deadline ends the agents.
CommandsEnd == phase # "idle" ~> phase = "idle"
=============================================================================
