----------------------------- MODULE Publication -----------------------------
(***************************************************************************)
(* publish_candidates of src/arena_runtime/orchestrator.py, at the level   *)
(* of the file operations it performs under books_root:                    *)
(*                                                                         *)
(*   .staging/<round>/<replica>/{portfolio,fills,events}   written first   *)
(*   .committed/<round>/...            the staging tree, renamed in one step *)
(*   <replica>/{portfolio,fills,events}   copied from it, file by file     *)
(*                                                                         *)
(* A call may stop after any of these operations: the process is killed,   *)
(* or the operation raises OSError and nothing undoes the earlier ones.    *)
(* A file being written when it stops is left truncated (Torn).  Several   *)
(* operator processes may publish at once; nothing but the file system     *)
(* coordinates them.                                                       *)
(*                                                                         *)
(* The contents of a book are the number of the call that produced it.     *)
(***************************************************************************)
EXTENDS Integers, Sequences

CONSTANTS
  Publisher,    \* operator processes that call publish_candidates
  Round,        \* round identifiers
  Replica,      \* registered replicas
  Absent,       \* a directory that does not exist
  MaxCalls      \* bound on the calls of publish_candidates in one behaviour

File == {"portfolio", "fills", "events"}

\* The files of one replica that are written before file f.
Before(f) ==
  CASE f = "portfolio" -> {}
    [] f = "fills"     -> {"portfolio"}
    [] f = "events"    -> {"portfolio", "fills"}

NoFile == 0                    \* the file does not exist
Torn   == -1                   \* the write of the file did not finish
Call   == 1..MaxCalls
Content == Call \cup {NoFile, Torn}

\* A directory tree: <replica>/<file>.  A replica without a directory has
\* NoFile everywhere.
Tree == [Replica -> [File -> Content]]
\* One whose files, where there are any, are all finished.
FinishedTree == [Replica -> [File -> Call \cup {NoFile}]]
EmptyTree == [r \in Replica |-> [f \in File |-> NoFile]]

ASSUME PublicationAssumption ==
  /\ MaxCalls \in Nat
  /\ Absent \notin Tree

VARIABLES
  calls,      \* the candidate sets passed so far, one record per call
  pc,         \* pc[p]: where publisher p stands in publish_candidates
  job,        \* job[p]: the call publisher p is executing, 0 if none
  written,    \* written[p]: the files p has finished in its current loop
  staging,    \* staging[n]: .staging/<n>
  committed,  \* committed[n]: .committed/<n>
  live,       \* the authoritative books, books_root/<replica>/
  started,    \* started[n]: commit_started events for n in the audit log
  completed   \* completed[n]: commit_completed events for n

vars == <<calls, pc, job, written, staging, committed, live, started, completed>>

CandidateSet == [round : Round, due : (SUBSET Replica) \ {{}}]

Init ==
  /\ calls = <<>>
  /\ pc = [p \in Publisher |-> "idle"]
  /\ job = [p \in Publisher |-> 0]
  /\ written = [p \in Publisher |-> {}]
  /\ staging = [n \in Round |-> Absent]
  /\ committed = [n \in Round |-> Absent]
  /\ live = EmptyTree
  /\ started = [n \in Round |-> 0]
  /\ completed = [n \in Round |-> 0]

RoundOf(p) == calls[job[p]].round
DueOf(p)   == calls[job[p]].due

\* The complete tree of call c: every file of every candidate.
Whole(c) ==
  [r \in Replica |-> [f \in File |-> IF r \in calls[c].due THEN c ELSE NoFile]]

Goto(p, label) == pc' = [pc EXCEPT ![p] = label]

\* publish_candidates returns, raises or is killed.
Return(p) ==
  /\ Goto(p, "idle")
  /\ job' = [job EXCEPT ![p] = 0]
  /\ written' = [written EXCEPT ![p] = {}]

-----------------------------------------------------------------------------
(* Defective variants of the definitions below.  Nothing uses them; each one *)
(* replaces its original to see that a property notices the defect.          *)

\* mkdir(exist_ok=True): two publishers share one staging tree.
MakeStaging_SharesTree(p) ==
  /\ pc[p] = "make_staging"
  /\ staging' = IF staging[RoundOf(p)] = Absent
                  THEN [staging EXCEPT ![RoundOf(p)] = EmptyTree]
                  ELSE staging
  /\ Goto(p, "stage")
  /\ UNCHANGED <<calls, job, written, committed, live, started, completed>>

\* A leftover tree is taken over as it is.
CheckStaging_AdoptsTree(p) ==
  /\ pc[p] = "check_staging"
  /\ Goto(p, IF staging[RoundOf(p)] = Absent THEN "make_staging" ELSE "stage")
  /\ UNCHANGED <<calls, job, written, staging, committed, live, started, completed>>

\* An OSError of a staged write is logged, and the loop goes on.
TearStaged_GoesOn(p, r, f) ==
  /\ pc[p] = "stage"
  /\ r \in DueOf(p) /\ <<r, f>> \notin written[p]
  /\ staging' = [staging EXCEPT ![RoundOf(p)][r][f] = Torn]
  /\ written' = [written EXCEPT ![p] = @ \cup {<<r, f>>}]
  /\ UNCHANGED <<calls, pc, job, committed, live, started, completed>>

\* The authoritative file is written together with the staged one.
StageFile_WritesLive(p, r, f) ==
  /\ pc[p] = "stage"
  /\ r \in DueOf(p) /\ <<r, f>> \notin written[p]
  /\ staging' = [staging EXCEPT ![RoundOf(p)][r][f] = job[p]]
  /\ live' = [live EXCEPT ![r][f] = job[p]]
  /\ written' = [written EXCEPT ![p] = @ \cup {<<r, f>>}]
  /\ UNCHANGED <<calls, pc, job, committed, started, completed>>

\* The loop stops once every portfolio is there.
AllWritten_PortfoliosOnly(p) ==
  \A r \in DueOf(p) : <<r, "portfolio">> \in written[p]

\* A retry of an archived round resumes its copy.
CheckCommitted_Resumes(p) ==
  /\ pc[p] = "stage"
  /\ written[p] = DueOf(p) \X File
  /\ IF committed[RoundOf(p)] = Absent
       THEN Goto(p, "rename") /\ UNCHANGED written
       ELSE Goto(p, "copy") /\ written' = [written EXCEPT ![p] = {}]
  /\ UNCHANGED <<calls, job, staging, committed, live, started, completed>>

\* The archived file is moved, not copied.
CopyFile_Moves(p, r, f) ==
  /\ pc[p] = "copy"
  /\ r \in DueOf(p) /\ <<r, f>> \notin written[p]
  /\ live' = [live EXCEPT ![r][f] = committed[RoundOf(p)][r][f]]
  /\ committed' = [committed EXCEPT ![RoundOf(p)][r][f] = NoFile]
  /\ written' = [written EXCEPT ![p] = @ \cup {<<r, f>>}]
  /\ UNCHANGED <<calls, pc, job, staging, started, completed>>

\* commit_completed is logged right after the rename.
Complete_BeforeCopy(p) ==
  /\ pc[p] = "copy"
  /\ completed' = [completed EXCEPT ![RoundOf(p)] = @ + 1]
  /\ Return(p)
  /\ UNCHANGED <<calls, staging, committed, live, started>>

-----------------------------------------------------------------------------
(* The steps of one call. *)

\* An unpublishable set returns before any effect and is no step here.
Begin(p, set) ==
  /\ pc[p] = "idle"
  /\ Len(calls) < MaxCalls
  /\ calls' = Append(calls, set)
  /\ job' = [job EXCEPT ![p] = Len(calls) + 1]
  /\ started' = [started EXCEPT ![set.round] = @ + 1]
  /\ Goto(p, "check_staging")
  /\ UNCHANGED <<written, staging, committed, live, completed>>

\* "publication staging already exists" unless the path is free.
CheckStaging(p) ==
  /\ pc[p] = "check_staging"
  /\ IF staging[RoundOf(p)] = Absent
       THEN Goto(p, "make_staging") /\ UNCHANGED <<job, written>>
       ELSE Return(p)
  /\ UNCHANGED <<calls, staging, committed, live, started, completed>>

\* mkdir without exist_ok: a directory another process made meanwhile raises.
MakeStaging(p) ==
  /\ pc[p] = "make_staging"
  /\ IF staging[RoundOf(p)] = Absent
       THEN /\ staging' = [staging EXCEPT ![RoundOf(p)] = EmptyTree]
            /\ Goto(p, "stage")
            /\ UNCHANGED <<job, written>>
       ELSE Return(p) /\ UNCHANGED staging
  /\ UNCHANGED <<calls, committed, live, started, completed>>

\* The loops over the candidates finish one replica before the next, and its
\* files in order; which replica comes next is the order of the candidates
\* (staging) or of the directory listing (copying).
IsNextFile(p, r, f) ==
  /\ r \in DueOf(p)
  /\ <<r, f>> \notin written[p]
  /\ \A g \in Before(f) : <<r, g>> \in written[p]
  /\ \A s \in Replica \ {r} :
       <<s, "portfolio">> \in written[p] => <<s, "events">> \in written[p]

AllWritten(p) == written[p] = DueOf(p) \X File

StageFile(p, r, f) ==
  /\ pc[p] = "stage"
  /\ IsNextFile(p, r, f)
  /\ staging' = [staging EXCEPT ![RoundOf(p)][r][f] = job[p]]
  /\ written' = [written EXCEPT ![p] = @ \cup {<<r, f>>}]
  /\ UNCHANGED <<calls, pc, job, committed, live, started, completed>>

\* "round already committed" unless the archive has no such round; the
\* staging tree stays behind when it raises.
CheckCommitted(p) ==
  /\ pc[p] = "stage"
  /\ AllWritten(p)
  /\ IF committed[RoundOf(p)] = Absent
       THEN Goto(p, "rename") /\ UNCHANGED <<job, written>>
       ELSE Return(p)
  /\ UNCHANGED <<calls, staging, committed, live, started, completed>>

\* staging.replace(committed): one step, and never onto a nonempty directory.
Rename(p) ==
  /\ pc[p] = "rename"
  /\ committed[RoundOf(p)] = Absent
  /\ committed' = [committed EXCEPT ![RoundOf(p)] = staging[RoundOf(p)]]
  /\ staging' = [staging EXCEPT ![RoundOf(p)] = Absent]
  /\ written' = [written EXCEPT ![p] = {}]
  /\ Goto(p, "copy")
  /\ UNCHANGED <<calls, job, live, started, completed>>

CopyFile(p, r, f) ==
  /\ pc[p] = "copy"
  /\ IsNextFile(p, r, f)
  /\ live' = [live EXCEPT ![r][f] = committed[RoundOf(p)][r][f]]
  /\ written' = [written EXCEPT ![p] = @ \cup {<<r, f>>}]
  /\ UNCHANGED <<calls, pc, job, staging, committed, started, completed>>

Complete(p) ==
  /\ pc[p] = "copy"
  /\ AllWritten(p)
  /\ completed' = [completed EXCEPT ![RoundOf(p)] = @ + 1]
  /\ Return(p)
  /\ UNCHANGED <<calls, staging, committed, live, started>>

-----------------------------------------------------------------------------
(* Stopping early: the process dies, or OSError propagates. *)

Interrupt(p) ==
  /\ pc[p] # "idle"
  /\ Return(p)
  /\ UNCHANGED <<calls, staging, committed, live, started, completed>>

TearStaged(p, r, f) ==
  /\ pc[p] = "stage"
  /\ IsNextFile(p, r, f)
  /\ staging' = [staging EXCEPT ![RoundOf(p)][r][f] = Torn]
  /\ Return(p)
  /\ UNCHANGED <<calls, committed, live, started, completed>>

TearLive(p, r, f) ==
  /\ pc[p] = "copy"
  /\ IsNextFile(p, r, f)
  /\ live' = [live EXCEPT ![r][f] = Torn]
  /\ Return(p)
  /\ UNCHANGED <<calls, staging, committed, started, completed>>

-----------------------------------------------------------------------------

Step(p) ==
  \/ CheckStaging(p)
  \/ MakeStaging(p)
  \/ \E r \in Replica, f \in File : StageFile(p, r, f)
  \/ CheckCommitted(p)
  \/ Rename(p)
  \/ \E r \in Replica, f \in File : CopyFile(p, r, f)
  \/ Complete(p)

Stop(p) ==
  \/ Interrupt(p)
  \/ \E r \in Replica, f \in File : TearStaged(p, r, f) \/ TearLive(p, r, f)

Next ==
  \E p \in Publisher :
    \/ \E set \in CandidateSet : Begin(p, set)
    \/ Step(p)
    \/ Stop(p)

Spec == Init /\ [][Next]_vars

-----------------------------------------------------------------------------
(* Properties *)

\* A file that was cut short may be staged or live, but is never archived.
TypeOK ==
  /\ calls \in Seq(CandidateSet)
  /\ Len(calls) <= MaxCalls
  /\ pc \in [Publisher -> {"idle", "check_staging", "make_staging", "stage",
                           "rename", "copy"}]
  /\ job \in [Publisher -> 0..MaxCalls]
  /\ written \in [Publisher -> SUBSET (Replica \X File)]
  /\ staging \in [Round -> Tree \cup {Absent}]
  /\ committed \in [Round -> FinishedTree \cup {Absent}]
  /\ live \in Tree
  /\ started \in [Round -> Nat]
  /\ completed \in [Round -> Nat]

\* A committed round is always one call's complete candidate set: however
\* calls race, crash or leave torn files behind, .committed/<round> holds
\* every file of every candidate of a single call for that round and nothing
\* else.  (_stage_candidate_set and _finalize_candidate_publication.)
CommittedWhole ==
  \A n \in Round :
    committed[n] # Absent =>
      \E c \in 1..Len(calls) : calls[c].round = n /\ committed[n] = Whole(c)

\* No authoritative file ever holds a book that is not already durable in the
\* archive of its round: the copy into <replica>/ follows the rename.
LiveIsArchived ==
  \A r \in Replica, f \in File :
    live[r][f] \in Call =>
      /\ live[r][f] <= Len(calls)
      /\ r \in calls[live[r][f]].due
      /\ committed[calls[live[r][f]].round] = Whole(live[r][f])

\* The audit log never announces a publication twice, nor one whose archive
\* is missing: at most one of all calls for a round gets past the rename.
CompletedOnce ==
  \A n \in Round :
    /\ completed[n] <= 1
    /\ completed[n] = 1 => committed[n] # Absent

\* An archived round is final: reconstruct_published_round returns the same
\* books for ever, whatever later calls for the round do.
ArchiveFinal ==
  [][\A n \in Round : committed[n] # Absent => committed'[n] = committed[n]]_vars

\* A staging tree left behind by an interrupted call stays as it is: no later
\* call adopts, completes, clears or publishes it, so its round can never be
\* archived after that.
Orphaned(n) ==
  /\ staging[n] # Absent
  /\ \A p \in Publisher : pc[p] \in {"stage", "rename"} => RoundOf(p) # n

OrphanNeverPublished ==
  [][\A n \in Round :
       Orphaned(n) => /\ Orphaned(n)'
                      /\ staging'[n] = staging[n]
                      /\ committed'[n] = committed[n]]_vars

\* With one operator process: when nobody is publishing and every archived
\* round has its commit_completed event, the authoritative books are, file by
\* file, those of the last archived round of each replica.  The audit log is
\* thus enough to tell whether the live books can be trusted.
Published(r) ==
  {c \in 1..Len(calls) : /\ r \in calls[c].due
                         /\ committed[calls[c].round] = Whole(c)}

Latest(r) ==
  IF Published(r) = {} THEN NoFile
  ELSE CHOOSE c \in Published(r) : \A d \in Published(r) : d <= c

AtRest == \A p \in Publisher : pc[p] = "idle"

AuditedLiveIsLatest ==
  /\ AtRest
  /\ \A n \in Round : committed[n] # Absent => completed[n] = 1
  => \A r \in Replica, f \in File : live[r][f] = Latest(r)

\* "Publish every candidate together, or change no authoritative book"
\* (publish_candidates, with one operator process): once no call is running,
\* a call whose book shows in one authoritative file shows in all of them,
\* unless a later call replaced it.
EveryBookOrNone ==
  AtRest =>
    \A c \in 1..Len(calls) :
      (\E r \in Replica, f \in File : live[r][f] = c) =>
        \A r \in calls[c].due, f \in File : live[r][f] >= c

\* The archive implements AtomicBooks: the staging, the crashes, the races and
\* the copy are invisible in it.
ArchiveOf(n) ==
  IF committed[n] = Absent THEN Absent
  ELSE [r \in {s \in Replica : committed[n][s]["portfolio"] # NoFile} |->
          committed[n][r]]

Atomic == INSTANCE AtomicBooks
            WITH Book <- {[f \in File |-> c] : c \in Call},
                 archive <- [n \in Round |-> ArchiveOf(n)]

ArchiveIsAtomic == Atomic!Spec
=============================================================================
