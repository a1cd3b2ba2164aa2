------------------------- MODULE ProcessSupervisor -------------------------
(***************************************************************************)
(* run_process of src/arena_runtime/process.py on POSIX: one call of the   *)
(* supervisor, the tree of processes it launches and the two collector     *)
(* threads that drain the tree's stdout and stderr.                        *)
(*                                                                         *)
(* The tree does what it likes: it forks, writes, closes its streams,      *)
(* leaves the process group with setsid, and exits.  The supervisor only   *)
(* sees the leader.  Every wait of the supervisor has a time limit, which  *)
(* here may expire at any moment.                                          *)
(*                                                                         *)
(* Bytes are counted, never told apart: a pipe is a queue with one reader, *)
(* so what is captured is a prefix of what was written.                    *)
(***************************************************************************)
EXTENDS Integers

CONSTANTS
  Leader,       \* the process launched
  Descendant,   \* the processes its tree may come to have
  Limit,        \* Limit[s]: stdout_limit or stderr_limit
  PipeSize,     \* capacity of an operating-system pipe
  MaxWritten    \* bound on the bytes written to one stream

Proc   == {Leader} \cup Descendant
Stream == {"stdout", "stderr"}

ASSUME SupervisorAssumption ==
  /\ Leader \notin Descendant
  /\ Limit \in [Stream -> Nat]
  /\ PipeSize \in Nat \ {0}
  /\ MaxWritten \in Nat

VARIABLES
  pc,         \* where the call stands
  attempt,    \* which of its three calls of _terminate_process_tree it is in
  timedOut,   \* its local timed_out
  killed,     \* who it has sent SIGKILL to: "nobody", "leader" or "group"
  status,     \* status[p]: of process p
  escaped,    \* the processes that have left the group of the leader
  holds,      \* holds[p]: the streams p has open for writing
  pipe,       \* pipe[s]: bytes written to s and not yet read
  written,    \* written[s]: bytes ever written to s
  captured,   \* captured[s]: length of the collector's _buffer
  truncated,  \* truncated[s]: its _truncated
  reader      \* reader[s]: its thread

call      == <<pc, attempt, timedOut>>
tree      == <<status, escaped, holds>>
collector == <<captured, truncated, reader>>
vars == <<call, killed, tree, pipe, written, collector>>

Least(a, b) == IF a < b THEN a ELSE b

Live(p)  == status[p] \in {"running", "signalled"}
InGroup(p) == p \notin escaped

TypeOK ==
  /\ pc \in {"launch", "wait", "terminate", "killwait", "reap",
             "stdout", "stderr", "returned", "raised"}
  /\ attempt \in 1..3
  /\ timedOut \in BOOLEAN
  /\ killed \in {"nobody", "leader", "group"}
  /\ status \in [Proc -> {"unborn", "running", "signalled", "dead"}]
  /\ escaped \subseteq Descendant
  /\ holds \in [Proc -> SUBSET Stream]
  /\ pipe \in [Stream -> 0..PipeSize]
  /\ written \in [Stream -> 0..MaxWritten]
  /\ captured \in [Stream -> Nat]
  /\ \A s \in Stream : captured[s] <= Limit[s]
  /\ truncated \in [Stream -> BOOLEAN]
  /\ reader \in [Stream -> {"unstarted", "draining", "done", "failed"}]

Init ==
  /\ pc = "launch" /\ attempt = 1
  /\ timedOut = FALSE
  /\ killed = "nobody"
  /\ status = [p \in Proc |-> "unborn"]
  /\ escaped = {}
  /\ holds = [p \in Proc |-> {}]
  /\ pipe = [s \in Stream |-> 0]
  /\ written = [s \in Stream |-> 0]
  /\ captured = [s \in Stream |-> 0]
  /\ truncated = [s \in Stream |-> FALSE]
  /\ reader = [s \in Stream |-> "unstarted"]

-----------------------------------------------------------------------------
(* The supervised tree and the kernel *)

\* p forks q, which inherits its group and its open streams.
Fork(p, q) ==
  /\ status[p] = "running"
  /\ status[q] = "unborn"
  /\ status' = [status EXCEPT ![q] = "running"]
  /\ holds' = [holds EXCEPT ![q] = holds[p]]
  /\ escaped' = IF p \in escaped THEN escaped \cup {q} ELSE escaped
  /\ UNCHANGED <<call, killed, pipe, written, collector>>

\* setsid: a new session, out of reach of killpg.  The leader, which leads a
\* session already (start_new_session), cannot.
Escape(p) ==
  /\ p \in Descendant /\ InGroup(p)
  /\ status[p] = "running"
  /\ escaped' = escaped \cup {p}
  /\ UNCHANGED <<call, killed, status, holds, pipe, written, collector>>

Write(p, s) ==
  /\ status[p] = "running"
  /\ s \in holds[p]
  /\ reader[s] = "draining"          \* else EPIPE
  /\ pipe[s] < PipeSize              \* else the write blocks
  /\ written[s] < MaxWritten
  /\ pipe' = [pipe EXCEPT ![s] = @ + 1]
  /\ written' = [written EXCEPT ![s] = @ + 1]
  /\ UNCHANGED <<call, killed, tree, collector>>

CloseStream(p, s) ==
  /\ status[p] = "running"
  /\ s \in holds[p]
  /\ holds' = [holds EXCEPT ![p] = @ \ {s}]
  /\ UNCHANGED <<call, killed, status, escaped, pipe, written, collector>>

\* p exits by itself, or a SIGKILL sent to it takes effect.
Die(p) ==
  /\ Live(p)
  /\ status' = [status EXCEPT ![p] = "dead"]
  /\ holds' = [holds EXCEPT ![p] = {}]
  /\ UNCHANGED <<call, killed, escaped, pipe, written, collector>>

-----------------------------------------------------------------------------
(* _BoundedCollector._drain *)

\* The buffer takes the whole chunk.
Drain_KeepsChunk(s) ==
  /\ reader[s] = "draining"
  /\ \E chunk \in 1..pipe[s] :
       LET remaining == Limit[s] - captured[s] IN
       /\ pipe' = [pipe EXCEPT ![s] = @ - chunk]
       /\ captured' = [captured EXCEPT ![s] = @ + chunk]
       /\ truncated' = [truncated EXCEPT ![s] = @ \/ chunk > remaining]
  /\ UNCHANGED <<call, killed, tree, written, reader>>

\* The loop stops reading when the buffer is full.
Drain_StopsAtLimit(s) ==
  /\ reader[s] = "draining"
  /\ captured[s] < Limit[s]
  /\ \E chunk \in 1..pipe[s] :
       LET remaining == Limit[s] - captured[s] IN
       /\ pipe' = [pipe EXCEPT ![s] = @ - chunk]
       /\ captured' = [captured EXCEPT ![s] = @ + Least(chunk, remaining)]
       /\ truncated' = [truncated EXCEPT ![s] = @ \/ chunk > remaining]
  /\ UNCHANGED <<call, killed, tree, written, reader>>

\* read returns some of the bytes in the pipe; what exceeds the limit is
\* dropped, and the loop goes on reading so that the writers never block.
Drain(s) ==
  /\ reader[s] = "draining"
  /\ \E chunk \in 1..pipe[s] :
       LET remaining == Limit[s] - captured[s] IN
       /\ pipe' = [pipe EXCEPT ![s] = @ - chunk]
       /\ captured' = [captured EXCEPT ![s] = @ + Least(chunk, remaining)]
       /\ truncated' = [truncated EXCEPT ![s] = @ \/ chunk > remaining]
  /\ UNCHANGED <<call, killed, tree, written, reader>>

\* read returns no bytes: the pipe is empty and no process can write to it.
EndOfStream(s) ==
  /\ reader[s] = "draining"
  /\ pipe[s] = 0
  /\ \A p \in Proc : s \notin holds[p]
  /\ reader' = [reader EXCEPT ![s] = "done"]
  /\ UNCHANGED <<call, killed, tree, pipe, written, captured, truncated>>

\* read raises OSError, which is kept for finish; the stream is closed.
ReadFails(s) ==
  /\ reader[s] = "draining"
  /\ reader' = [reader EXCEPT ![s] = "failed"]
  /\ pipe' = [pipe EXCEPT ![s] = 0]
  /\ UNCHANGED <<call, killed, tree, written, captured, truncated>>

-----------------------------------------------------------------------------
(* run_process *)

Goto(l) == pc' = l

Launch ==
  /\ pc = "launch"
  /\ Goto("wait")
  /\ status' = [status EXCEPT ![Leader] = "running"]
  /\ holds' = [holds EXCEPT ![Leader] = Stream]
  /\ reader' = [s \in Stream |-> "draining"]
  /\ UNCHANGED <<attempt, timedOut, killed, escaped, pipe, written, captured, truncated>>

\* Bad arguments, a deadline in the past or an executable that cannot be run.
LaunchFails ==
  /\ pc = "launch"
  /\ Goto("raised")
  /\ UNCHANGED <<attempt, timedOut, killed, tree, pipe, written, collector>>

\* process.wait returns, the finally clause finds the leader reaped.
Reaped ==
  /\ pc \in {"wait", "reap"}
  /\ status[Leader] = "dead"
  /\ Goto("stdout")
  /\ UNCHANGED <<attempt, timedOut, killed, tree, pipe, written, collector>>

\* The deadline passes.  The leader may still exit before it is looked at
\* again, by _terminate_process_tree.
Deadline ==
  /\ pc = "wait"
  /\ Goto("terminate")
  /\ timedOut' = TRUE
  /\ UNCHANGED <<attempt, killed, tree, pipe, written, collector>>

\* Where a call of _terminate_process_tree returns to: the first, after the
\* deadline, to the code that reaps the leader; the second, after reaping has
\* failed, to the finally clause, which makes the third if the leader is still
\* not dead; the third to the exception that is being raised.
AfterTerminate ==
  \/ attempt = 1 /\ Goto("reap") /\ UNCHANGED attempt
  \/ attempt = 2 /\ status[Leader] = "dead" /\ Goto("raised") /\ UNCHANGED attempt
  \/ attempt = 2 /\ status[Leader] # "dead" /\ Goto("terminate") /\ attempt' = 3
  \/ attempt = 3 /\ Goto("raised") /\ UNCHANGED attempt

\* poll finds that the leader has exited: nothing is killed.
AlreadyGone ==
  /\ pc = "terminate"
  /\ status[Leader] = "dead"
  /\ AfterTerminate
  /\ UNCHANGED <<timedOut, killed, tree, pipe, written, collector>>

Signalled(P) ==
  status' = [p \in Proc |-> IF p \in P /\ Live(p) THEN "signalled" ELSE status[p]]

\* The leader alone is killed, its group survives.
KillGroup_LeaderOnly ==
  /\ pc = "terminate"
  /\ status[Leader] # "dead"
  /\ Signalled({Leader})
  /\ killed' = "group"
  /\ Goto("killwait")
  /\ UNCHANGED <<attempt, timedOut, escaped, holds, pipe, written, collector>>

KillGroup ==
  /\ pc = "terminate"
  /\ status[Leader] # "dead"
  /\ Signalled({p \in Proc : InGroup(p)})
  /\ killed' = "group"
  /\ Goto("killwait")
  /\ UNCHANGED <<attempt, timedOut, escaped, holds, pipe, written, collector>>

\* killpg raises OSError: only the leader is killed.
KillLeader ==
  /\ pc = "terminate"
  /\ status[Leader] # "dead"
  /\ Signalled({Leader})
  /\ killed' = IF killed = "group" THEN killed ELSE "leader"
  /\ Goto("killwait")
  /\ UNCHANGED <<attempt, timedOut, escaped, holds, pipe, written, collector>>

\* The leader is reaped, or ten seconds pass and process.kill signals it again.
KillWait ==
  /\ pc = "killwait"
  /\ AfterTerminate
  /\ UNCHANGED <<timedOut, killed, tree, pipe, written, collector>>

\* The leader has not died ten seconds later: "process tree did not terminate".
ReapExpires ==
  /\ pc = "reap"
  /\ status[Leader] # "dead"
  /\ Goto("terminate")
  /\ attempt' = 2
  /\ UNCHANGED <<timedOut, killed, tree, pipe, written, collector>>

\* An exception of another kind, KeyboardInterrupt, leaves the try block
\* through the finally clause.
Interrupt ==
  /\ pc \in {"wait", "terminate", "killwait", "reap"}
  /\ IF status[Leader] = "dead" \/ attempt = 3
     THEN Goto("raised") /\ UNCHANGED attempt
     ELSE Goto("terminate") /\ attempt' = 3
  /\ UNCHANGED <<timedOut, killed, tree, pipe, written, collector>>

\* A thread that outlives the join is not looked for.
Finish_TakesPartial(s) ==
  /\ pc = s
  /\ reader[s] # "failed"
  /\ Goto(IF s = "stdout" THEN "stderr" ELSE "returned")
  /\ UNCHANGED <<attempt, timedOut, killed, tree, pipe, written, collector>>

\* The join has no timeout.
FinishRaises_JoinsForever(s) ==
  /\ pc = s
  /\ reader[s] = "failed"
  /\ Goto("raised")
  /\ UNCHANGED <<attempt, timedOut, killed, tree, pipe, written, collector>>

\* _BoundedCollector.finish of the stream the call is at.
Finish(s) ==
  /\ pc = s
  /\ reader[s] = "done"
  /\ Goto(IF s = "stdout" THEN "stderr" ELSE "returned")
  /\ UNCHANGED <<attempt, timedOut, killed, tree, pipe, written, collector>>

\* The thread is still alive after ten seconds, or it has met an error.
FinishRaises(s) ==
  /\ pc = s
  /\ reader[s] # "done"
  /\ Goto("raised")
  /\ UNCHANGED <<attempt, timedOut, killed, tree, pipe, written, collector>>

-----------------------------------------------------------------------------

Tree ==
  \/ \E p \in Proc, q \in Descendant : Fork(p, q)
  \/ \E p \in Proc : Escape(p) \/ Die(p)
  \/ \E p \in Proc, s \in Stream : Write(p, s) \/ CloseStream(p, s)

Collect(s) == Drain(s) \/ EndOfStream(s) \/ ReadFails(s)

Supervise ==
  \/ Launch \/ LaunchFails \/ Reaped \/ Deadline
  \/ AlreadyGone \/ KillGroup \/ KillLeader \/ KillWait
  \/ ReapExpires \/ Interrupt
  \/ \E s \in Stream : Finish(s) \/ FinishRaises(s)

Next == Tree \/ Supervise \/ \E s \in Stream : Collect(s)

\* The supervisor's thread runs and its timers expire; a collector thread
\* that can read goes on reading.  Nothing is assumed of the tree.
Fairness ==
  /\ WF_vars(Supervise)
  /\ \A s \in Stream : WF_vars(Drain(s) \/ EndOfStream(s))

Spec == Init /\ [][Next]_vars /\ Fairness

-----------------------------------------------------------------------------

\* A result reports exactly what the whole tree ever wrote: the first bytes up
\* to the limit, marked truncated when and only when there were more.  It is
\* never a partial read, because no process is left that can write to either
\* stream.  (_drain, finish: the limit, the order of the two joins, the threads
\* that outlive the join.)
CaptureIsComplete ==
  pc = "returned" =>
    \A s \in Stream :
      /\ captured[s] = Least(written[s], Limit[s])
      /\ truncated[s] <=> (written[s] > Limit[s])
      /\ \A p \in Proc : s \notin holds[p]

\* Once the group has been killed it has no running member, now or later: a
\* process forked at that moment is killed too, and nobody joins it again.
\* (_terminate_process_tree: killpg, against killing the leader alone.)
KilledGroupGone ==
  killed = "group" => \A p \in Proc : InGroup(p) => status[p] # "running"

\* The call ends, by its result or by an exception, whatever the tree does:
\* every wait for the leader and for a collector is bounded.
Returns == <>(pc \in {"returned", "raised"})

\* The supervisor never wedges the agent: a full pipe is always drained, also
\* when the limit is reached and when the call has already given up.
NoBackPressure ==
  \A s \in Stream : pipe[s] = PipeSize ~> pipe[s] < PipeSize

\* PROTOCOL.md: "The process tree is terminated after every round".  The code
\* terminates it only when the leader outlives the deadline.
TreeTerminated == pc = "returned" => \A p \in Proc : status[p] # "running"

=============================================================================
