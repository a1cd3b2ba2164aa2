---------------------- MODULE ProcessSupervisorProofs ----------------------
(***************************************************************************)
(* Proofs about ProcessSupervisor, for every tree of processes, every      *)
(* limit and every pipe size.                                              *)
(***************************************************************************)
EXTENDS ProcessSupervisor, TLAPS

\* Only a live process has a stream open.
DeadHoldNothing ==
  \A p \in Proc : status[p] \in {"unborn", "dead"} => holds[p] = {}

\* What a collector that has not failed keeps of what it has read so far.
CaptureIsPrefix ==
  \A s \in Stream :
    LET read == written[s] - pipe[s] IN
    reader[s] # "failed" =>
      /\ read >= 0
      /\ captured[s] = Least(read, Limit[s])
      /\ truncated[s] <=> (read > Limit[s])

\* A collector at its end has read everything, and nothing can follow.
EndIsFinal ==
  \A s \in Stream :
    reader[s] = "done" =>
      /\ pipe[s] = 0
      /\ \A p \in Proc : s \notin holds[p]

\* The call has passed the join of a stream only when its collector is done.
JoinedInOrder ==
  /\ pc \in {"stderr", "returned"} => reader["stdout"] = "done"
  /\ pc = "returned" => reader["stderr"] = "done"

\* Nothing has happened before the launch.
NotStarted ==
  pc = "launch" => killed = "nobody" /\ reader = [s \in Stream |-> "unstarted"]

IInv ==
  /\ TypeOK
  /\ NotStarted
  /\ DeadHoldNothing
  /\ CaptureIsPrefix
  /\ EndIsFinal
  /\ JoinedInOrder
  /\ KilledGroupGone

-----------------------------------------------------------------------------
(* Initial states, and the steps of the tree and of the collectors *)

LEMMA InitOK == Init => IInv
<1>1. SUFFICES ASSUME Init PROVE IInv  OBVIOUS
<1>2. TypeOK
  <2>1. /\ pipe \in [Stream -> 0..PipeSize] /\ written \in [Stream -> 0..MaxWritten]
        /\ captured \in [Stream -> Nat] /\ \A s \in Stream : captured[s] <= Limit[s]
    BY <1>1, SupervisorAssumption DEF Init
  <2>2. /\ truncated \in [Stream -> BOOLEAN]
        /\ reader \in [Stream -> {"unstarted", "draining", "done", "failed"}]
        /\ status \in [Proc -> {"unborn", "running", "signalled", "dead"}]
        /\ holds \in [Proc -> SUBSET Stream]
    BY <1>1 DEF Init
  <2>3. /\ pc = "launch" /\ killed = "nobody"
        /\ timedOut \in BOOLEAN /\ escaped \subseteq Descendant
    BY <1>1 DEF Init
  <2>4. attempt \in 1..3
    <3>1. attempt = 1
      BY <1>1 DEF Init
    <3> QED  BY <3>1
  <2> QED  BY <2>1, <2>2, <2>3, <2>4 DEF TypeOK
<1>3. DeadHoldNothing /\ EndIsFinal /\ JoinedInOrder /\ NotStarted
  BY <1>1 DEF Init, DeadHoldNothing, EndIsFinal, JoinedInOrder, NotStarted, Stream
<1>4. CaptureIsPrefix
  BY <1>1, SupervisorAssumption DEF Init, CaptureIsPrefix, Least, Stream
<1>5. KilledGroupGone
  BY <1>1 DEF Init, KilledGroupGone
<1> QED  BY <1>2, <1>3, <1>4, <1>5 DEF IInv

\* A process that is forked holds no stream its parent does not hold, and is
\* out of the group exactly when its parent is.
LEMMA TreeStep ==
  ASSUME IInv, Tree
  PROVE  IInv'
<1> USE DEF IInv
<1>1. ASSUME NEW p \in Proc, NEW q \in Descendant, Fork(p, q)  PROVE IInv'
  <2>1. TypeOK'
    <3>2. escaped' \subseteq Descendant
      BY <1>1 DEF Fork, TypeOK
    <3>3. /\ status' \in [Proc -> {"unborn", "running", "signalled", "dead"}]
          /\ holds' \in [Proc -> SUBSET Stream]
      BY <1>1 DEF Fork, TypeOK
    <3> QED  BY <1>1, <3>2, <3>3 DEF Fork, TypeOK, call, collector
  <2>2. DeadHoldNothing'
    BY <1>1 DEF Fork, DeadHoldNothing, TypeOK
  <2>3. EndIsFinal'
    BY <1>1 DEF Fork, EndIsFinal, TypeOK, collector
  <2>4. CaptureIsPrefix'
    BY <1>1 DEF Fork, CaptureIsPrefix, collector
  <2>5. JoinedInOrder' /\ NotStarted'
    BY <1>1 DEF Fork, JoinedInOrder, NotStarted, call, collector
  <2>6. KilledGroupGone'
    BY <1>1 DEF Fork, KilledGroupGone, InGroup, TypeOK
  <2> QED  BY <2>1, <2>2, <2>3, <2>4, <2>5, <2>6
<1>2. ASSUME NEW p \in Proc, Escape(p)  PROVE IInv'
  <2>1. TypeOK'
    BY <1>2 DEF Escape, TypeOK, call, collector
  <2>2. DeadHoldNothing' /\ EndIsFinal'
    BY <1>2 DEF Escape, DeadHoldNothing, EndIsFinal, collector
  <2>3. CaptureIsPrefix'
    BY <1>2 DEF Escape, CaptureIsPrefix, collector
  <2>4. JoinedInOrder' /\ NotStarted'
    BY <1>2 DEF Escape, JoinedInOrder, NotStarted, call, collector
  <2>5. KilledGroupGone'
    BY <1>2 DEF Escape, KilledGroupGone, InGroup
  <2> QED  BY <2>1, <2>2, <2>3, <2>4, <2>5
<1>3. ASSUME NEW p \in Proc, NEW s \in Stream, Write(p, s)  PROVE IInv'
  <2>1. TypeOK'
    BY <1>3, SupervisorAssumption DEF Write, TypeOK, call, tree, collector
  <2>2. DeadHoldNothing' /\ KilledGroupGone'
    BY <1>3 DEF Write, DeadHoldNothing, KilledGroupGone, InGroup, tree
  <2>3. EndIsFinal'
    BY <1>3 DEF Write, EndIsFinal, TypeOK, tree, collector
  <2>4. CaptureIsPrefix'
    <3> SUFFICES ASSUME NEW t \in Stream, reader'[t] # "failed"
                 PROVE  LET read == written'[t] - pipe'[t] IN
                          /\ read >= 0
                          /\ captured'[t] = Least(read, Limit[t])
                          /\ truncated'[t] <=> (read > Limit[t])
      BY DEF CaptureIsPrefix
    <3>1. written'[t] - pipe'[t] = written[t] - pipe[t]
      BY <1>3, SupervisorAssumption DEF Write, TypeOK
    <3>2. captured' = captured /\ truncated' = truncated /\ reader' = reader
      BY <1>3 DEF Write, collector
    <3> QED  BY <3>1, <3>2 DEF CaptureIsPrefix
  <2>5. JoinedInOrder' /\ NotStarted'
    BY <1>3 DEF Write, JoinedInOrder, NotStarted, call, collector
  <2> QED  BY <2>1, <2>2, <2>3, <2>4, <2>5
<1>4. ASSUME NEW p \in Proc, NEW s \in Stream, CloseStream(p, s)  PROVE IInv'
  <2>1. TypeOK'
    BY <1>4 DEF CloseStream, TypeOK, call, collector
  <2>2. DeadHoldNothing' /\ EndIsFinal'
    BY <1>4 DEF CloseStream, DeadHoldNothing, EndIsFinal, TypeOK, collector
  <2>3. CaptureIsPrefix'
    BY <1>4 DEF CloseStream, CaptureIsPrefix, collector
  <2>4. JoinedInOrder' /\ NotStarted'
    BY <1>4 DEF CloseStream, JoinedInOrder, NotStarted, call, collector
  <2>5. KilledGroupGone'
    BY <1>4 DEF CloseStream, KilledGroupGone, InGroup
  <2> QED  BY <2>1, <2>2, <2>3, <2>4, <2>5
<1>5. ASSUME NEW p \in Proc, Die(p)  PROVE IInv'
  <2>1. TypeOK'
    BY <1>5 DEF Die, TypeOK, call, collector
  <2>2. DeadHoldNothing' /\ EndIsFinal'
    BY <1>5 DEF Die, DeadHoldNothing, EndIsFinal, TypeOK, collector
  <2>3. CaptureIsPrefix'
    BY <1>5 DEF Die, CaptureIsPrefix, collector
  <2>4. JoinedInOrder' /\ NotStarted'
    BY <1>5 DEF Die, JoinedInOrder, NotStarted, call, collector
  <2>5. KilledGroupGone'
    BY <1>5 DEF Die, KilledGroupGone, InGroup, TypeOK
  <2> QED  BY <2>1, <2>2, <2>3, <2>4, <2>5
<1> QED  BY <1>1, <1>2, <1>3, <1>4, <1>5 DEF Tree

LEMMA CollectStep ==
  ASSUME IInv, NEW s \in Stream, Collect(s)
  PROVE  IInv'
<1> USE DEF IInv
<1>1. ASSUME Drain(s)  PROVE IInv'
  <2>1. PICK chunk \in 1..pipe[s] :
          /\ pipe' = [pipe EXCEPT ![s] = @ - chunk]
          /\ captured' = [captured EXCEPT ![s] = @ + Least(chunk, Limit[s] - captured[s])]
          /\ truncated' = [truncated EXCEPT ![s] = @ \/ chunk > Limit[s] - captured[s]]
    BY <1>1 DEF Drain
  <2>2. /\ reader[s] = "draining"
        /\ pipe[s] \in 0..PipeSize /\ captured[s] \in 0..Limit[s]
        /\ written[s] \in Nat /\ truncated[s] \in BOOLEAN
        /\ Limit[s] \in Nat /\ PipeSize \in Nat
    <3>1. captured[s] \in Nat /\ Limit[s] \in Nat /\ captured[s] <= Limit[s]
      BY SupervisorAssumption DEF TypeOK
    <3> QED  BY <1>1, <3>1, SupervisorAssumption DEF Drain, TypeOK
  <2>3. UNCHANGED <<call, killed, tree, written, reader>>
    BY <1>1 DEF Drain
  <2>4. TypeOK'
    <3>1. /\ pipe[s] - chunk \in 0..PipeSize
          /\ captured[s] + Least(chunk, Limit[s] - captured[s]) \in 0..Limit[s]
      BY <2>2 DEF Least
    <3> QED  BY <2>1, <2>3, <3>1 DEF TypeOK, call, tree
  <2>5. CaptureIsPrefix'
    <3> SUFFICES ASSUME NEW t \in Stream, reader'[t] # "failed"
                 PROVE  LET read == written'[t] - pipe'[t] IN
                          /\ read >= 0
                          /\ captured'[t] = Least(read, Limit[t])
                          /\ truncated'[t] <=> (read > Limit[t])
      BY DEF CaptureIsPrefix
    <3>1. CASE t # s
      BY <2>1, <2>3, <3>1 DEF CaptureIsPrefix, TypeOK
    <3>2. CASE t = s
      <4> DEFINE read == written[s] - pipe[s]
      <4>1. /\ read \in Nat
            /\ captured[s] = Least(read, Limit[s])
            /\ truncated[s] <=> (read > Limit[s])
        BY <2>2 DEF CaptureIsPrefix
      <4>2. written'[s] - pipe'[s] = read + chunk
        BY <2>1, <2>2, <2>3 DEF TypeOK
      <4>3. captured'[s] = Least(read + chunk, Limit[s])
        <5>1. captured'[s] = captured[s] + Least(chunk, Limit[s] - captured[s])
          BY <2>1 DEF TypeOK
        <5> QED  BY <4>1, <5>1, <2>2 DEF Least
      <4>4. truncated'[s] <=> (read + chunk > Limit[s])
        <5>1. truncated'[s] <=> (truncated[s] \/ chunk > Limit[s] - captured[s])
          BY <2>1 DEF TypeOK
        <5>2. (chunk > Limit[s] - captured[s] \/ read > Limit[s]) <=> (read + chunk > Limit[s])
          BY <4>1, <2>2 DEF Least
        <5> QED  BY <4>1, <5>1, <5>2
      <4> QED  BY <3>2, <4>1, <4>2, <4>3, <4>4
    <3> QED  BY <3>1, <3>2
  <2>6. EndIsFinal'
    BY <2>1, <2>2, <2>3 DEF EndIsFinal, TypeOK, tree
  <2>7. DeadHoldNothing' /\ JoinedInOrder' /\ NotStarted' /\ KilledGroupGone'
    BY <2>3 DEF DeadHoldNothing, JoinedInOrder, NotStarted, KilledGroupGone, InGroup, call, tree
  <2> QED  BY <2>4, <2>5, <2>6, <2>7
<1>2. ASSUME EndOfStream(s)  PROVE IInv'
  <2>1. TypeOK'
    BY <1>2 DEF EndOfStream, TypeOK, call, tree
  <2>2. CaptureIsPrefix'
    BY <1>2 DEF EndOfStream, CaptureIsPrefix, TypeOK
  <2>3. EndIsFinal'
    BY <1>2 DEF EndOfStream, EndIsFinal, TypeOK, tree
  <2>4. JoinedInOrder' /\ NotStarted'
    BY <1>2 DEF EndOfStream, JoinedInOrder, NotStarted, TypeOK, call
  <2>5. DeadHoldNothing' /\ KilledGroupGone'
    BY <1>2 DEF EndOfStream, DeadHoldNothing, KilledGroupGone, InGroup, tree
  <2> QED  BY <2>1, <2>2, <2>3, <2>4, <2>5
<1>3. ASSUME ReadFails(s)  PROVE IInv'
  <2>1. TypeOK'
    BY <1>3, SupervisorAssumption DEF ReadFails, TypeOK, call, tree
  <2>2. CaptureIsPrefix'
    BY <1>3 DEF ReadFails, CaptureIsPrefix, TypeOK
  <2>3. EndIsFinal'
    BY <1>3 DEF ReadFails, EndIsFinal, TypeOK, tree
  <2>4. JoinedInOrder' /\ NotStarted'
    BY <1>3 DEF ReadFails, JoinedInOrder, NotStarted, TypeOK, call
  <2>5. DeadHoldNothing' /\ KilledGroupGone'
    BY <1>3 DEF ReadFails, DeadHoldNothing, KilledGroupGone, InGroup, tree
  <2> QED  BY <2>1, <2>2, <2>3, <2>4, <2>5
<1> QED  BY <1>1, <1>2, <1>3 DEF Collect

-----------------------------------------------------------------------------
(* The steps of the call *)

\* A step that only moves the call keeps everything that does not mention
\* where the call stands.
LEMMA MoveStep ==
  ASSUME IInv, UNCHANGED <<killed, tree, pipe, written, collector>>,
         pc' # "launch",
         pc' \in {"wait", "terminate", "killwait", "reap",
                  "stdout", "stderr", "returned", "raised"},
         attempt' \in 1..3, timedOut' \in BOOLEAN,
         JoinedInOrder'
  PROVE  IInv'
<1> USE DEF IInv
<1>1. TypeOK'
  BY DEF TypeOK, tree, collector
<1>2. CaptureIsPrefix'
  BY DEF CaptureIsPrefix, collector
<1>3. DeadHoldNothing' /\ EndIsFinal' /\ NotStarted' /\ KilledGroupGone'
  BY DEF DeadHoldNothing, EndIsFinal, NotStarted, KilledGroupGone, InGroup, tree, collector
<1> QED  BY <1>1, <1>2, <1>3

\* SIGKILL changes the status of live processes only, and leaves none of
\* those it reaches running.
LEMMA KillStep ==
  ASSUME IInv, KillGroup \/ KillLeader
  PROVE  IInv'
<1> USE DEF IInv
<1>1. PICK P \in SUBSET Proc :
        /\ Signalled(P)
        /\ killed' = "group" => killed = "group" \/ P = {p \in Proc : InGroup(p)}
  <2>1. CASE KillGroup
    BY <2>1 DEF KillGroup
  <2>2. CASE KillLeader
    BY <2>2 DEF KillLeader, Proc
  <2> QED  BY <2>1, <2>2
<1>2. /\ pc = "terminate" /\ pc' = "killwait"
      /\ killed' \in {"nobody", "leader", "group"}
      /\ UNCHANGED <<attempt, timedOut, escaped, holds, pipe, written, collector>>
  BY DEF KillGroup, KillLeader, Goto, TypeOK
<1>3. status' = [p \in Proc |-> IF p \in P /\ Live(p) THEN "signalled" ELSE status[p]]
  BY <1>1 DEF Signalled
<1>4. TypeOK'
  <2>1. status' \in [Proc -> {"unborn", "running", "signalled", "dead"}]
    BY <1>3 DEF TypeOK
  <2> QED  BY <1>2, <2>1 DEF TypeOK, collector
<1>5. DeadHoldNothing'
  BY <1>2, <1>3 DEF DeadHoldNothing
<1>6. CaptureIsPrefix'
  BY <1>2 DEF CaptureIsPrefix, collector
<1>7. EndIsFinal' /\ JoinedInOrder' /\ NotStarted'
  BY <1>2 DEF EndIsFinal, JoinedInOrder, NotStarted, collector
<1>8. KilledGroupGone'
  BY <1>1, <1>2, <1>3 DEF KilledGroupGone, InGroup, Live
<1> QED  BY <1>4, <1>5, <1>6, <1>7, <1>8

LEMMA SuperviseStep ==
  ASSUME IInv, Supervise
  PROVE  IInv'
<1> USE DEF IInv
<1>1. CASE Launch
  <2>1. TypeOK'
    <3>1. /\ status' \in [Proc -> {"unborn", "running", "signalled", "dead"}]
          /\ holds' \in [Proc -> SUBSET Stream]
          /\ reader' \in [Stream -> {"unstarted", "draining", "done", "failed"}]
      BY <1>1 DEF Launch, TypeOK
    <3> QED  BY <1>1, <3>1 DEF Launch, Goto, TypeOK
  <2>2. DeadHoldNothing'
    BY <1>1 DEF Launch, DeadHoldNothing, TypeOK
  <2>3. CaptureIsPrefix'
    BY <1>1 DEF Launch, CaptureIsPrefix, NotStarted
  <2>4. EndIsFinal' /\ JoinedInOrder' /\ NotStarted' /\ KilledGroupGone'
    BY <1>1 DEF Launch, Goto, EndIsFinal, JoinedInOrder, NotStarted, KilledGroupGone
  <2> QED  BY <2>1, <2>2, <2>3, <2>4
<1>2. CASE KillGroup \/ KillLeader
  BY <1>2, KillStep
<1>3. CASE LaunchFails \/ Reaped \/ Deadline \/ ReapExpires \/ Interrupt
  <2>1. /\ UNCHANGED <<killed, tree, pipe, written, collector>>
        /\ pc' \in {"raised", "stdout", "terminate"}
        /\ attempt' \in 1..3 /\ timedOut' \in BOOLEAN
    <3>1. CASE LaunchFails \/ Reaped \/ Deadline
      BY <3>1 DEF LaunchFails, Reaped, Deadline, Goto, TypeOK
    <3>2. CASE ReapExpires
      BY <3>2 DEF ReapExpires, Goto, TypeOK
    <3>3. CASE Interrupt
      BY <3>3 DEF Interrupt, Goto, TypeOK
    <3> QED  BY <1>3, <3>1, <3>2, <3>3
  <2>2. JoinedInOrder'
    BY <2>1 DEF JoinedInOrder
  <2> QED  BY <2>1, <2>2, MoveStep
<1>4. CASE AlreadyGone \/ KillWait
  <2>1. /\ UNCHANGED <<killed, tree, pipe, written, collector>>
        /\ pc' \in {"raised", "reap", "terminate"}
        /\ attempt' \in 1..3 /\ timedOut' \in BOOLEAN
    BY <1>4 DEF AlreadyGone, KillWait, AfterTerminate, Goto, TypeOK
  <2>2. JoinedInOrder'
    BY <2>1 DEF JoinedInOrder
  <2> QED  BY <2>1, <2>2, MoveStep
<1>5. ASSUME NEW s \in Stream, Finish(s) \/ FinishRaises(s)  PROVE IInv'
  <2>1. /\ UNCHANGED <<killed, tree, pipe, written, collector>>
        /\ pc' \in {"raised", "stderr", "returned"}
        /\ attempt' \in 1..3 /\ timedOut' \in BOOLEAN
    BY <1>5 DEF Finish, FinishRaises, Goto, TypeOK
  <2>2. JoinedInOrder'
    BY <1>5 DEF Finish, FinishRaises, Goto, JoinedInOrder, Stream, collector
  <2> QED  BY <2>1, <2>2, MoveStep
<1> QED  BY <1>1, <1>2, <1>3, <1>4, <1>5 DEF Supervise

-----------------------------------------------------------------------------
(* Theorems *)

\* The inductive invariant holds in every reachable state.
THEOREM Invariance == Spec => []IInv
<1>1. IInv /\ UNCHANGED vars => IInv'
  <2> SUFFICES ASSUME IInv, UNCHANGED vars PROVE IInv'  OBVIOUS
  <2> USE DEF IInv, vars, call, tree, collector
  <2>1. TypeOK' /\ DeadHoldNothing' /\ EndIsFinal' /\ JoinedInOrder' /\ NotStarted'
    BY DEF TypeOK, DeadHoldNothing, EndIsFinal, JoinedInOrder, NotStarted
  <2>2. CaptureIsPrefix' /\ KilledGroupGone'
    BY DEF CaptureIsPrefix, KilledGroupGone, InGroup
  <2> QED  BY <2>1, <2>2
<1>2. IInv /\ [Next]_vars => IInv'
  BY <1>1, TreeStep, CollectStep, SuperviseStep DEF Next
<1> QED  BY InitOK, <1>2, PTL DEF Spec

\* Every variable of the call, the tree and the collectors keeps its type; in
\* particular no collector ever buffers more than its limit.
THEOREM TypeCorrect == Spec => []TypeOK
<1>1. IInv => TypeOK  BY DEF IInv
<1> QED  BY Invariance, <1>1, PTL

\* A result reports exactly what the tree wrote, for every tree and limit.
THEOREM ResultsAreComplete == Spec => []CaptureIsComplete
<1>1. IInv => CaptureIsComplete
  <2> SUFFICES ASSUME IInv, pc = "returned", NEW s \in Stream
               PROVE  /\ captured[s] = Least(written[s], Limit[s])
                      /\ truncated[s] <=> (written[s] > Limit[s])
                      /\ \A p \in Proc : s \notin holds[p]
    BY DEF CaptureIsComplete
  <2>1. reader[s] = "done"
    BY DEF IInv, JoinedInOrder, Stream
  <2>2. pipe[s] = 0 /\ \A p \in Proc : s \notin holds[p]
    BY <2>1 DEF IInv, EndIsFinal
  <2>3. written[s] - pipe[s] = written[s]
    BY <2>2, SupervisorAssumption DEF IInv, TypeOK
  <2> QED  BY <2>1, <2>2, <2>3 DEF IInv, CaptureIsPrefix
<1> QED  BY Invariance, <1>1, PTL

\* killpg leaves no running member in the group, for every tree of processes.
THEOREM GroupStaysDead == Spec => []KilledGroupGone
<1>1. IInv => KilledGroupGone  BY DEF IInv
<1> QED  BY Invariance, <1>1, PTL
=============================================================================
