-------------------------- MODULE PublicationProofs --------------------------
(***************************************************************************)
(* Proofs about Publication, for every number of operator processes,       *)
(* rounds, replicas and calls.                                             *)
(***************************************************************************)
EXTENDS Publication, TLAPS

-----------------------------------------------------------------------------
(* The inductive invariant *)

Busy(p)  == pc[p] # "idle"
Holds(p) == pc[p] \in {"stage", "rename"}   \* p made .staging/<its round>

\* Every running call is recorded, and no two publishers run the same one.
JobsRecorded ==
  /\ \A p \in Publisher : Busy(p) => job[p] \in 1..Len(calls)
  /\ \A p, q \in Publisher :
       Busy(p) /\ Busy(q) /\ job[p] = job[q] => p = q

\* A loop starts with nothing written.
WrittenFresh ==
  \A p \in Publisher :
    pc[p] \in {"idle", "check_staging", "make_staging"} => written[p] = {}

\* The part of call c's tree that has been written.
Partial(c, done) ==
  [r \in Replica |-> [f \in File |-> IF <<r, f>> \in done THEN c ELSE NoFile]]

\* mkdir makes the staging tree of a round exclusive, and its owner knows
\* exactly what is in it.
StagingOwned ==
  /\ \A p \in Publisher :
       Holds(p) => staging[RoundOf(p)] = Partial(job[p], written[p])
  /\ \A p, q \in Publisher :
       Holds(p) /\ Holds(q) /\ RoundOf(p) = RoundOf(q) => p = q

\* A publisher about to rename has staged everything, and its round is free.
RenameReady ==
  \A p \in Publisher :
    pc[p] = "rename" => AllWritten(p) /\ committed[RoundOf(p)] = Absent

\* A publisher that copies does so from its own whole tree, and has not yet
\* announced it.
CopyingOwn ==
  \A p \in Publisher :
    pc[p] = "copy" => /\ committed[RoundOf(p)] = Whole(job[p])
                      /\ completed[RoundOf(p)] = 0

IInv ==
  /\ TypeOK
  /\ JobsRecorded
  /\ WrittenFresh
  /\ StagingOwned
  /\ RenameReady
  /\ CopyingOwn
  /\ CommittedWhole
  /\ LiveIsArchived
  /\ CompletedOnce
-----------------------------------------------------------------------------
(* Facts about the operators *)

\* Every recorded call names a round and a nonempty set of replicas, and its
\* tree is a tree: the copy and the rename move well-formed directories.
LEMMA CallsTyped ==
  ASSUME TypeOK, NEW c \in 1..Len(calls)
  PROVE  /\ c \in Call
         /\ calls[c].round \in Round
         /\ calls[c].due \in SUBSET Replica
         /\ calls[c].due # {}
         /\ Whole(c) \in Tree /\ Whole(c) \in FinishedTree
<1>a. Len(calls) \in Nat /\ Len(calls) <= MaxCalls /\ MaxCalls \in Nat
  BY PublicationAssumption DEF TypeOK
<1>b. c \in Call
  BY <1>a DEF Call
<1>1. calls[c] \in CandidateSet /\ c \in Call
  BY <1>b DEF TypeOK
<1>2. calls[c].due \in SUBSET Replica /\ calls[c].due # {} /\ calls[c].round \in Round
  BY <1>1 DEF CandidateSet
<1>3. Whole(c) \in Tree /\ Whole(c) \in FinishedTree
  BY <1>1 DEF Whole, Tree, FinishedTree, Content
<1> QED BY <1>1, <1>2, <1>3

\* A tree tells which call wrote it.
LEMMA WholeInjective ==
  ASSUME TypeOK, NEW c \in 1..Len(calls), NEW d \in 1..Len(calls),
         Whole(c) = Whole(d)
  PROVE  c = d
<1>1. PICK r \in Replica : r \in calls[c].due
  BY CallsTyped
<1>2. Whole(c)[r]["portfolio"] = c
  BY <1>1 DEF Whole, File
<1>3. Whole(d)[r]["portfolio"] \in {d, NoFile}
  BY <1>1 DEF Whole, File
<1> QED BY <1>2, <1>3 DEF NoFile, TypeOK

\* What a running call works on.
LEMMA BusyTyped ==
  ASSUME IInv, NEW p \in Publisher, Busy(p)
  PROVE  /\ job[p] \in 1..Len(calls)
         /\ job[p] \in Call
         /\ RoundOf(p) \in Round
         /\ DueOf(p) \in SUBSET Replica
         /\ DueOf(p) # {}
         /\ Whole(job[p]) \in Tree
<1>1. job[p] \in 1..Len(calls)
  BY DEF IInv, JobsRecorded
<1> QED BY <1>1, CallsTyped DEF IInv, RoundOf, DueOf

LEMMA PartialTyped ==
  ASSUME NEW c \in Call, NEW done
  PROVE  Partial(c, done) \in Tree
BY DEF Partial, Tree, Content

\* Staging everything stages the whole tree.
LEMMA PartialWhole ==
  ASSUME NEW c, NEW done, done = calls[c].due \X File
  PROVE  Partial(c, done) = Whole(c)
BY DEF Partial, Whole

LEMMA AbsentIsNoTree == Absent \notin Tree
BY PublicationAssumption
-----------------------------------------------------------------------------
(* The invariant holds initially and every step of a call preserves it *)

LEMMA InitIInv == Init => IInv
<1> SUFFICES ASSUME Init PROVE IInv
  OBVIOUS
<1>1. TypeOK
  BY PublicationAssumption DEF Init, TypeOK, Tree, EmptyTree, Content
<1>2. JobsRecorded /\ WrittenFresh /\ StagingOwned /\ RenameReady /\ CopyingOwn
  BY DEF Init, JobsRecorded, WrittenFresh, StagingOwned, RenameReady, CopyingOwn,
         Busy, Holds
<1>3. CommittedWhole /\ LiveIsArchived /\ CompletedOnce
  BY DEF Init, CommittedWhole, LiveIsArchived, CompletedOnce, EmptyTree, NoFile, Call
<1> QED BY <1>1, <1>2, <1>3 DEF IInv

\* A call that returns, raises or dies without touching a file.
LEMMA ReturnKeeps ==
  ASSUME IInv, NEW p \in Publisher, Return(p),
         UNCHANGED <<calls, staging, committed, live, started, completed>>
  PROVE  IInv'
<1> USE DEF IInv
<1>1. TypeOK'
  BY PublicationAssumption DEF TypeOK, Return, Goto
<1>2. \A q \in Publisher : q # p => /\ pc'[q] = pc[q]
                                    /\ job'[q] = job[q]
                                    /\ written'[q] = written[q]
  BY DEF Return, Goto, TypeOK
<1>3. pc'[p] = "idle" /\ written'[p] = {}
  BY DEF Return, Goto, TypeOK
<1>4. JobsRecorded'
  BY <1>2, <1>3 DEF JobsRecorded, Busy
<1>5. WrittenFresh'
  BY <1>2, <1>3 DEF WrittenFresh
<1>a. \A q \in Publisher : q # p => /\ RoundOf(q)' = RoundOf(q)
                                    /\ DueOf(q)' = DueOf(q)
                                    /\ Whole(job[q])' = Whole(job[q])
                                    /\ Partial(job[q], written[q])' = Partial(job[q], written[q])
  BY <1>2 DEF RoundOf, DueOf, Whole, Partial
<1>b. \A q \in Publisher : pc'[q] # "idle" => q # p
  BY <1>3
<1>6. StagingOwned'
  BY <1>2, <1>a, <1>b DEF StagingOwned, Holds
<1>7. RenameReady'
  BY <1>2, <1>a, <1>b DEF RenameReady, AllWritten
<1>8. CopyingOwn'
  BY <1>2, <1>a, <1>b DEF CopyingOwn
<1>c. \A c : Whole(c)' = Whole(c)
  BY DEF Whole
<1>9. CommittedWhole'
  BY <1>c DEF CommittedWhole
<1>10. LiveIsArchived'
  BY <1>c DEF LiveIsArchived
<1>11. CompletedOnce'
  BY DEF CompletedOnce
<1> QED BY <1>1, <1>4, <1>5, <1>6, <1>7, <1>8, <1>9, <1>10, <1>11

\* Recording a new call leaves what is known of the earlier ones.
LEMMA BeginKeeps ==
  ASSUME IInv, NEW p \in Publisher, NEW set \in CandidateSet, Begin(p, set)
  PROVE  IInv'
<1> USE DEF IInv
<1>1. /\ Len(calls) \in Nat
      /\ MaxCalls \in Nat
      /\ Len(calls) < MaxCalls
      /\ calls' = Append(calls, set)
      /\ Len(calls') = Len(calls) + 1
  BY PublicationAssumption DEF TypeOK, Begin
<1>2. \A c \in 1..Len(calls) : c \in 1..Len(calls') /\ calls'[c] = calls[c]
  BY <1>1 DEF TypeOK
<1>3. TypeOK'
  <2>1. calls' \in Seq(CandidateSet) /\ Len(calls') <= MaxCalls
    BY <1>1 DEF TypeOK
  <2>2. job' \in [Publisher -> 0..MaxCalls]
    BY <1>1 DEF TypeOK, Begin
  <2>3. started' \in [Round -> Nat]
    BY DEF TypeOK, Begin, CandidateSet
  <2>4. pc' \in [Publisher -> {"idle", "check_staging", "make_staging", "stage",
                              "rename", "copy"}]
    BY DEF TypeOK, Begin, Goto
  <2> QED BY <2>1, <2>2, <2>3, <2>4 DEF TypeOK, Begin
<1>4. \A q \in Publisher : q # p => pc'[q] = pc[q] /\ job'[q] = job[q]
  BY DEF Begin, Goto, TypeOK
<1>5. pc[p] = "idle" /\ pc'[p] = "check_staging" /\ job'[p] = Len(calls) + 1
  BY DEF Begin, Goto, TypeOK
<1>6. UNCHANGED <<written, staging, committed, live, completed>>
  BY DEF Begin
<1>7. \A q \in Publisher : Busy(q) => /\ q # p
                                      /\ job[q] \in 1..Len(calls)
                                      /\ job'[q] = job[q]
                                      /\ RoundOf(q)' = RoundOf(q)
                                      /\ DueOf(q)' = DueOf(q)
                                      /\ Whole(job[q])' = Whole(job[q])
  BY <1>2, <1>4, <1>5 DEF JobsRecorded, Busy, RoundOf, DueOf, Whole
<1>8. \A q \in Publisher : pc'[q] \in {"stage", "rename", "copy"} => Busy(q) /\ pc'[q] = pc[q]
  BY <1>4, <1>5 DEF Busy
<1>9. JobsRecorded'
  <2>1. \A q \in Publisher : Busy(q)' => q = p \/ Busy(q)
    BY <1>4 DEF Busy
  <2>2. \A q \in Publisher : Busy(q)' => job'[q] \in 1..Len(calls')
    BY <1>1, <1>2, <1>5, <1>7, <2>1
  <2>3. \A q \in Publisher : Busy(q) => job'[q] # Len(calls) + 1
    BY <1>1, <1>7
  <2>4. \A q, r \in Publisher : Busy(q)' /\ Busy(r)' /\ job'[q] = job'[r] => q = r
    BY <1>4, <1>5, <1>7, <2>1, <2>3 DEF JobsRecorded
  <2> QED BY <2>2, <2>4 DEF JobsRecorded
<1>10. WrittenFresh'
  BY <1>4, <1>5, <1>6 DEF WrittenFresh
<1>11. StagingOwned'
  BY <1>6, <1>7, <1>8 DEF StagingOwned, Holds, Partial
<1>12. RenameReady'
  BY <1>6, <1>7, <1>8 DEF RenameReady, AllWritten
<1>13. CopyingOwn'
  BY <1>6, <1>7, <1>8 DEF CopyingOwn
<1>14. \A c \in 1..Len(calls) : Whole(c)' = Whole(c)
  BY <1>2 DEF Whole
<1>15. CommittedWhole'
  BY <1>2, <1>6, <1>14 DEF CommittedWhole
<1>16. LiveIsArchived'
  <2> SUFFICES ASSUME NEW r \in Replica, NEW f \in File, live'[r][f] \in Call
               PROVE  /\ live'[r][f] <= Len(calls')
                      /\ r \in calls'[live'[r][f]].due
                      /\ committed'[calls'[live'[r][f]].round] = Whole(live[r][f])'
    BY DEF LiveIsArchived
  <2>1. live[r][f] \in 1..Len(calls)
    BY <1>1, <1>6 DEF LiveIsArchived, Call
  <2> QED BY <1>1, <1>2, <1>6, <1>14, <2>1 DEF LiveIsArchived
<1>17. CompletedOnce'
  BY <1>6 DEF CompletedOnce
<1> QED BY <1>3, <1>9, <1>10, <1>11, <1>12, <1>13, <1>15, <1>16, <1>17

\* What a step of p, once under way, leaves alone: the other publishers, what
\* they work on, and every recorded call.
LEMMA OthersSame ==
  ASSUME TypeOK, NEW p \in Publisher, UNCHANGED calls,
         pc' = [pc EXCEPT ![p] = pc'[p]],
         job' = [job EXCEPT ![p] = job'[p]],
         written' = [written EXCEPT ![p] = written'[p]]
  PROVE  /\ \A q \in Publisher : q # p => /\ pc'[q] = pc[q]
                                          /\ job'[q] = job[q]
                                          /\ written'[q] = written[q]
                                          /\ RoundOf(q)' = RoundOf(q)
                                          /\ DueOf(q)' = DueOf(q)
         /\ job' = job => RoundOf(p)' = RoundOf(p) /\ DueOf(p)' = DueOf(p)
         /\ \A c : Whole(c)' = Whole(c)
         /\ \A q \in Publisher : Busy(q)' => q = p \/ Busy(q)
<1>1. \A q \in Publisher : q # p => /\ pc'[q] = pc[q]
                                    /\ job'[q] = job[q]
                                    /\ written'[q] = written[q]
  BY DEF TypeOK
<1> QED BY <1>1 DEF RoundOf, DueOf, Whole, Busy

LEMMA CheckStagingKeeps ==
  ASSUME IInv, NEW p \in Publisher, CheckStaging(p)
  PROVE  IInv'
<1>1. CASE staging[RoundOf(p)] = Absent
  <2> USE DEF IInv
  <2>1. /\ pc' = [pc EXCEPT ![p] = pc'[p]] /\ pc'[p] = "make_staging"
        /\ UNCHANGED <<calls, job, written, staging, committed, live, started, completed>>
        /\ pc[p] = "check_staging" /\ Busy(p)
        /\ job' = [job EXCEPT ![p] = job'[p]]
        /\ written' = [written EXCEPT ![p] = written'[p]]
    BY <1>1 DEF CheckStaging, Goto, Busy, TypeOK
  <2>2. /\ \A q \in Publisher : q # p => /\ pc'[q] = pc[q]
                                         /\ RoundOf(q)' = RoundOf(q)
                                         /\ DueOf(q)' = DueOf(q)
        /\ \A c : Whole(c)' = Whole(c)
        /\ \A q \in Publisher : Busy(q)' => Busy(q)
    BY <2>1, OthersSame
  <2>3. TypeOK'
    BY <2>1 DEF TypeOK
  <2>4. JobsRecorded'
    BY <2>1, <2>2 DEF JobsRecorded
  <2>5. WrittenFresh'
    BY <2>1, <2>2 DEF WrittenFresh
  <2>6. StagingOwned'
    BY <2>1, <2>2 DEF StagingOwned, Holds, Partial
  <2>7. RenameReady'
    BY <2>1, <2>2 DEF RenameReady, AllWritten
  <2>8. CopyingOwn'
    BY <2>1, <2>2 DEF CopyingOwn
  <2>9. CommittedWhole'
    BY <2>1, <2>2 DEF CommittedWhole
  <2>10. LiveIsArchived'
    BY <2>1, <2>2 DEF LiveIsArchived
  <2>11. CompletedOnce'
    BY <2>1 DEF CompletedOnce
  <2> QED BY <2>3, <2>4, <2>5, <2>6, <2>7, <2>8, <2>9, <2>10, <2>11
<1>2. CASE staging[RoundOf(p)] # Absent
  BY <1>2, ReturnKeeps DEF CheckStaging
<1> QED BY <1>1, <1>2

\* mkdir succeeds for one caller only, so the new owner is alone.
LEMMA MakeStagingKeeps ==
  ASSUME IInv, NEW p \in Publisher, MakeStaging(p)
  PROVE  IInv'
<1>1. CASE staging[RoundOf(p)] = Absent
  <2> USE DEF IInv
  <2>1. /\ pc' = [pc EXCEPT ![p] = pc'[p]] /\ pc'[p] = "stage"
        /\ UNCHANGED <<calls, job, written, committed, live, started, completed>>
        /\ staging' = [staging EXCEPT ![RoundOf(p)] = EmptyTree]
        /\ pc[p] = "make_staging" /\ Busy(p) /\ written[p] = {}
        /\ job' = [job EXCEPT ![p] = job'[p]]
        /\ written' = [written EXCEPT ![p] = written'[p]]
    BY <1>1 DEF MakeStaging, Goto, Busy, TypeOK, WrittenFresh
  <2>2. /\ \A q \in Publisher : q # p => /\ pc'[q] = pc[q]
                                         /\ RoundOf(q)' = RoundOf(q)
                                         /\ DueOf(q)' = DueOf(q)
        /\ RoundOf(p)' = RoundOf(p)
        /\ \A c : Whole(c)' = Whole(c)
        /\ \A q \in Publisher : Busy(q)' => Busy(q)
    BY <2>1, OthersSame
  <2>a. RoundOf(p) \in Round /\ job[p] \in Call
    BY <2>1, BusyTyped
  <2>b. EmptyTree \in Tree /\ EmptyTree = Partial(job[p], written[p])
    BY <2>1 DEF EmptyTree, Partial, Tree, Content
  <2>c. \A q \in Publisher : Holds(q) => RoundOf(q) # RoundOf(p)
    <3> SUFFICES ASSUME NEW q \in Publisher, Holds(q) PROVE staging[RoundOf(q)] # Absent
      BY <1>1
    <3>1. job[q] \in Call
      BY BusyTyped DEF Holds, Busy
    <3>2. Partial(job[q], written[q]) \in Tree
      BY <3>1, PartialTyped
    <3> QED BY <3>2, AbsentIsNoTree DEF StagingOwned
  <2>3. TypeOK'
    BY <2>1, <2>a, <2>b DEF TypeOK
  <2>4. JobsRecorded'
    BY <2>1, <2>2 DEF JobsRecorded
  <2>5. WrittenFresh'
    BY <2>1, <2>2 DEF WrittenFresh
  <2>6. StagingOwned'
    <3>1. \A q \in Publisher : Holds(q)' => q = p \/ (q # p /\ Holds(q))
      BY <2>2 DEF Holds
    <3>2. staging'[RoundOf(p)] = Partial(job[p], written[p])
      BY <2>1, <2>a, <2>b DEF TypeOK
    <3>3. \A q \in Publisher : q # p /\ Holds(q) => staging'[RoundOf(q)] = staging[RoundOf(q)]
      BY <2>1, <2>c, <2>a DEF TypeOK
    <3>4. \A q \in Publisher : Holds(q)' =>
            staging'[RoundOf(q)'] = Partial(job[q], written[q])
      BY <2>2, <3>1, <3>2, <3>3 DEF StagingOwned
    <3>5. \A q, r \in Publisher : Holds(q)' /\ Holds(r)' /\ RoundOf(q)' = RoundOf(r)' => q = r
      BY <2>2, <2>c, <3>1 DEF StagingOwned
    <3> QED BY <2>1, <3>4, <3>5 DEF StagingOwned, Partial
  <2>7. RenameReady'
    BY <2>1, <2>2 DEF RenameReady, AllWritten
  <2>8. CopyingOwn'
    BY <2>1, <2>2 DEF CopyingOwn
  <2>9. CommittedWhole'
    BY <2>1, <2>2 DEF CommittedWhole
  <2>10. LiveIsArchived'
    BY <2>1, <2>2 DEF LiveIsArchived
  <2>11. CompletedOnce'
    BY <2>1 DEF CompletedOnce
  <2> QED BY <2>3, <2>4, <2>5, <2>6, <2>7, <2>8, <2>9, <2>10, <2>11
<1>2. CASE staging[RoundOf(p)] # Absent
  BY <1>2, ReturnKeeps DEF MakeStaging
<1> QED BY <1>1, <1>2

\* Only the owner of a staging tree writes in it.
LEMMA StageFileKeeps ==
  ASSUME IInv, NEW p \in Publisher, NEW r \in Replica, NEW f \in File,
         StageFile(p, r, f)
  PROVE  IInv'
<1> USE DEF IInv
<1>1. /\ UNCHANGED <<calls, pc, job, committed, live, started, completed>>
      /\ staging' = [staging EXCEPT ![RoundOf(p)][r][f] = job[p]]
      /\ written' = [written EXCEPT ![p] = @ \cup {<<r, f>>}]
      /\ pc[p] = "stage" /\ Busy(p) /\ Holds(p)
  BY DEF StageFile, Busy, Holds
<1>2. /\ pc' = [pc EXCEPT ![p] = pc'[p]]
      /\ job' = [job EXCEPT ![p] = job'[p]]
      /\ written' = [written EXCEPT ![p] = written'[p]]
      /\ written'[p] = written[p] \cup {<<r, f>>}
  BY <1>1 DEF TypeOK
<1>3. /\ \A q \in Publisher : q # p => written'[q] = written[q]
      /\ \A q \in Publisher : RoundOf(q)' = RoundOf(q) /\ DueOf(q)' = DueOf(q)
      /\ \A c : Whole(c)' = Whole(c)
  BY <1>1, <1>2, OthersSame
<1>4. RoundOf(p) \in Round /\ job[p] \in Call
  BY <1>1, BusyTyped
<1>5. staging[RoundOf(p)] = Partial(job[p], written[p]) /\ Partial(job[p], written[p]) \in Tree
  BY <1>1, <1>4, PartialTyped DEF StagingOwned
<1>6. staging'[RoundOf(p)] = Partial(job[p], written'[p])
  <2>1. staging'[RoundOf(p)] = [staging[RoundOf(p)] EXCEPT ![r][f] = job[p]]
    BY <1>1, <1>4 DEF TypeOK
  <2>2. staging'[RoundOf(p)] = [Partial(job[p], written[p]) EXCEPT ![r][f] = job[p]]
    BY <2>1, <1>5
  <2> QED BY <1>2, <2>2 DEF Partial
<1>7. TypeOK'
  <2>1. staging'[RoundOf(p)] \in Tree
    BY <1>6, <1>4, PartialTyped
  <2>2. \A n \in Round : n # RoundOf(p) => staging'[n] = staging[n]
    BY <1>1 DEF TypeOK
  <2>3. staging' \in [Round -> Tree \cup {Absent}]
    BY <1>1, <2>1, <2>2 DEF TypeOK
  <2>4. written' \in [Publisher -> SUBSET (Replica \X File)]
    BY <1>1 DEF TypeOK
  <2> QED BY <1>1, <2>3, <2>4 DEF TypeOK
<1>8. JobsRecorded'
  BY <1>1 DEF JobsRecorded, Busy
<1>9. WrittenFresh'
  BY <1>1, <1>3 DEF WrittenFresh
<1>10. StagingOwned'
  <2>1. \A q \in Publisher : q # p /\ Holds(q) => staging'[RoundOf(q)] = staging[RoundOf(q)]
    BY <1>1, <1>4 DEF StagingOwned, TypeOK
  <2>2. \A q \in Publisher : Holds(q) => staging'[RoundOf(q)] = Partial(job[q], written'[q])
    BY <1>3, <1>6, <2>1 DEF StagingOwned
  <2> QED BY <1>1, <1>3, <2>2 DEF StagingOwned, Holds, Partial
<1>11. RenameReady'
  BY <1>1, <1>3 DEF RenameReady, AllWritten
<1>12. CopyingOwn'
  BY <1>1, <1>3 DEF CopyingOwn
<1>13. CommittedWhole'
  BY <1>1, <1>3 DEF CommittedWhole
<1>14. LiveIsArchived'
  BY <1>1, <1>3 DEF LiveIsArchived
<1>15. CompletedOnce'
  BY <1>1 DEF CompletedOnce
<1> QED BY <1>7, <1>8, <1>9, <1>10, <1>11, <1>12, <1>13, <1>14, <1>15

LEMMA CheckCommittedKeeps ==
  ASSUME IInv, NEW p \in Publisher, CheckCommitted(p)
  PROVE  IInv'
<1>1. CASE committed[RoundOf(p)] = Absent
  <2> USE DEF IInv
  <2>1. /\ pc' = [pc EXCEPT ![p] = pc'[p]] /\ pc'[p] = "rename"
        /\ UNCHANGED <<calls, job, written, staging, committed, live, started, completed>>
        /\ pc[p] = "stage" /\ Busy(p) /\ Holds(p) /\ AllWritten(p)
        /\ job' = [job EXCEPT ![p] = job'[p]]
        /\ written' = [written EXCEPT ![p] = written'[p]]
    BY <1>1 DEF CheckCommitted, Goto, Busy, Holds, TypeOK
  <2>2. /\ \A q \in Publisher : q # p => pc'[q] = pc[q]
        /\ \A q \in Publisher : RoundOf(q)' = RoundOf(q) /\ DueOf(q)' = DueOf(q)
        /\ \A c : Whole(c)' = Whole(c)
        /\ \A q \in Publisher : Busy(q)' => Busy(q)
    BY <2>1, OthersSame
  <2>3. TypeOK'
    BY <2>1 DEF TypeOK
  <2>4. JobsRecorded'
    BY <2>1, <2>2 DEF JobsRecorded
  <2>5. WrittenFresh'
    BY <2>1, <2>2 DEF WrittenFresh
  <2>6. StagingOwned'
    BY <2>1, <2>2 DEF StagingOwned, Holds, Partial
  <2>7. RenameReady'
    BY <1>1, <2>1, <2>2 DEF RenameReady, AllWritten
  <2>8. CopyingOwn'
    BY <2>1, <2>2 DEF CopyingOwn
  <2>9. CommittedWhole'
    BY <2>1, <2>2 DEF CommittedWhole
  <2>10. LiveIsArchived'
    BY <2>1, <2>2 DEF LiveIsArchived
  <2>11. CompletedOnce'
    BY <2>1 DEF CompletedOnce
  <2> QED BY <2>3, <2>4, <2>5, <2>6, <2>7, <2>8, <2>9, <2>10, <2>11
<1>2. CASE committed[RoundOf(p)] # Absent
  BY <1>2, ReturnKeeps DEF CheckCommitted
<1> QED BY <1>1, <1>2

\* The rename publishes a whole tree, under a round nobody published before.
LEMMA RenameFacts ==
  ASSUME IInv, NEW p \in Publisher, Rename(p)
  PROVE  /\ RoundOf(p) \in Round
         /\ job[p] \in 1..Len(calls)
         /\ calls[job[p]].round = RoundOf(p)
         /\ staging[RoundOf(p)] = Whole(job[p])
         /\ Whole(job[p]) \in Tree
         /\ committed' = [committed EXCEPT ![RoundOf(p)] = Whole(job[p])]
<1>1. Busy(p) /\ Holds(p)
  BY DEF Rename, Busy, Holds
<1>2. AllWritten(p)
  BY DEF IInv, RenameReady, Rename
<1>3. staging[RoundOf(p)] = Whole(job[p])
  BY <1>1, <1>2, PartialWhole DEF IInv, StagingOwned, AllWritten, DueOf
<1> QED BY <1>1, <1>3, BusyTyped DEF Rename, RoundOf

LEMMA RenameKeeps ==
  ASSUME IInv, NEW p \in Publisher, Rename(p)
  PROVE  IInv'
<1> DEFINE n == RoundOf(p)
<1>1. /\ n \in Round
      /\ job[p] \in 1..Len(calls)
      /\ calls[job[p]].round = n
      /\ Whole(job[p]) \in Tree
      /\ committed' = [committed EXCEPT ![n] = Whole(job[p])]
  BY RenameFacts
<1> USE DEF IInv
<1>2. /\ UNCHANGED <<calls, job, live, started, completed>>
      /\ staging' = [staging EXCEPT ![n] = Absent]
      /\ committed[n] = Absent
      /\ pc' = [pc EXCEPT ![p] = pc'[p]] /\ pc'[p] = "copy"
      /\ pc[p] = "rename" /\ Busy(p) /\ Holds(p)
      /\ job' = [job EXCEPT ![p] = job'[p]]
      /\ written' = [written EXCEPT ![p] = written'[p]] /\ written'[p] = {}
  BY DEF Rename, Goto, Busy, Holds, TypeOK
<1>3. /\ \A q \in Publisher : q # p => pc'[q] = pc[q] /\ written'[q] = written[q]
      /\ \A q \in Publisher : RoundOf(q)' = RoundOf(q) /\ DueOf(q)' = DueOf(q)
      /\ \A c : Whole(c)' = Whole(c)
      /\ \A q \in Publisher : Busy(q)' => Busy(q)
  BY <1>2, OthersSame
<1>4. \A q \in Publisher : q # p /\ Holds(q) => RoundOf(q) # n
  BY <1>2 DEF StagingOwned
<1>5. /\ committed'[n] = Whole(job[p])
      /\ \A m \in Round : m # n => committed'[m] = committed[m] /\ staging'[m] = staging[m]
  BY <1>1, <1>2 DEF TypeOK
<1>6. Whole(job[p]) # Absent
  BY <1>1, AbsentIsNoTree
<1>7. \A q \in Publisher : Busy(q) => RoundOf(q) \in Round
  BY BusyTyped
<1>8. TypeOK'
  <2>1. Whole(job[p]) \in FinishedTree
    BY <1>1, CallsTyped
  <2> QED  BY <1>1, <1>2, <2>1 DEF TypeOK
<1>9. JobsRecorded'
  BY <1>2, <1>3 DEF JobsRecorded
<1>10. WrittenFresh'
  BY <1>2, <1>3 DEF WrittenFresh
<1>11. StagingOwned'
  <2>1. \A q \in Publisher : Holds(q)' => q # p /\ Holds(q) /\ Busy(q)
    BY <1>2, <1>3 DEF Holds, Busy
  <2>2. \A q \in Publisher : Holds(q)' => staging'[RoundOf(q)'] = Partial(job[q], written'[q])
    BY <1>3, <1>4, <1>5, <1>7, <2>1 DEF StagingOwned
  <2>3. \A q, r \in Publisher : Holds(q)' /\ Holds(r)' /\ RoundOf(q)' = RoundOf(r)' => q = r
    BY <1>3, <2>1 DEF StagingOwned
  <2> QED BY <1>2, <2>2, <2>3 DEF StagingOwned, Partial
<1>12. RenameReady'
  <2> SUFFICES ASSUME NEW q \in Publisher, pc'[q] = "rename"
               PROVE  AllWritten(q)' /\ committed'[RoundOf(q)'] = Absent
    BY DEF RenameReady
  <2>1. q # p /\ pc[q] = "rename" /\ Holds(q) /\ Busy(q)
    BY <1>2, <1>3 DEF Holds, Busy
  <2> QED BY <1>3, <1>4, <1>5, <1>7, <2>1 DEF RenameReady, AllWritten
<1>13. CopyingOwn'
  <2> SUFFICES ASSUME NEW q \in Publisher, pc'[q] = "copy"
               PROVE  /\ committed'[RoundOf(q)'] = Whole(job[q])'
                      /\ completed'[RoundOf(q)'] = 0
    BY DEF CopyingOwn
  <2>1. CASE q = p
    <3>1. completed[n] \in Nat /\ completed[n] <= 1 /\ completed[n] # 1
      BY <1>1, <1>2 DEF CompletedOnce, TypeOK
    <3> QED BY <1>2, <1>3, <1>5, <2>1, <3>1
  <2>2. CASE q # p
    <3>1. pc[q] = "copy" /\ Busy(q)
      BY <1>3, <2>2 DEF Busy
    <3>2. committed[RoundOf(q)] = Whole(job[q]) /\ Whole(job[q]) \in Tree
      BY <3>1, BusyTyped DEF CopyingOwn
    <3>3. RoundOf(q) # n
      BY <1>2, <3>2, AbsentIsNoTree
    <3> QED BY <1>2, <1>3, <1>5, <1>7, <3>1, <3>2, <3>3 DEF CopyingOwn
  <2> QED BY <2>1, <2>2
<1>14. CommittedWhole'
  BY <1>1, <1>2, <1>3, <1>5 DEF CommittedWhole
<1>15. LiveIsArchived'
  <2> SUFFICES ASSUME NEW r \in Replica, NEW f \in File, live[r][f] \in Call
               PROVE  /\ live[r][f] <= Len(calls)
                      /\ r \in calls[live[r][f]].due
                      /\ committed'[calls[live[r][f]].round] = Whole(live[r][f])
    BY <1>2, <1>3 DEF LiveIsArchived
  <2>1. /\ live[r][f] \in 1..Len(calls)
        /\ r \in calls[live[r][f]].due
        /\ committed[calls[live[r][f]].round] = Whole(live[r][f])
    BY DEF LiveIsArchived, Call, TypeOK
  <2>2. Whole(live[r][f]) \in Tree /\ calls[live[r][f]].round \in Round
    BY <2>1, CallsTyped
  <2>3. calls[live[r][f]].round # n
    BY <1>2, <2>1, <2>2, AbsentIsNoTree
  <2> QED BY <1>5, <2>1, <2>2, <2>3
<1>16. CompletedOnce'
  BY <1>2, <1>5, <1>6 DEF CompletedOnce
<1> QED BY <1>8, <1>9, <1>10, <1>11, <1>12, <1>13, <1>14, <1>15, <1>16

\* A copied file is the one of the archive, and the archive is the call's.
LEMMA CopyFileKeeps ==
  ASSUME IInv, NEW p \in Publisher, NEW r \in Replica, NEW f \in File,
         CopyFile(p, r, f)
  PROVE  IInv'
<1> USE DEF IInv
<1>1. /\ UNCHANGED <<calls, pc, job, staging, committed, started, completed>>
      /\ live' = [live EXCEPT ![r][f] = committed[RoundOf(p)][r][f]]
      /\ pc[p] = "copy" /\ Busy(p) /\ r \in DueOf(p)
      /\ pc' = [pc EXCEPT ![p] = pc'[p]]
      /\ job' = [job EXCEPT ![p] = job'[p]]
      /\ written' = [written EXCEPT ![p] = written'[p]]
      /\ written'[p] = written[p] \cup {<<r, f>>}
  BY DEF CopyFile, Busy, IsNextFile, TypeOK
<1>2. /\ \A q \in Publisher : q # p => written'[q] = written[q]
      /\ \A q \in Publisher : RoundOf(q)' = RoundOf(q) /\ DueOf(q)' = DueOf(q)
      /\ \A c : Whole(c)' = Whole(c)
  BY <1>1, OthersSame
<1>3. /\ job[p] \in 1..Len(calls) /\ job[p] \in Call
      /\ committed[RoundOf(p)] = Whole(job[p])
  BY <1>1, BusyTyped DEF CopyingOwn
<1>4. live' = [live EXCEPT ![r][f] = job[p]]
  <2>1. Whole(job[p])[r][f] = job[p]
    BY <1>1 DEF Whole, DueOf
  <2>2. committed[RoundOf(p)][r][f] = job[p]
    BY <1>3, <2>1
  <2> QED BY <1>1, <2>2
<1>5. TypeOK'
  <2>1. live' \in Tree
    BY <1>3, <1>4 DEF TypeOK, Tree, Content
  <2>2. written' \in [Publisher -> SUBSET (Replica \X File)]
    <3>1. written' = [written EXCEPT ![p] = @ \cup {<<r, f>>}]
      BY DEF CopyFile
    <3> QED BY <3>1 DEF TypeOK
  <2> QED BY <1>1, <2>1, <2>2 DEF TypeOK
<1>6. JobsRecorded'
  BY <1>1 DEF JobsRecorded, Busy
<1>7. WrittenFresh'
  BY <1>1, <1>2 DEF WrittenFresh
<1>8. StagingOwned'
  <2>1. \A q \in Publisher : Holds(q) => q # p
    BY <1>1 DEF Holds
  <2>2. \A q \in Publisher : Holds(q) => staging[RoundOf(q)] = Partial(job[q], written'[q])
    BY <1>2, <2>1 DEF StagingOwned
  <2> QED BY <1>1, <1>2, <2>2 DEF StagingOwned, Holds, Partial
<1>9. RenameReady'
  BY <1>1, <1>2 DEF RenameReady, AllWritten
<1>10. CopyingOwn'
  BY <1>1, <1>2 DEF CopyingOwn
<1>11. CommittedWhole'
  BY <1>1, <1>2 DEF CommittedWhole
<1>12. LiveIsArchived'
  <2> DEFINE OK(c, s) == /\ c <= Len(calls)
                         /\ s \in calls[c].due
                         /\ committed[calls[c].round] = Whole(c)
  <2>1. OK(job[p], r)
    BY <1>1, <1>3 DEF RoundOf, DueOf, TypeOK
  <2>2. ASSUME NEW s \in Replica, NEW g \in File, live'[s][g] \in Call
        PROVE  OK(live'[s][g], s)
    <3>1. live'[s][g] = IF s = r /\ g = f THEN job[p] ELSE live[s][g]
      BY <1>4 DEF TypeOK, Tree
    <3>2. CASE s = r /\ g = f
      BY <2>1, <3>1, <3>2
    <3>3. CASE ~(s = r /\ g = f)
      BY <2>2, <3>1, <3>3 DEF LiveIsArchived
    <3> QED BY <3>2, <3>3
  <2>3. \A c : Whole(c)' = Whole(c)
    BY <1>2
  <2> QED BY <1>1, <2>2, <2>3 DEF LiveIsArchived
<1>13. CompletedOnce'
  BY <1>1 DEF CompletedOnce
<1> QED BY <1>5, <1>6, <1>7, <1>8, <1>9, <1>10, <1>11, <1>12, <1>13

\* Only one call copies a round: a second one would have the same tree, hence
\* be the same call.
LEMMA OneCopier ==
  ASSUME IInv, NEW p \in Publisher, NEW q \in Publisher,
         pc[p] = "copy", pc[q] = "copy", RoundOf(p) = RoundOf(q)
  PROVE  p = q
<1>1. Whole(job[p]) = Whole(job[q])
  BY DEF IInv, CopyingOwn
<1>2. job[p] \in 1..Len(calls) /\ job[q] \in 1..Len(calls)
  BY BusyTyped DEF Busy
<1>3. job[p] = job[q]
  BY <1>1, <1>2, WholeInjective DEF IInv
<1> QED BY <1>3 DEF IInv, JobsRecorded, Busy

LEMMA CompleteKeeps ==
  ASSUME IInv, NEW p \in Publisher, Complete(p)
  PROVE  IInv'
<1> DEFINE n == RoundOf(p)
<1> USE DEF IInv
<1>1. /\ UNCHANGED <<calls, staging, committed, live, started>>
      /\ completed' = [completed EXCEPT ![n] = @ + 1]
      /\ pc[p] = "copy" /\ pc'[p] = "idle" /\ written'[p] = {}
      /\ pc' = [pc EXCEPT ![p] = pc'[p]]
      /\ job' = [job EXCEPT ![p] = 0]
      /\ job' = [job EXCEPT ![p] = job'[p]]
      /\ written' = [written EXCEPT ![p] = written'[p]]
      /\ written' = [written EXCEPT ![p] = {}]
  BY DEF Complete, Return, Goto, TypeOK
<1>2. /\ \A q \in Publisher : q # p => /\ pc'[q] = pc[q]
                                       /\ job'[q] = job[q]
                                       /\ written'[q] = written[q]
                                       /\ RoundOf(q)' = RoundOf(q)
                                       /\ DueOf(q)' = DueOf(q)
      /\ \A c : Whole(c)' = Whole(c)
      /\ \A q \in Publisher : Busy(q)' => q # p /\ Busy(q)
  BY <1>1, OthersSame DEF Busy
<1>3. n \in Round /\ committed[n] = Whole(job[p]) /\ Whole(job[p]) \in Tree
      /\ completed[n] = 0
  BY <1>1, BusyTyped DEF CopyingOwn, Busy
<1>4. /\ completed'[n] = 1
      /\ \A m \in Round : m # n => completed'[m] = completed[m]
  BY <1>1, <1>3 DEF TypeOK
<1>5. TypeOK'
  <2>1. completed' \in [Round -> Nat]
    BY <1>1, <1>3 DEF TypeOK
  <2>2. job' \in [Publisher -> 0..MaxCalls]
    BY <1>1, PublicationAssumption DEF TypeOK
  <2>3. pc' \in [Publisher -> {"idle", "check_staging", "make_staging", "stage",
                              "rename", "copy"}]
    BY <1>1 DEF TypeOK
  <2>4. written' \in [Publisher -> SUBSET (Replica \X File)]
    BY <1>1 DEF TypeOK
  <2> QED BY <1>1, <2>1, <2>2, <2>3, <2>4 DEF TypeOK
<1>6. JobsRecorded'
  BY <1>1, <1>2 DEF JobsRecorded
<1>7. WrittenFresh'
  BY <1>1, <1>2 DEF WrittenFresh
<1>8. \A q \in Publisher : pc'[q] # "idle" => q # p
  BY <1>1
<1>9. StagingOwned'
  BY <1>1, <1>2, <1>8 DEF StagingOwned, Holds, Partial
<1>10. RenameReady'
  BY <1>1, <1>2, <1>8 DEF RenameReady, AllWritten
<1>11. CopyingOwn'
  <2> SUFFICES ASSUME NEW q \in Publisher, pc'[q] = "copy"
               PROVE  /\ committed'[RoundOf(q)'] = Whole(job[q])'
                      /\ completed'[RoundOf(q)'] = 0
    BY DEF CopyingOwn
  <2>1. q # p /\ pc[q] = "copy" /\ Busy(q)
    BY <1>2, <1>8 DEF Busy
  <2>2. RoundOf(q) # n /\ RoundOf(q) \in Round
    BY <1>1, <2>1, OneCopier, BusyTyped
  <2> QED BY <1>1, <1>2, <1>4, <2>1, <2>2 DEF CopyingOwn
<1>12. CommittedWhole'
  BY <1>1, <1>2 DEF CommittedWhole
<1>13. LiveIsArchived'
  BY <1>1, <1>2 DEF LiveIsArchived
<1>14. CompletedOnce'
  BY <1>1, <1>3, <1>4, AbsentIsNoTree DEF CompletedOnce
<1> QED BY <1>5, <1>6, <1>7, <1>9, <1>10, <1>11, <1>12, <1>13, <1>14

\* A torn staging file has lost its owner: nobody relies on that tree.
LEMMA TearStagedKeeps ==
  ASSUME IInv, NEW p \in Publisher, NEW r \in Replica, NEW f \in File,
         TearStaged(p, r, f)
  PROVE  IInv'
<1> DEFINE n == RoundOf(p)
<1> USE DEF IInv
<1>1. /\ UNCHANGED <<calls, committed, live, started, completed>>
      /\ pc[p] = "stage" /\ pc'[p] = "idle" /\ written'[p] = {}
      /\ pc' = [pc EXCEPT ![p] = pc'[p]]
      /\ job' = [job EXCEPT ![p] = job'[p]]
      /\ written' = [written EXCEPT ![p] = written'[p]]
  BY DEF TearStaged, Return, Goto, TypeOK
<1>2. /\ \A q \in Publisher : q # p => /\ pc'[q] = pc[q]
                                       /\ job'[q] = job[q]
                                       /\ written'[q] = written[q]
                                       /\ RoundOf(q)' = RoundOf(q)
                                       /\ DueOf(q)' = DueOf(q)
      /\ \A c : Whole(c)' = Whole(c)
      /\ \A q \in Publisher : Busy(q)' => q # p /\ Busy(q)
  BY <1>1, OthersSame DEF Busy
<1>3. n \in Round /\ staging[n] \in Tree
  <2>1. n \in Round /\ job[p] \in Call
    BY <1>1, BusyTyped DEF Busy
  <2>2. staging[n] = Partial(job[p], written[p])
    BY <1>1 DEF StagingOwned, Holds
  <2> QED BY <2>1, <2>2, PartialTyped
<1>4. staging' = [staging EXCEPT ![n][r][f] = Torn]
  BY DEF TearStaged
<1>5. TypeOK'
  <2>1. [staging[n] EXCEPT ![r][f] = Torn] \in Tree
    BY <1>3 DEF Tree, Content
  <2>2. staging' \in [Round -> Tree \cup {Absent}]
    BY <1>3, <1>4, <2>1 DEF TypeOK
  <2>3. job' \in [Publisher -> 0..MaxCalls]
    BY PublicationAssumption DEF TypeOK, TearStaged, Return
  <2>4. pc' \in [Publisher -> {"idle", "check_staging", "make_staging", "stage",
                              "rename", "copy"}]
    BY <1>1 DEF TypeOK
  <2>5. written' \in [Publisher -> SUBSET (Replica \X File)]
    BY <1>1 DEF TypeOK
  <2> QED BY <1>1, <2>2, <2>3, <2>4, <2>5 DEF TypeOK
<1>6. JobsRecorded'
  BY <1>1, <1>2 DEF JobsRecorded
<1>7. WrittenFresh'
  BY <1>1, <1>2 DEF WrittenFresh
<1>8. \A q \in Publisher : pc'[q] # "idle" => q # p
  BY <1>1
<1>9. StagingOwned'
  <2>1. \A q \in Publisher : q # p /\ Holds(q) => RoundOf(q) # n
    BY <1>1 DEF StagingOwned, Holds
  <2>2. \A q \in Publisher : q # p /\ Holds(q) => staging'[RoundOf(q)] = staging[RoundOf(q)]
    BY <1>3, <1>4, <2>1 DEF StagingOwned, TypeOK
  <2> QED BY <1>2, <1>8, <2>2 DEF StagingOwned, Holds, Partial
<1>10. RenameReady'
  BY <1>1, <1>2, <1>8 DEF RenameReady, AllWritten
<1>11. CopyingOwn'
  BY <1>1, <1>2, <1>8 DEF CopyingOwn
<1>12. CommittedWhole'
  BY <1>1, <1>2 DEF CommittedWhole
<1>13. LiveIsArchived'
  BY <1>1, <1>2 DEF LiveIsArchived
<1>14. CompletedOnce'
  BY <1>1 DEF CompletedOnce
<1> QED BY <1>5, <1>6, <1>7, <1>9, <1>10, <1>11, <1>12, <1>13, <1>14

\* A torn authoritative file holds no call's book.
LEMMA TearLiveKeeps ==
  ASSUME IInv, NEW p \in Publisher, NEW r \in Replica, NEW f \in File,
         TearLive(p, r, f)
  PROVE  IInv'
<1> USE DEF IInv
<1>1. /\ UNCHANGED <<calls, staging, committed, started, completed>>
      /\ pc[p] = "copy" /\ pc'[p] = "idle" /\ written'[p] = {}
      /\ pc' = [pc EXCEPT ![p] = pc'[p]]
      /\ job' = [job EXCEPT ![p] = job'[p]]
      /\ written' = [written EXCEPT ![p] = written'[p]]
  BY DEF TearLive, Return, Goto, TypeOK
<1>2. /\ \A q \in Publisher : q # p => /\ pc'[q] = pc[q]
                                       /\ job'[q] = job[q]
                                       /\ written'[q] = written[q]
                                       /\ RoundOf(q)' = RoundOf(q)
                                       /\ DueOf(q)' = DueOf(q)
      /\ \A c : Whole(c)' = Whole(c)
      /\ \A q \in Publisher : Busy(q)' => q # p /\ Busy(q)
  BY <1>1, OthersSame DEF Busy
<1>4. live' = [live EXCEPT ![r][f] = Torn]
  BY DEF TearLive
<1>5. TypeOK'
  <2>1. live' \in Tree
    BY <1>4 DEF TypeOK, Tree, Content
  <2>3. job' \in [Publisher -> 0..MaxCalls]
    BY PublicationAssumption DEF TypeOK, TearLive, Return
  <2>4. pc' \in [Publisher -> {"idle", "check_staging", "make_staging", "stage",
                              "rename", "copy"}]
    BY <1>1 DEF TypeOK
  <2>5. written' \in [Publisher -> SUBSET (Replica \X File)]
    BY <1>1 DEF TypeOK
  <2> QED BY <1>1, <2>1, <2>3, <2>4, <2>5 DEF TypeOK
<1>6. JobsRecorded'
  BY <1>1, <1>2 DEF JobsRecorded
<1>7. WrittenFresh'
  BY <1>1, <1>2 DEF WrittenFresh
<1>8. \A q \in Publisher : pc'[q] # "idle" => q # p
  BY <1>1
<1>9. StagingOwned'
  BY <1>1, <1>2, <1>8 DEF StagingOwned, Holds, Partial
<1>10. RenameReady'
  BY <1>1, <1>2, <1>8 DEF RenameReady, AllWritten
<1>11. CopyingOwn'
  BY <1>1, <1>2, <1>8 DEF CopyingOwn
<1>12. CommittedWhole'
  BY <1>1, <1>2 DEF CommittedWhole
<1>13. LiveIsArchived'
  <2> DEFINE OK(c, s) == /\ c <= Len(calls)
                         /\ s \in calls[c].due
                         /\ committed[calls[c].round] = Whole(c)
  <2>1. ASSUME NEW s \in Replica, NEW g \in File, live'[s][g] \in Call
        PROVE  OK(live'[s][g], s)
    <3>1. live'[s][g] = IF s = r /\ g = f THEN Torn ELSE live[s][g]
      BY <1>4 DEF TypeOK, Tree
    <3>2. Torn \notin Call
      BY PublicationAssumption DEF Torn, Call
    <3> QED BY <2>1, <3>1, <3>2 DEF LiveIsArchived
  <2>2. \A c : Whole(c)' = Whole(c)
    BY <1>2
  <2> QED BY <1>1, <2>1, <2>2 DEF LiveIsArchived
<1>14. CompletedOnce'
  BY <1>1 DEF CompletedOnce
<1> QED BY <1>5, <1>6, <1>7, <1>9, <1>10, <1>11, <1>12, <1>13, <1>14

LEMMA NextKeeps == IInv /\ [Next]_vars => IInv'
<1> SUFFICES ASSUME IInv, [Next]_vars PROVE IInv'
  OBVIOUS
<1>1. ASSUME NEW p \in Publisher, NEW set \in CandidateSet, Begin(p, set) PROVE IInv'
  BY <1>1, BeginKeeps
<1>2. ASSUME NEW p \in Publisher, CheckStaging(p) PROVE IInv'
  BY <1>2, CheckStagingKeeps
<1>3. ASSUME NEW p \in Publisher, MakeStaging(p) PROVE IInv'
  BY <1>3, MakeStagingKeeps
<1>4. ASSUME NEW p \in Publisher, NEW r \in Replica, NEW f \in File, StageFile(p, r, f)
      PROVE  IInv'
  BY <1>4, StageFileKeeps
<1>5. ASSUME NEW p \in Publisher, CheckCommitted(p) PROVE IInv'
  BY <1>5, CheckCommittedKeeps
<1>6. ASSUME NEW p \in Publisher, Rename(p) PROVE IInv'
  BY <1>6, RenameKeeps
<1>7. ASSUME NEW p \in Publisher, NEW r \in Replica, NEW f \in File, CopyFile(p, r, f)
      PROVE  IInv'
  BY <1>7, CopyFileKeeps
<1>8. ASSUME NEW p \in Publisher, Complete(p) PROVE IInv'
  BY <1>8, CompleteKeeps
<1>9. ASSUME NEW p \in Publisher, Interrupt(p) PROVE IInv'
  BY <1>9, ReturnKeeps DEF Interrupt
<1>10. ASSUME NEW p \in Publisher, NEW r \in Replica, NEW f \in File, TearStaged(p, r, f)
       PROVE  IInv'
  BY <1>10, TearStagedKeeps
<1>11. ASSUME NEW p \in Publisher, NEW r \in Replica, NEW f \in File, TearLive(p, r, f)
       PROVE  IInv'
  BY <1>11, TearLiveKeeps
<1>12. ASSUME UNCHANGED vars PROVE IInv'
  <2>1. UNCHANGED <<calls, pc, job, written, staging, committed, live, started, completed>>
    BY <1>12 DEF vars
  <2>2. /\ \A p \in Publisher : RoundOf(p)' = RoundOf(p) /\ DueOf(p)' = DueOf(p)
        /\ \A c : Whole(c)' = Whole(c)
    BY <2>1 DEF RoundOf, DueOf, Whole
  <2>3. TypeOK' /\ JobsRecorded' /\ WrittenFresh' /\ CompletedOnce'
    BY <2>1 DEF IInv, TypeOK, JobsRecorded, WrittenFresh, CompletedOnce, Busy
  <2>4. StagingOwned'
    BY <2>1, <2>2 DEF IInv, StagingOwned, Holds, Partial
  <2>5. RenameReady' /\ CopyingOwn'
    BY <2>1, <2>2 DEF IInv, RenameReady, CopyingOwn, AllWritten
  <2>6. CommittedWhole'
    BY <2>1, <2>2 DEF IInv, CommittedWhole
  <2>7. LiveIsArchived'
    BY <2>1, <2>2 DEF IInv, LiveIsArchived
  <2> QED BY <2>3, <2>4, <2>5, <2>6, <2>7 DEF IInv
<1> QED BY <1>1, <1>2, <1>3, <1>4, <1>5, <1>6, <1>7, <1>8, <1>9, <1>10, <1>11, <1>12
        DEF Next, Step, Stop
-----------------------------------------------------------------------------
(* The invariants *)

\* IInv is an invariant of publication.
THEOREM Invariance == Spec => []IInv
<1>1. Init => IInv
  BY InitIInv
<1>2. IInv /\ [Next]_vars => IInv'
  BY NextKeeps
<1> QED BY <1>1, <1>2, PTL DEF Spec

\* Every variable keeps its type.
THEOREM TypeCorrect == Spec => []TypeOK
<1>1. IInv => TypeOK
  BY DEF IInv
<1> QED BY <1>1, Invariance, PTL

\* .committed/<round> is one call's complete candidate set, for any number of
\* racing or crashing publishers.
THEOREM CommittedAlwaysWhole == Spec => []CommittedWhole
<1>1. IInv => CommittedWhole
  BY DEF IInv
<1> QED BY <1>1, Invariance, PTL

\* A book in an authoritative file is already archived.
THEOREM LiveAlwaysArchived == Spec => []LiveIsArchived
<1>1. IInv => LiveIsArchived
  BY DEF IInv
<1> QED BY <1>1, Invariance, PTL

\* commit_completed is logged at most once per round, and only for an
\* archived one.
THEOREM CompletedAtMostOnce == Spec => []CompletedOnce
<1>1. IInv => CompletedOnce
  BY DEF IInv
<1> QED BY <1>1, Invariance, PTL
-----------------------------------------------------------------------------
(* The action properties and the refinement *)

\* The only step that touches the archive, and the steps that touch a staging
\* tree.
LEMMA WhoWrites ==
  ASSUME [Next]_vars
  PROVE  /\ committed' = committed \/ \E p \in Publisher : Rename(p)
         /\ \/ staging' = staging
            \/ \E p \in Publisher : MakeStaging(p) \/ Rename(p)
            \/ \E p \in Publisher, r \in Replica, f \in File :
                 StageFile(p, r, f) \/ TearStaged(p, r, f)
<1>1. CASE Next
  <2>1. PICK p \in Publisher : \/ \E set \in CandidateSet : Begin(p, set)
                               \/ Step(p)
                               \/ Stop(p)
    BY <1>1 DEF Next
  <2>2. ASSUME NEW set \in CandidateSet, Begin(p, set)
        PROVE  staging' = staging /\ committed' = committed
    BY <2>2 DEF Begin
  <2>3. CheckStaging(p) \/ CheckCommitted(p) \/ Complete(p) \/ Interrupt(p)
          => staging' = staging /\ committed' = committed
    BY DEF CheckStaging, CheckCommitted, Complete, Interrupt
  <2>4. ASSUME NEW r \in Replica, NEW f \in File, CopyFile(p, r, f) \/ TearLive(p, r, f)
        PROVE  staging' = staging /\ committed' = committed
    BY <2>4 DEF CopyFile, TearLive
  <2>5. MakeStaging(p) => committed' = committed
    BY DEF MakeStaging
  <2>6. ASSUME NEW r \in Replica, NEW f \in File, StageFile(p, r, f) \/ TearStaged(p, r, f)
        PROVE  committed' = committed
    BY <2>6 DEF StageFile, TearStaged
  <2> QED BY <2>1, <2>2, <2>3, <2>4, <2>5, <2>6 DEF Step, Stop
<1>2. CASE UNCHANGED vars
  BY <1>2 DEF vars
<1> QED BY <1>1, <1>2

\* An archived round never changes again.
THEOREM ArchiveNeverChanges == Spec => ArchiveFinal
<1>1. IInv /\ [Next]_vars =>
        \A n \in Round : committed[n] # Absent => committed'[n] = committed[n]
  <2> SUFFICES ASSUME IInv, [Next]_vars, NEW n \in Round, committed[n] # Absent
               PROVE  committed'[n] = committed[n]
    OBVIOUS
  <2>1. CASE committed' = committed
    BY <2>1
  <2>2. ASSUME NEW p \in Publisher, Rename(p) PROVE committed'[n] = committed[n]
    <3>1. RoundOf(p) # n
      BY <2>2 DEF Rename
    <3>2. committed' = [committed EXCEPT ![RoundOf(p)] = Whole(job[p])]
      BY <2>2, RenameFacts
    <3> QED BY <3>1, <3>2 DEF IInv, TypeOK
  <2> QED BY <2>1, <2>2, WhoWrites
<1>2. Spec => []IInv
  BY Invariance
<1>3. IInv /\ [Next]_vars =>
        [\A n \in Round : committed[n] # Absent => committed'[n] = committed[n]]_vars
  BY <1>1
<1> QED BY <1>2, <1>3, PTL DEF Spec, ArchiveFinal

\* A publisher gets hold of a staging tree by making it, for the round it is
\* called with.
LEMMA WhoHolds ==
  ASSUME IInv, [Next]_vars, NEW q \in Publisher, Holds(q)'
  PROVE  /\ RoundOf(q)' = RoundOf(q)
         /\ Holds(q) \/ staging[RoundOf(q)] = Absent
<1> USE DEF IInv
<1>1. ASSUME NEW p \in Publisher, NEW set \in CandidateSet, Begin(p, set)
      PROVE  RoundOf(q)' = RoundOf(q) /\ Holds(q)
  <2>1. pc'[q] = pc[q] /\ job'[q] = job[q]
    BY <1>1 DEF Begin, Goto, TypeOK, Holds
  <2>2. job[q] \in 1..Len(calls)
    BY <2>1 DEF JobsRecorded, Busy, Holds
  <2>3. calls'[job[q]] = calls[job[q]]
    BY <1>1, <2>2 DEF Begin, TypeOK
  <2> QED BY <2>1, <2>3 DEF RoundOf, Holds
<1>2. ASSUME NEW p \in Publisher, UNCHANGED <<calls, job>>,
             pc' = [pc EXCEPT ![p] = pc'[p]],
             pc'[p] = pc[p] \/ Holds(p) \/ staging[RoundOf(p)] = Absent
      PROVE  RoundOf(q)' = RoundOf(q) /\ (Holds(q) \/ staging[RoundOf(q)] = Absent)
  BY <1>2 DEF RoundOf, Holds, TypeOK
<1>3. ASSUME NEW p \in Publisher, Return(p), UNCHANGED calls
      PROVE  RoundOf(q)' = RoundOf(q) /\ Holds(q)
  <2>1. q # p /\ pc'[q] = pc[q] /\ job'[q] = job[q]
    BY <1>3 DEF Return, Goto, TypeOK, Holds
  <2> QED BY <1>3, <2>1 DEF RoundOf, Holds
<1>4. ASSUME NEW p \in Publisher, CheckStaging(p)
      PROVE  RoundOf(q)' = RoundOf(q) /\ (Holds(q) \/ staging[RoundOf(q)] = Absent)
  <2>1. CASE staging[RoundOf(p)] = Absent
    BY <1>2, <1>4, <2>1 DEF CheckStaging, Goto, TypeOK
  <2>2. CASE staging[RoundOf(p)] # Absent
    BY <1>3, <1>4, <2>2 DEF CheckStaging
  <2> QED BY <2>1, <2>2
<1>5. ASSUME NEW p \in Publisher, MakeStaging(p)
      PROVE  RoundOf(q)' = RoundOf(q) /\ (Holds(q) \/ staging[RoundOf(q)] = Absent)
  <2>1. CASE staging[RoundOf(p)] = Absent
    BY <1>2, <1>5, <2>1 DEF MakeStaging, Goto, TypeOK
  <2>2. CASE staging[RoundOf(p)] # Absent
    BY <1>3, <1>5, <2>2 DEF MakeStaging
  <2> QED BY <2>1, <2>2
<1>6. ASSUME NEW p \in Publisher, CheckCommitted(p)
      PROVE  RoundOf(q)' = RoundOf(q) /\ (Holds(q) \/ staging[RoundOf(q)] = Absent)
  <2>1. CASE committed[RoundOf(p)] = Absent
    BY <1>2, <1>6, <2>1 DEF CheckCommitted, Goto, TypeOK, Holds
  <2>2. CASE committed[RoundOf(p)] # Absent
    BY <1>3, <1>6, <2>2 DEF CheckCommitted
  <2> QED BY <2>1, <2>2
<1>7. ASSUME NEW p \in Publisher, NEW r \in Replica, NEW f \in File,
             StageFile(p, r, f) \/ CopyFile(p, r, f)
      PROVE  RoundOf(q)' = RoundOf(q) /\ Holds(q)
  BY <1>7 DEF StageFile, CopyFile, RoundOf, Holds
<1>8. ASSUME NEW p \in Publisher, Rename(p)
      PROVE  RoundOf(q)' = RoundOf(q) /\ Holds(q)
  <2>1. pc'[p] = "copy" /\ pc' = [pc EXCEPT ![p] = "copy"] /\ UNCHANGED <<calls, job>>
    BY <1>8 DEF Rename, Goto, TypeOK
  <2>2. q # p /\ pc'[q] = pc[q]
    BY <2>1 DEF Holds, TypeOK
  <2> QED BY <2>1, <2>2 DEF RoundOf, Holds
<1>9. ASSUME NEW p \in Publisher, NEW r \in Replica, NEW f \in File,
             TearStaged(p, r, f) \/ TearLive(p, r, f)
      PROVE  RoundOf(q)' = RoundOf(q) /\ Holds(q)
  BY <1>3, <1>9 DEF TearStaged, TearLive
<1>10. CASE UNCHANGED vars
  BY <1>10 DEF vars, RoundOf, Holds
<1>11. ASSUME NEW p \in Publisher, Complete(p) \/ Interrupt(p)
       PROVE  RoundOf(q)' = RoundOf(q) /\ Holds(q)
  BY <1>3, <1>11 DEF Complete, Interrupt
<1>12. CASE Next
  <2>1. PICK p \in Publisher : \/ \E set \in CandidateSet : Begin(p, set)
                               \/ Step(p)
                               \/ Stop(p)
    BY <1>12 DEF Next
  <2>2. CASE Step(p)
    BY <2>2, <1>4, <1>5, <1>6, <1>7, <1>8, <1>11 DEF Step
  <2>3. CASE Stop(p)
    BY <2>3, <1>9, <1>11 DEF Stop
  <2> QED BY <2>1, <2>2, <2>3, <1>1
<1> QED BY <1>10, <1>12

\* What an interrupted call left in .staging is never adopted: it is neither
\* extended, removed nor published.
THEOREM OrphansStay == Spec => OrphanNeverPublished
<1>1. ASSUME IInv, [Next]_vars, NEW n \in Round, Orphaned(n)
      PROVE  staging'[n] = staging[n] /\ committed'[n] = committed[n]
  <2>1. ASSUME NEW p \in Publisher, Holds(p) PROVE RoundOf(p) # n
    BY <1>1, <2>1 DEF Orphaned, Holds
  <2>2. ASSUME NEW p \in Publisher, Rename(p)
        PROVE  staging'[n] = staging[n] /\ committed'[n] = committed[n]
    <3>1. RoundOf(p) # n
      BY <2>1, <2>2 DEF Rename, Holds
    <3>2. committed' = [committed EXCEPT ![RoundOf(p)] = Whole(job[p])]
      BY <1>1, <2>2, RenameFacts
    <3>3. staging' = [staging EXCEPT ![RoundOf(p)] = Absent]
      BY <2>2 DEF Rename
    <3> QED BY <1>1, <3>1, <3>2, <3>3 DEF IInv, TypeOK
  <2>3. ASSUME NEW p \in Publisher, MakeStaging(p) PROVE staging'[n] = staging[n]
    <3>1. CASE staging[RoundOf(p)] = Absent
      <4>1. RoundOf(p) # n
        BY <1>1, <3>1 DEF Orphaned
      <4>2. staging' = [staging EXCEPT ![RoundOf(p)] = EmptyTree]
        BY <2>3, <3>1 DEF MakeStaging
      <4>3. staging \in [Round -> Tree \cup {Absent}]
        BY <1>1 DEF IInv, TypeOK
      <4> QED BY <4>1, <4>2, <4>3
    <3>2. CASE staging[RoundOf(p)] # Absent
      BY <2>3, <3>2 DEF MakeStaging
    <3> QED BY <3>1, <3>2
  <2>4. ASSUME NEW p \in Publisher, NEW r \in Replica, NEW f \in File,
               StageFile(p, r, f) \/ TearStaged(p, r, f)
        PROVE  staging'[n] = staging[n]
    <3>1. RoundOf(p) # n
      BY <2>1, <2>4 DEF StageFile, TearStaged, Holds
    <3> QED BY <1>1, <2>4, <3>1 DEF StageFile, TearStaged, IInv, TypeOK
  <2> QED BY <1>1, <2>2, <2>3, <2>4, WhoWrites
<1>2. ASSUME IInv, [Next]_vars, NEW n \in Round, Orphaned(n)
      PROVE  Orphaned(n)'
  <2>1. staging'[n] # Absent
    BY <1>1, <1>2 DEF Orphaned
  <2>2. ASSUME NEW q \in Publisher, Holds(q)' PROVE RoundOf(q)' # n
    BY <1>2, <2>2, WhoHolds DEF Orphaned, Holds
  <2> QED BY <2>1, <2>2 DEF Orphaned, Holds
<1>3. Spec => []IInv
  BY Invariance
<1>4. IInv /\ [Next]_vars =>
        [\A n \in Round :
           Orphaned(n) => /\ Orphaned(n)'
                          /\ staging'[n] = staging[n]
                          /\ committed'[n] = committed[n]]_vars
  BY <1>1, <1>2
<1> QED BY <1>3, <1>4, PTL DEF Spec, OrphanNeverPublished

\* Seen through its archive, publication is atomic: every step either commits
\* one whole candidate set under a new round or is invisible.
THEOREM PublicationIsAtomic == Spec => ArchiveIsAtomic
<1>1. Init => Atomic!Init
  BY DEF Init, Atomic!Init, ArchiveOf
<1>2. IInv /\ [Next]_vars => [Atomic!Next]_([n \in Round |-> ArchiveOf(n)])
  <2> SUFFICES ASSUME IInv, [Next]_vars
               PROVE  \/ Atomic!Next
                      \/ UNCHANGED [n \in Round |-> ArchiveOf(n)]
    OBVIOUS
  <2>1. CASE committed' = committed
    BY <2>1 DEF ArchiveOf
  <2>2. ASSUME NEW p \in Publisher, Rename(p) PROVE Atomic!Next
    <3>n. PICK n \in Round : n = RoundOf(p)
      BY <2>2, RenameFacts
    <3> DEFINE books == [r \in calls[job[p]].due |-> [f \in File |-> job[p]]]
    <3>1. /\ job[p] \in 1..Len(calls)
          /\ Whole(job[p]) # Absent
          /\ committed' = [committed EXCEPT ![n] = Whole(job[p])]
      BY <2>2, <3>n, RenameFacts, AbsentIsNoTree
    <3>2. /\ job[p] \in Call
          /\ calls[job[p]].due \in SUBSET Replica
          /\ calls[job[p]].due # {}
      BY <3>1, CallsTyped DEF IInv
    <3>3. committed[n] = Absent
      BY <2>2, <3>n DEF Rename
    <3>4. committed'[n] = Whole(job[p]) /\ \A m \in Round : m # n => committed'[m] = committed[m]
      BY <3>1 DEF IInv, TypeOK
    <3>5. {s \in Replica : Whole(job[p])[s]["portfolio"] # NoFile} = calls[job[p]].due
      BY <3>2, PublicationAssumption DEF Whole, File, NoFile, Call
    <3>6. \A r \in calls[job[p]].due : Whole(job[p])[r] = [f \in File |-> job[p]]
      BY <3>2 DEF Whole
    <3>c. ArchiveOf(n)' = [r \in calls[job[p]].due |-> Whole(job[p])[r]]
      <4>1. ArchiveOf(n)' =
              IF committed'[n] = Absent THEN Absent
              ELSE [r \in {s \in Replica : committed'[n][s]["portfolio"] # NoFile} |->
                      committed'[n][r]]
        BY DEF ArchiveOf
      <4> QED BY <3>1, <3>4, <3>5, <4>1
    <3>7. ArchiveOf(n)' = books
      BY <3>6, <3>c, Zenon
    <3>8. \A m \in Round : m # n => ArchiveOf(m)' = ArchiveOf(m)
      BY <3>4 DEF ArchiveOf
    <3>9. [m \in Round |-> ArchiveOf(m)]' = [[m \in Round |-> ArchiveOf(m)] EXCEPT ![n] = books]
      <4> DEFINE before == [m \in Round |-> ArchiveOf(m)]
                 after  == [m \in Round |-> ArchiveOf(m)']
      <4>1. \A m \in Round : after[m] = [before EXCEPT ![n] = books][m]
        BY <3>7, <3>8
      <4>2. after = [before EXCEPT ![n] = books]
        BY <4>1
      <4> QED BY <4>2
    <3>10. ArchiveOf(n) = Absent
      BY <3>3 DEF ArchiveOf
    <3>11. Atomic!IsCandidateSet(books)
      BY <3>2 DEF Atomic!IsCandidateSet
    <3> HIDE DEF books
    <3>12. Atomic!Commit(n)
      BY <3>7, <3>9, <3>10, <3>11 DEF Atomic!Commit
    <3> QED BY <3>1, <3>12 DEF Atomic!Next
  <2> QED BY <2>1, <2>2, WhoWrites
<1>3. Spec => []IInv
  BY Invariance
<1> QED BY <1>1, <1>2, <1>3, PTL DEF Spec, ArchiveIsAtomic, Atomic!Spec
=============================================================================
