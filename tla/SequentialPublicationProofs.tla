---------------------- MODULE SequentialPublicationProofs ----------------------
(***************************************************************************)
(* Proofs about Publication with one operator process at a time, and any   *)
(* number of rounds, replicas, calls and interruptions: the audit log then *)
(* tells whether the authoritative books can be trusted.                   *)
(***************************************************************************)
EXTENDS MCPublication, PublicationProofs, FiniteSetTheorems

-----------------------------------------------------------------------------
(* The inductive invariant *)

\* One call is under way at most, and it is the last one.
OneAtATime ==
  /\ \A p, q \in Publisher : Busy(p) /\ Busy(q) => p = q
  /\ \A p \in Publisher : Busy(p) => job[p] = Len(calls)

\* What a call has still to copy.
Pending(c, r, f) ==
  \E p \in Publisher : pc[p] = "copy" /\ job[p] = c /\ <<r, f>> \notin written[p]

Copied(r, f) == {c \in Published(r) : ~Pending(c, r, f)}

IsLast(c, S) == (S = {} /\ c = NoFile) \/ (c \in S /\ \A d \in S : d <= c)

\* No archived round was left behind before its copy was complete.
NoneAbandoned ==
  \A n \in Round :
    committed[n] # Absent =>
      completed[n] = 1 \/ \E p \in Publisher : pc[p] = "copy" /\ RoundOf(p) = n

CopiesFollow ==
  NoneAbandoned => \A r \in Replica, f \in File : IsLast(live[r][f], Copied(r, f))

SInv ==
  /\ IInv
  /\ ~overlapped => OneAtATime /\ CopiesFollow

-----------------------------------------------------------------------------
(* Facts about the operators *)

LEMMA LastIsLatest ==
  ASSUME IInv, NEW r \in Replica, NEW c, IsLast(c, Published(r))
  PROVE  c = Latest(r)
<1>1. CASE Published(r) = {}
  BY <1>1 DEF IsLast, Latest
<1>2. CASE c \in Published(r) /\ \A d \in Published(r) : d <= c
  <2>1. Published(r) \subseteq Int
    BY DEF Published
  <2>2. \A e \in Published(r) : (\A d \in Published(r) : d <= e) => e = c
    BY <1>2, <2>1
  <2> QED  BY <1>2, <2>2 DEF Latest
<1> QED  BY <1>1, <1>2 DEF IsLast

LEMMA PublishedSame ==
  ASSUME NEW r, UNCHANGED <<calls, committed>>
  PROVE  Published(r)' = Published(r)
BY DEF Published, Whole

\* What a step of p leaves to the other publishers.
Others(p) ==
  \A q \in Publisher : q # p => pc'[q] = pc[q] /\ job'[q] = job[q] /\ written'[q] = written[q]

-----------------------------------------------------------------------------
(* One call at a time *)

LEMMA WorkAlone ==
  ASSUME IInv, OneAtATime, NEW p \in Publisher, Busy(p), Others(p),
         UNCHANGED calls, pc'[p] # "idle" => job'[p] = job[p]
  PROVE  OneAtATime'
BY DEF OneAtATime, Others, Busy

LEMMA BeginAlone ==
  ASSUME IInv, OneAtATime, NEW p \in Publisher, NEW set \in CandidateSet, Begin(p, set),
         ~(Cardinality(Running') > 1)
  PROVE  OneAtATime'
<1>1. /\ Others(p) /\ pc[p] = "idle" /\ pc'[p] = "check_staging"
      /\ job'[p] = Len(calls) + 1
      /\ calls \in Seq(CandidateSet) /\ calls' = Append(calls, set)
  BY DEF Begin, Goto, Others, IInv, TypeOK
<1>2. Len(calls') = Len(calls) + 1
  BY <1>1
<1>3. ASSUME NEW q \in Publisher, q # p, Busy(q)  PROVE FALSE
  <2>1. \A x \in Publisher : pc'[x] # "idle" => x = p \/ x = q
    BY <1>1, <1>3 DEF OneAtATime, Busy, Others
  <2>2. Running' = {q} \cup {p}
    BY <1>1, <1>3, <2>1 DEF Running, Busy, Others
  <2>3. IsFiniteSet({q}) /\ Cardinality({q}) = 1
    BY FS_Singleton
  <2>4. p \notin {q}
    BY <1>3
  <2>5. Cardinality({q} \cup {p}) = Cardinality({q}) + 1
    BY <2>3, <2>4, FS_AddElement, Zenon
  <2> QED  BY <2>2, <2>3, <2>5
<1> QED  BY <1>1, <1>2, <1>3 DEF OneAtATime, Others, Busy

-----------------------------------------------------------------------------
(* The books follow the archive *)

\* A step that neither archives, copies nor announces.
LEMMA QuietStep ==
  ASSUME CopiesFollow, NEW p \in Publisher, Others(p),
         pc[p] # "copy", pc'[p] # "copy", UNCHANGED <<calls, committed, live, completed>>
  PROVE  CopiesFollow'
<1>1. \A q \in Publisher : pc'[q] = "copy" <=> pc[q] = "copy"
  BY DEF Others
<1>2. \A q \in Publisher : pc[q] = "copy" => /\ job'[q] = job[q] /\ written'[q] = written[q]
                                             /\ RoundOf(q)' = RoundOf(q)
  BY DEF Others, RoundOf
<1>3. \A c, r, f : Pending(c, r, f)' <=> Pending(c, r, f)
  BY <1>1, <1>2 DEF Pending
<1>4. NoneAbandoned' => NoneAbandoned
  BY <1>1, <1>2 DEF NoneAbandoned
<1>5. \A r, f : Copied(r, f)' = Copied(r, f)
  BY <1>3, PublishedSame DEF Copied
<1> QED  BY <1>4, <1>5 DEF CopiesFollow, IsLast

\* A copy that stops abandons its round for ever.
LEMMA AbandonStep ==
  ASSUME IInv, NEW p \in Publisher, Others(p), pc[p] = "copy", pc'[p] = "idle",
         UNCHANGED <<calls, committed, completed>>
  PROVE  CopiesFollow'
<1> DEFINE n == RoundOf(p)
<1>1. /\ n \in Round /\ committed[n] = Whole(job[p]) /\ completed[n] = 0
      /\ Whole(job[p]) \in Tree
  BY BusyTyped DEF IInv, CopyingOwn, Busy
<1>2. committed[n] # Absent
  BY <1>1, AbsentIsNoTree
<1>3. ASSUME NEW q \in Publisher, pc'[q] = "copy", RoundOf(q)' = n  PROVE FALSE
  <2>1. q # p /\ pc[q] = "copy" /\ RoundOf(q) = n
    BY <1>3 DEF Others, RoundOf
  <2> QED  BY <2>1, OneCopier
<1>4. PICK m \in Round : m = n
  BY <1>1
<1>5. committed'[m] # Absent /\ completed'[m] # 1
      /\ \A q \in Publisher : pc'[q] = "copy" => RoundOf(q)' # m
  BY <1>1, <1>2, <1>3, <1>4
<1>6. ~NoneAbandoned'
  BY <1>5 DEF NoneAbandoned
<1> QED  BY <1>6 DEF CopiesFollow

LEMMA BeginFollows ==
  ASSUME IInv, CopiesFollow, NEW p \in Publisher, NEW set \in CandidateSet, Begin(p, set)
  PROVE  CopiesFollow'
<1>1. /\ Others(p) /\ pc[p] = "idle" /\ pc'[p] = "check_staging"
      /\ calls \in Seq(CandidateSet) /\ calls' = Append(calls, set)
      /\ UNCHANGED <<written, staging, committed, live, completed>>
  BY DEF Begin, Goto, Others, IInv, TypeOK
<1>2. /\ Len(calls') = Len(calls) + 1 /\ Len(calls) \in Nat
      /\ \A c \in 1..Len(calls) : calls'[c] = calls[c]
      /\ calls'[Len(calls) + 1] = set
  BY <1>1
<1>3. \A c \in 1..Len(calls) : Whole(c)' = Whole(c)
  BY <1>2 DEF Whole
<1>4. \A q \in Publisher : pc'[q] = "copy" <=> pc[q] = "copy"
  BY <1>1 DEF Others
<1>5. ASSUME NEW q \in Publisher, pc[q] = "copy"
      PROVE  /\ job'[q] = job[q] /\ written'[q] = written[q] /\ RoundOf(q)' = RoundOf(q)
  <2>1. q # p /\ job[q] \in 1..Len(calls)
    BY <1>1, <1>5, BusyTyped DEF Busy
  <2> QED  BY <1>1, <1>2, <2>1 DEF Others, RoundOf
<1>6. \A c, r, f : Pending(c, r, f)' <=> Pending(c, r, f)
  BY <1>4, <1>5 DEF Pending
<1>7. NoneAbandoned' => NoneAbandoned
  BY <1>1, <1>4, <1>5 DEF NoneAbandoned
<1>8. PICK new : new = Len(calls) + 1
  OBVIOUS
<1>9. Whole(new)' \in Tree /\ \E r \in Replica : Whole(new)'[r]["portfolio"] = new
  <2>1. IInv'
    BY BeginKeeps
  <2>2. new \in Call
    BY <1>1, <1>2, <1>8, <2>1, PublicationAssumption DEF IInv, TypeOK, Call
  <2>3. Whole(new)' = [r \in Replica |-> [f \in File |-> IF r \in set.due THEN new ELSE NoFile]]
    BY <1>2, <1>8 DEF Whole
  <2>4. PICK r \in Replica : r \in set.due
    BY DEF CandidateSet
  <2> QED  BY <2>2, <2>3, <2>4 DEF Tree, Content, File
<1>10. ASSUME NEW n \in Round  PROVE committed[n] # Whole(new)'
  <2>1. CASE committed[n] = Absent
    BY <1>9, <2>1, AbsentIsNoTree
  <2>2. CASE committed[n] # Absent
    <3>1. PICK c \in 1..Len(calls) : committed[n] = Whole(c)
      BY <2>2 DEF IInv, CommittedWhole
    <3>2. \A r \in Replica : Whole(c)[r]["portfolio"] \in {c, NoFile}
      BY DEF Whole, File
    <3>3. c # new /\ NoFile # new
      BY <1>2, <1>8 DEF NoFile
    <3> QED  BY <1>9, <3>1, <3>2, <3>3
  <2> QED  BY <2>1, <2>2
<1>11. ASSUME NEW r \in Replica  PROVE Published(r)' = Published(r)
  <2>1. 1..Len(calls') = 1..Len(calls) \cup {new} /\ new \notin 1..Len(calls)
    BY <1>2, <1>8
  <2>2. calls'[new].round \in Round
    BY <1>2, <1>8 DEF CandidateSet
  <2>3. new \notin Published(r)'
    BY <1>1, <1>10, <2>2 DEF Published
  <2> QED  BY <1>1, <1>2, <1>3, <2>1, <2>3 DEF Published
<1>12. \A r \in Replica, f \in File : Copied(r, f)' = Copied(r, f)
  BY <1>6, <1>11 DEF Copied
<1> QED  BY <1>1, <1>7, <1>12 DEF CopiesFollow, IsLast

LEMMA RenameFollows ==
  ASSUME IInv, OneAtATime, CopiesFollow, NEW p \in Publisher, Rename(p)
  PROVE  CopiesFollow'
<1> DEFINE n == RoundOf(p)
<1>1. /\ Others(p) /\ pc[p] = "rename" /\ pc'[p] = "copy" /\ job' = job /\ written'[p] = {}
      /\ committed[n] = Absent
      /\ UNCHANGED <<calls, live, completed>>
  BY DEF Rename, Goto, Others, IInv, TypeOK
<1>2. /\ n \in Round /\ job[p] \in 1..Len(calls) /\ calls[job[p]].round = n
      /\ committed' = [committed EXCEPT ![n] = Whole(job[p])]
  BY RenameFacts
<1>3. committed \in [Round -> FinishedTree \cup {Absent}]
  BY DEF IInv, TypeOK
<1>4. ASSUME NEW q \in Publisher, pc[q] = "copy"  PROVE FALSE
  BY <1>1, <1>4 DEF OneAtATime, Busy
<1>5. ASSUME NEW q \in Publisher, pc'[q] = "copy"  PROVE q = p
  BY <1>1, <1>4, <1>5 DEF Others
<1>6. NoneAbandoned' => NoneAbandoned
  <2> SUFFICES ASSUME NoneAbandoned', NEW m \in Round, committed[m] # Absent
               PROVE  completed[m] = 1
    BY DEF NoneAbandoned
  <2>1. m # n /\ committed'[m] = committed[m]
    BY <1>1, <1>2, <1>3
  <2>2. \A q \in Publisher : pc'[q] = "copy" => RoundOf(q)' # m
    BY <1>1, <1>5, <2>1 DEF RoundOf
  <2> QED  BY <1>1, <2>1, <2>2 DEF NoneAbandoned
<1>7. ASSUME NEW r \in Replica, NEW f \in File  PROVE Copied(r, f)' = Copied(r, f)
  <2>1. \A c : ~Pending(c, r, f)
    BY <1>4 DEF Pending
  <2>2. \A c : Pending(c, r, f)' <=> c = job[p]
    BY <1>1, <1>5 DEF Pending
  <2>3. \A c : Whole(c)' = Whole(c)
    BY <1>1 DEF Whole
  <2>4. ASSUME NEW c \in 1..Len(calls), c # job[p]
        PROVE  committed'[calls[c].round] = Whole(c) <=> committed[calls[c].round] = Whole(c)
    <3>1. calls[c].round \in Round /\ Whole(c) \in Tree
      BY CallsTyped DEF IInv
    <3>2. CASE calls[c].round # n
      BY <1>2, <1>3, <3>1, <3>2
    <3>3. CASE calls[c].round = n
      <4>1. committed[n] # Whole(c)
        BY <1>1, <3>1, AbsentIsNoTree
      <4>2. Whole(job[p]) # Whole(c)
        BY <1>2, <2>4, WholeInjective DEF IInv
      <4> QED  BY <1>2, <1>3, <3>3, <4>1, <4>2
    <3> QED  BY <3>2, <3>3
  <2>5. job[p] \notin Published(r)
    <3>1. Whole(job[p]) \in Tree
      BY <1>2, CallsTyped DEF IInv
    <3> QED  BY <1>1, <1>2, <3>1, AbsentIsNoTree DEF Published
  <2> QED  BY <1>1, <2>1, <2>2, <2>3, <2>4, <2>5 DEF Copied, Published
<1> QED  BY <1>1, <1>6, <1>7 DEF CopiesFollow, IsLast

LEMMA CopyFollows ==
  ASSUME IInv, OneAtATime, CopiesFollow, NEW p \in Publisher, NEW r \in Replica, NEW f \in File,
         CopyFile(p, r, f)
  PROVE  CopiesFollow'
<1> DEFINE c == job[p]
<1>1. /\ Others(p) /\ pc' = pc /\ job' = job /\ pc[p] = "copy"
      /\ written'[p] = written[p] \cup {<<r, f>>} /\ r \in DueOf(p)
      /\ live' = [live EXCEPT ![r][f] = committed[RoundOf(p)][r][f]]
      /\ UNCHANGED <<calls, committed, completed>>
  BY DEF CopyFile, IsNextFile, Others, IInv, TypeOK
<1>2. /\ c \in 1..Len(calls) /\ c = Len(calls) /\ committed[RoundOf(p)] = Whole(c)
  BY <1>1, BusyTyped DEF IInv, CopyingOwn, Busy, OneAtATime
<1>3. c \in Published(r)
  BY <1>1, <1>2 DEF Published, RoundOf, DueOf
<1>4. live \in Tree /\ live'[r][f] = c
      /\ \A q \in Replica, g \in File : <<q, g>> # <<r, f>> => live'[q][g] = live[q][g]
  BY <1>1, <1>2 DEF IInv, TypeOK, Tree, Whole, DueOf
<1>5. \A q \in Publisher : pc[q] = "copy" => q = p
  BY <1>1 DEF OneAtATime, Busy
<1>6. NoneAbandoned' => NoneAbandoned
  BY <1>1 DEF NoneAbandoned, RoundOf
<1>7. \A d, q, g : Pending(d, q, g)' <=> Pending(d, q, g) /\ <<q, g>> # <<r, f>>
  BY <1>1, <1>5 DEF Pending
<1>8. \A q : Published(q)' = Published(q)
  BY <1>1, PublishedSame
<1>9. ASSUME NoneAbandoned', NEW q \in Replica, NEW g \in File
      PROVE  IsLast(live[q][g], Copied(q, g))'
  <2>1. CASE <<q, g>> # <<r, f>>
    <3>1. Copied(q, g)' = Copied(q, g)
      BY <1>7, <1>8, <2>1 DEF Copied
    <3> QED  BY <1>4, <1>6, <1>9, <2>1, <3>1 DEF CopiesFollow, IsLast
  <2>2. CASE q = r /\ g = f
    <3>1. Copied(r, f)' = Published(r)
      BY <1>7, <1>8 DEF Copied
    <3>2. \A d \in Published(r) : d <= c
      BY <1>2 DEF Published
    <3> QED  BY <1>3, <1>4, <2>2, <3>1, <3>2 DEF IsLast
  <2> QED  BY <2>1, <2>2
<1> QED  BY <1>9 DEF CopiesFollow

LEMMA CompleteFollows ==
  ASSUME IInv, OneAtATime, CopiesFollow, NEW p \in Publisher, Complete(p)
  PROVE  CopiesFollow'
<1> DEFINE n == RoundOf(p)
<1>1. /\ Others(p) /\ pc[p] = "copy" /\ pc'[p] = "idle" /\ AllWritten(p)
      /\ completed' = [completed EXCEPT ![n] = @ + 1]
      /\ UNCHANGED <<calls, committed, live>>
  BY DEF Complete, Return, Goto, Others, IInv, TypeOK
<1>2. \A q \in Publisher : pc[q] = "copy" => q = p
  BY <1>1 DEF OneAtATime, Busy
<1>3. NoneAbandoned' => NoneAbandoned
  <2> SUFFICES ASSUME NoneAbandoned', NEW m \in Round, committed[m] # Absent, m # n
               PROVE  completed[m] = 1
    BY <1>1 DEF NoneAbandoned
  <2>1. completed'[m] = completed[m]
    BY <1>1 DEF IInv, TypeOK
  <2>2. \A q \in Publisher : pc'[q] # "copy"
    BY <1>1, <1>2 DEF Others
  <2> QED  BY <1>1, <2>1, <2>2 DEF NoneAbandoned
<1>4. ASSUME NEW r \in Replica, NEW f \in File  PROVE Copied(r, f)' = Copied(r, f)
  <2>1. \A c : ~Pending(c, r, f)'
    BY <1>1, <1>2 DEF Pending, Others
  <2>2. \A c \in Published(r) : ~Pending(c, r, f)
    BY <1>1, <1>2 DEF Published, Pending, AllWritten, DueOf
  <2> QED  BY <1>1, <2>1, <2>2, PublishedSame DEF Copied
<1> QED  BY <1>1, <1>3, <1>4 DEF CopiesFollow, IsLast

-----------------------------------------------------------------------------
(* The invariant *)

LEMMA SInitHolds == MCInit => SInv
<1> SUFFICES ASSUME MCInit  PROVE SInv
  OBVIOUS
<1>1. IInv /\ Init
  BY InitIInv DEF MCInit
<1>2. OneAtATime
  BY <1>1 DEF Init, OneAtATime, Busy
<1>3. ASSUME NEW r \in Replica, NEW f \in File  PROVE IsLast(live[r][f], Copied(r, f))
  <2>1. Copied(r, f) = {}
    BY <1>1 DEF Init, Copied, Published
  <2>2. live[r][f] = NoFile
    BY <1>1 DEF Init, EmptyTree
  <2> QED  BY <2>1, <2>2 DEF IsLast
<1> QED  BY <1>1, <1>2, <1>3 DEF SInv, CopiesFollow

LEMMA SNextHolds ==
  ASSUME SInv, [MCNext]_<<vars, overlapped>>
  PROVE  SInv'
<1>1. IInv /\ IInv'
  <2>1. [Next]_vars
    BY DEF MCNext, vars
  <2> QED  BY <2>1, NextKeeps DEF SInv
<1>2. CASE UNCHANGED <<vars, overlapped>>
  <2>1. UNCHANGED <<calls, pc, job, written, staging, committed, live, started, completed>>
    BY <1>2 DEF vars
  <2>2. (\A c, r, f : Pending(c, r, f)' <=> Pending(c, r, f))
        /\ \A r : Published(r)' = Published(r)
    BY <2>1, PublishedSame DEF Pending
  <2>3. NoneAbandoned' <=> NoneAbandoned
    BY <2>1 DEF NoneAbandoned, RoundOf
  <2>4. \A r, f : Copied(r, f)' = Copied(r, f)
    BY <2>2 DEF Copied
  <2> QED  BY <1>1, <1>2, <2>1, <2>3, <2>4
              DEF SInv, OneAtATime, Busy, CopiesFollow, IsLast
<1>3. CASE MCNext
  <2> SUFFICES ASSUME ~overlapped'  PROVE OneAtATime' /\ CopiesFollow'
    BY <1>1 DEF SInv
  <2>1. OneAtATime /\ CopiesFollow /\ ~(Cardinality(Running') > 1)
    BY <1>3 DEF MCNext, SInv
  <2>2. PICK p \in Publisher : \/ \E set \in CandidateSet : Begin(p, set)
                               \/ Step(p)
                               \/ Stop(p)
    BY <1>3 DEF MCNext, Next
  <2>3. CASE \E set \in CandidateSet : Begin(p, set)
    BY <1>1, <2>1, <2>3, BeginAlone, BeginFollows
  <2>4. ASSUME Busy(p), Others(p), UNCHANGED calls, pc'[p] # "idle" => job'[p] = job[p]
        PROVE  OneAtATime'
    BY <1>1, <2>1, <2>4, WorkAlone
  <2>5. ASSUME Return(p)  PROVE Others(p) /\ pc'[p] = "idle"
    BY <1>1, <2>5 DEF Return, Goto, Others, IInv, TypeOK
  <2>6. CASE CheckStaging(p) \/ MakeStaging(p) \/ CheckCommitted(p)
    <3>1. /\ Busy(p) /\ pc[p] # "copy" /\ UNCHANGED <<calls, committed, live, completed>>
          /\ \/ Return(p)
             \/ /\ job' = job /\ written' = written
                /\ \E label \in {"make_staging", "stage", "rename"} : Goto(p, label)
      BY <2>6 DEF CheckStaging, MakeStaging, CheckCommitted, Busy
    <3>2. Others(p) /\ pc'[p] # "copy" /\ (pc'[p] # "idle" => job'[p] = job[p])
      BY <1>1, <2>5, <3>1 DEF Goto, Others, IInv, TypeOK
    <3> QED  BY <2>1, <2>4, <3>1, <3>2, QuietStep
  <2>7. ASSUME NEW r \in Replica, NEW f \in File, StageFile(p, r, f) \/ TearStaged(p, r, f)
        PROVE  OneAtATime' /\ CopiesFollow'
    <3>1. /\ pc[p] = "stage" /\ UNCHANGED <<calls, committed, live, completed>>
          /\ \/ Return(p)
             \/ job' = job /\ pc' = pc /\ \E w : written' = [written EXCEPT ![p] = w]
      BY <2>7 DEF StageFile, TearStaged
    <3>2. Busy(p) /\ Others(p) /\ pc'[p] # "copy" /\ (pc'[p] # "idle" => job'[p] = job[p])
      BY <1>1, <2>5, <3>1 DEF Others, IInv, TypeOK, Busy
    <3> QED  BY <2>1, <2>4, <3>1, <3>2, QuietStep
  <2>8. CASE Rename(p)
    <3>1. Busy(p) /\ Others(p) /\ UNCHANGED calls /\ job' = job
      BY <1>1, <2>8 DEF Rename, Goto, Others, IInv, TypeOK, Busy
    <3> QED  BY <1>1, <2>1, <2>4, <2>8, <3>1, RenameFollows
  <2>9. ASSUME NEW r \in Replica, NEW f \in File, CopyFile(p, r, f)
        PROVE  OneAtATime' /\ CopiesFollow'
    <3>1. Busy(p) /\ Others(p) /\ UNCHANGED calls /\ job' = job
      BY <1>1, <2>9 DEF CopyFile, Others, IInv, TypeOK, Busy
    <3> QED  BY <1>1, <2>1, <2>4, <2>9, <3>1, CopyFollows
  <2>10. CASE Complete(p)
    <3>1. Busy(p) /\ Others(p) /\ UNCHANGED calls /\ pc'[p] = "idle"
      BY <2>5, <2>10 DEF Complete, Busy
    <3> QED  BY <1>1, <2>1, <2>4, <2>10, <3>1, CompleteFollows
  <2>11. CASE Interrupt(p) \/ \E r \in Replica, f \in File : TearLive(p, r, f)
    <3>1. /\ Busy(p) /\ Return(p) /\ UNCHANGED <<calls, committed, completed>>
          /\ pc[p] # "copy" => UNCHANGED live
      BY <2>11 DEF Interrupt, TearLive, Busy
    <3>2. Others(p) /\ pc'[p] = "idle"
      BY <2>5, <3>1
    <3>3. CASE pc[p] = "copy"
      BY <1>1, <2>4, <3>1, <3>2, <3>3, AbandonStep
    <3>4. CASE pc[p] # "copy"
      BY <2>1, <2>4, <3>1, <3>2, <3>4, QuietStep
    <3> QED  BY <3>3, <3>4
  <2> QED  BY <2>2, <2>3, <2>6, <2>7, <2>8, <2>9, <2>10, <2>11 DEF Step, Stop
<1> QED  BY <1>2, <1>3

\* With one operator process at a time, a log in which every archived round has
\* its commit_completed event proves that each authoritative file is that of the
\* last archived round of its replica, whatever was interrupted before.
\* (publish_candidates: _finalize_candidate_publication and the two events.)
THEOREM AuditProvesTheBooks == MCSpec => []SequentialLiveIsLatest
<1>1. MCInit => SInv
  BY SInitHolds
<1>2. SInv /\ [MCNext]_<<vars, overlapped>> => SInv'
  BY SNextHolds
<1>3. SInv => SequentialLiveIsLatest
  <2> SUFFICES ASSUME SInv, ~overlapped, AtRest,
                      \A n \in Round : committed[n] # Absent => completed[n] = 1,
                      NEW r \in Replica, NEW f \in File
               PROVE  live[r][f] = Latest(r)
    BY DEF SequentialLiveIsLatest, AuditedLiveIsLatest
  <2>1. Copied(r, f) = Published(r)
    BY DEF Copied, Pending, AtRest
  <2>2. IsLast(live[r][f], Copied(r, f))
    BY DEF SInv, CopiesFollow, NoneAbandoned
  <2> QED  BY <2>1, <2>2, LastIsLatest DEF SInv
<1> QED  BY <1>1, <1>2, <1>3, PTL DEF MCSpec
=============================================================================
