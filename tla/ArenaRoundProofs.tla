-------------------------- MODULE ArenaRoundProofs --------------------------
(***************************************************************************)
(* Proofs about ArenaRound, for every set of replicas, every number of     *)
(* rounds and commands and every decision an agent may write.              *)
(***************************************************************************)
EXTENDS ArenaRound, TLAPS

-----------------------------------------------------------------------------
(* The inductive invariant *)

\* Every trade of book b has its staged decision.
Evidence(b, r) == \A d \in b.portfolio : staged[d.round][r] = d

\* Books in memory and in the archive carry the same evidence as live ones.
BooksHaveEvidence ==
  /\ \A r \in Replica : Evidence(live[r], r) /\ Evidence(loaded[r], r)
  /\ candidates # None => \A r \in DOMAIN candidates : Evidence(candidates[r], r)
  /\ \A k \in Round : archive[k] # None =>
       \A r \in DOMAIN archive[k] : Evidence(archive[k][r], r)

\* A command always has a field; what it knows grows phase by phase.
PhaseFacts ==
  /\ phase # "idle" => due # {}
  /\ phase \notin {"collect", "publish", "commit", "copy"} => collected = {}
  /\ phase # "copy" => copied = {}

\* Until its replica is copied, a live book is the one the command read.
LoadedIsLive ==
  phase # "idle" => \A r \in Replica \ copied : live[r] = loaded[r]

\* A candidate extends the book it was evaluated from; the archive of a round
\* being copied is the candidate set.
CandidatesExtend ==
  phase \in {"publish", "commit", "copy"} =>
    /\ candidates # None
    /\ DOMAIN candidates = due
    /\ \A r \in due : loaded[r].portfolio \subseteq candidates[r].portfolio
    /\ phase = "copy" => archive[round] = candidates

\* Exactly the due replicas have a runner; the barrier is behind a command only
\* when each of them has sealed a result.
BarrierFacts ==
  /\ \A r \in Replica : run[r] # "none" <=> r \in due
  /\ \A r \in Replica : run[r] = "sealed" => result[r] \in Result
  /\ phase \in {"fill", "collect", "publish", "commit", "copy"} =>
       \A r \in due : run[r] = "sealed"

\* What CommitsAreClean says of an archived round holds of the candidates.
CandidatesAreClean ==
  phase \in {"publish", "commit"} =>
    /\ data = Available
    /\ \A r \in due :
         /\ result[r].outcome \in {"completed", "refusal"} \cup HoldOutcomes
         /\ candidates[r].portfolio \ loaded[r].portfolio \subseteq
              IF result[r].outcome = "completed" THEN {result[r].decision} ELSE {}

IInv ==
  /\ TypeOK
  /\ BooksHaveEvidence
  /\ PhaseFacts
  /\ LoadedIsLive
  /\ CandidatesExtend
  /\ StagedIsSealed
  /\ BarrierFacts
  /\ CandidatesAreClean
-----------------------------------------------------------------------------
(* Facts about the operators *)

LEMMA EmptyBookTyped == EmptyBook \in Book /\ EmptyBook.portfolio = {}
BY DEF EmptyBook, Book

\* Staging never replaces a decision, so evidence stays evidence.
LEMMA EvidenceKept ==
  ASSUME NEW b \in Book, NEW r \in Replica, Evidence(b, r),
         \A k \in Round : staged[k][r] # None => staged'[k][r] = staged[k][r]
  PROVE  Evidence(b, r)'
<1>1. \A d \in b.portfolio : d \in Decision
  BY DEF Book
<1>2. \A d \in b.portfolio : d.round \in Round /\ d # None
  BY <1>1, ArenaAssumption DEF Decision, Bytes
<1> QED BY <1>2 DEF Evidence
-----------------------------------------------------------------------------
(* The invariant holds initially and every step preserves it *)

LEMMA InitIInv == Init => IInv
<1> SUFFICES ASSUME Init PROVE IInv
  OBVIOUS
<1>1. TypeOK
  BY ArenaAssumption, EmptyBookTyped DEF Init, TypeOK, DataStatus, Available
<1>2. BooksHaveEvidence
  BY EmptyBookTyped DEF Init, BooksHaveEvidence, Evidence
<1>3. PhaseFacts /\ LoadedIsLive /\ CandidatesExtend /\ StagedIsSealed
  BY DEF Init, PhaseFacts, LoadedIsLive, CandidatesExtend, StagedIsSealed
<1>4. BarrierFacts /\ CandidatesAreClean
  BY DEF Init, BarrierFacts, CandidatesAreClean
<1> QED BY <1>1, <1>2, <1>3, <1>4 DEF IInv

\* Staging that replaces nothing keeps the evidence of every book.
LEMMA AllEvidenceKept ==
  ASSUME TypeOK, BooksHaveEvidence,
         \A k \in Round, s \in Replica : staged[k][s] # None => staged'[k][s] = staged[k][s]
  PROVE  /\ \A s \in Replica : \A b \in {live[s], loaded[s]} :
              \A d \in b.portfolio : staged'[d.round][s] = d
         /\ candidates # None => \A s \in DOMAIN candidates :
              \A d \in candidates[s].portfolio : staged'[d.round][s] = d
         /\ \A k \in Round : archive[k] # None => \A s \in DOMAIN archive[k] :
              \A d \in archive[k][s].portfolio : staged'[d.round][s] = d
<1>1. \A b \in Book, s \in Replica :
        Evidence(b, s) => \A d \in b.portfolio : staged'[d.round][s] = d
  BY EvidenceKept DEF Evidence
<1>2. \A s \in Replica : \A b \in {live[s], loaded[s]} :
        \A d \in b.portfolio : staged'[d.round][s] = d
  BY <1>1 DEF TypeOK, BooksHaveEvidence
<1>3. ASSUME candidates # None, NEW s \in DOMAIN candidates
      PROVE  \A d \in candidates[s].portfolio : staged'[d.round][s] = d
  <2>1. candidates[s] \in Book /\ s \in Replica
    BY <1>3 DEF TypeOK, IsArchive
  <2> QED BY <1>1, <1>3, <2>1 DEF BooksHaveEvidence
<1>4. ASSUME NEW k \in Round, archive[k] # None, NEW s \in DOMAIN archive[k]
      PROVE  \A d \in archive[k][s].portfolio : staged'[d.round][s] = d
  <2>1. archive[k][s] \in Book /\ s \in Replica
    BY <1>4 DEF TypeOK, IsArchive
  <2> QED BY <1>1, <1>4, <2>1 DEF BooksHaveEvidence
<1> QED BY <1>2, <1>3, <1>4

\* A command that returns, raises or dies leaves a state any command may start
\* from, as long as the books are left alone and no staged decision is replaced.
LEMMA ForgetKeeps ==
  ASSUME IInv, Forget, UNCHANGED <<commands, outbox, publishing, archive, live>>,
         survivors' \in [Replica -> SUBSET Round], paused' \in SUBSET Round,
         staged' \in [Round -> [Replica -> Bytes \cup {None}]],
         \A k \in Round, s \in Replica : staged[k][s] # None => staged'[k][s] = staged[k][s]
  PROVE  IInv'
<1> USE DEF IInv
<1>1. TypeOK'
  BY EmptyBookTyped DEF TypeOK, Forget, DataStatus, Available
<1>2. BooksHaveEvidence'
  <2>1. \A s \in Replica : \A d \in live[s].portfolio : staged'[d.round][s] = d
    BY AllEvidenceKept
  <2>2. \A k \in Round : archive[k] # None => \A s \in DOMAIN archive[k] :
          \A d \in archive[k][s].portfolio : staged'[d.round][s] = d
    BY AllEvidenceKept
  <2>3. candidates' = None /\ loaded' = [r \in Replica |-> EmptyBook]
    BY DEF Forget
  <2> QED BY <2>1, <2>2, <2>3, EmptyBookTyped DEF BooksHaveEvidence, Evidence
<1>3. PhaseFacts' /\ LoadedIsLive' /\ CandidatesExtend' /\ StagedIsSealed'
  BY DEF Forget, PhaseFacts, LoadedIsLive, CandidatesExtend, StagedIsSealed
<1>4. BarrierFacts' /\ CandidatesAreClean'
  BY DEF Forget, BarrierFacts, CandidatesAreClean
<1> QED BY <1>1, <1>2, <1>3, <1>4

\* A step before collection that only moves the phase, the runners, their
\* results or the data status on.
LEMMA EarlyStepKeeps ==
  ASSUME IInv, phase \in {"preflight", "tape", "barrier", "fill"},
         phase' \in {"preflight", "tape", "barrier", "fill", "collect"},
         UNCHANGED <<commands, round, due, loaded, collected, candidates, copied>>,
         UNCHANGED <<outbox, staged, publishing, archive, live, paused>>,
         data' \in DataStatus,
         run' \in [Replica -> {"none", "waiting", "running", "exited", "timed_out",
                               "sealed", "raised"}],
         result' \in [Replica -> Result \cup {None}],
         survivors' \in [Replica -> SUBSET Round],
         BarrierFacts'
  PROVE  IInv'
<1> USE DEF IInv
<1>1. TypeOK'
  BY DEF TypeOK
<1>2. BooksHaveEvidence'
  BY DEF BooksHaveEvidence, Evidence
<1>3. collected' = {} /\ copied' = {}
  BY DEF PhaseFacts
<1>4. PhaseFacts'
  BY <1>3 DEF PhaseFacts
<1>5. LoadedIsLive' /\ CandidatesExtend' /\ CandidatesAreClean'
  BY DEF LoadedIsLive, CandidatesExtend, CandidatesAreClean
<1>6. StagedIsSealed'
  BY <1>3 DEF StagedIsSealed
<1> QED BY <1>1, <1>2, <1>4, <1>5, <1>6

\* What is written to an outbox touches nothing that was sealed or staged.
LEMMA OutboxKeeps ==
  ASSUME IInv, outbox' \in [Replica -> Bytes \cup {None}],
         UNCHANGED <<commands, command, survivors, staged, publishing, archive, live, paused>>
  PROVE  IInv'
<1> USE DEF IInv
<1>1. UNCHANGED <<commands, phase, round, due, loaded, data, run, result, collected,
                 candidates, copied, survivors, staged, publishing, archive, live, paused>>
  BY DEF command
<1>2. TypeOK'
  BY <1>1 DEF TypeOK
<1>3. BooksHaveEvidence'
  BY <1>1 DEF BooksHaveEvidence, Evidence
<1>4. /\ PhaseFacts' /\ LoadedIsLive' /\ CandidatesExtend'
      /\ BarrierFacts' /\ CandidatesAreClean'
  BY <1>1 DEF PhaseFacts, LoadedIsLive, CandidatesExtend, BarrierFacts, CandidatesAreClean
<1>5. \A r : ShouldStage(r)' = ShouldStage(r)
  BY <1>1 DEF ShouldStage, TreatmentOf, Treatment
<1>6. StagedIsSealed'
  BY <1>1, <1>5 DEF StagedIsSealed
<1> QED BY <1>2, <1>3, <1>4, <1>6

LEMMA StartKeeps ==
  ASSUME IInv, NEW k \in Round, NEW D \in (SUBSET Replica) \ {{}},
         NEW first \in {"preflight", "barrier"}, StartCommand(k, D, first)
  PROVE  IInv'
<1> USE DEF IInv
<1>1. /\ phase = "idle" /\ phase' = first
      /\ round' = k /\ due' = D /\ loaded' = live
      /\ run' = [r \in Replica |-> IF r \in D THEN "waiting" ELSE "none"]
      /\ UNCHANGED <<data, result, collected, candidates, copied>>
      /\ UNCHANGED <<survivors, outbox, staged, publishing, archive, live, paused>>
      /\ commands' = commands + 1 /\ commands < MaxCommands
  BY DEF StartCommand, Goto, disk
<1>2. collected = {} /\ copied = {}
  BY <1>1 DEF PhaseFacts
<1>3. TypeOK'
  <2>1. round' \in Nat /\ round' \in Round
    BY <1>1 DEF Round
  <2>2. commands' \in 0..MaxCommands
    BY <1>1, ArenaAssumption DEF TypeOK
  <2> QED BY <1>1, <1>2, <2>1, <2>2 DEF TypeOK
<1>4. BooksHaveEvidence'
  BY <1>1 DEF BooksHaveEvidence, Evidence
<1>5. PhaseFacts' /\ LoadedIsLive' /\ CandidatesExtend' /\ StagedIsSealed'
  BY <1>1, <1>2 DEF PhaseFacts, LoadedIsLive, CandidatesExtend, StagedIsSealed
<1>6. BarrierFacts' /\ CandidatesAreClean'
  BY <1>1 DEF BarrierFacts, CandidatesAreClean
<1> QED BY <1>3, <1>4, <1>5, <1>6

\* The staged path was free, so older evidence is not overwritten.
LEMMA CollectOneKeeps ==
  ASSUME IInv, NEW r \in due, CollectOne(r)
  PROVE  IInv'
<1> USE DEF IInv
<1>1. /\ phase = "collect" /\ r \in due \ collected /\ r \in Replica /\ round \in Round
      /\ ShouldStage(r) => CanStage(r)
      /\ staged' = IF ShouldStage(r) THEN [staged EXCEPT ![round][r] = outbox[r]] ELSE staged
      /\ collected' = collected \cup {r}
      /\ UNCHANGED <<commands, phase, round, due, loaded, data, run, result, candidates,
                     copied, survivors, outbox, publishing, archive, live, paused>>
  BY DEF CollectOne, TypeOK
<1>2. \A k \in Round, s \in Replica : staged[k][s] # None => staged'[k][s] = staged[k][s]
  BY <1>1 DEF CanStage, TypeOK
<1>3. TypeOK'
  <2>1. staged' \in [Round -> [Replica -> Bytes \cup {None}]]
    BY <1>1 DEF TypeOK
  <2> QED BY <1>1, <2>1 DEF TypeOK
<1>4. BooksHaveEvidence'
  BY <1>1, <1>2, AllEvidenceKept DEF BooksHaveEvidence, Evidence
<1>5. /\ PhaseFacts' /\ LoadedIsLive' /\ CandidatesExtend'
      /\ BarrierFacts' /\ CandidatesAreClean'
  BY <1>1 DEF PhaseFacts, LoadedIsLive, CandidatesExtend, BarrierFacts, CandidatesAreClean
<1>6. \A s : ShouldStage(s)' = ShouldStage(s)
  BY <1>1 DEF ShouldStage, TreatmentOf, Treatment
<1>7. StagedIsSealed'
  <2> SUFFICES ASSUME NEW s \in collected', ShouldStage(s)
               PROVE  staged'[round][s] = result[s].decision
    BY <1>1, <1>6 DEF StagedIsSealed
  <2>1. CASE s = r
    BY <1>1, <2>1 DEF CanStage, TypeOK
  <2>2. CASE s # r
    <3>1. s \in collected /\ s \in Replica
      BY <1>1, <2>2 DEF TypeOK
    <3>2. staged'[round][s] = staged[round][s]
      BY <1>1, <2>2, <3>1 DEF TypeOK
    <3> QED BY <3>1, <3>2 DEF StagedIsSealed
  <2> QED BY <2>1, <2>2
<1> QED BY <1>3, <1>4, <1>5, <1>7

\* What a replica trades is what is staged for it under this very round.
LEMMA TradedStaged ==
  ASSUME TypeOK, round \in Round, NEW r \in Replica
  PROVE  /\ Traded(r) \in SUBSET Decision
         /\ \A d \in Traded(r) : staged[d.round][r] = d
<1>1. \A d \in Traded(r) : d = staged[round][r] /\ d \in [round : {round}, version : Version]
  BY DEF Traded
<1>2. \A d \in [round : {round}, version : Version] : d \in Decision /\ d.round = round
  BY DEF Decision
<1> QED BY <1>1, <1>2

\* An evaluated round met no shared failure and no runner error.
LEMMA EvaluatedRound ==
  ASSUME Treatment = "evaluate", data \in DataStatus,
         \A r \in due : result[r] \in Result
  PROVE  /\ data = Available
         /\ \A r \in due :
              /\ result[r].outcome \in {"completed", "refusal"} \cup HoldOutcomes
              /\ TreatmentOf(r) = "evaluate" => result[r].outcome = "completed"
<1> DEFINE seen == {[s \in due |-> result[s].outcome][r] :
                     r \in DOMAIN [s \in due |-> result[s].outcome]}
<1>1. data = Available
  BY DEF Treatment, RoundTreatment, DataStatus, Available, Unavailable
<1>2. seen \cap SharedVoidOutcomes = {} /\ "runner_error" \notin seen
  BY <1>1 DEF Treatment, RoundTreatment, Available, Unavailable
<1>3. ASSUME NEW r \in due
      PROVE  /\ result[r].outcome \in {"completed", "refusal"} \cup HoldOutcomes
             /\ TreatmentOf(r) = "evaluate" => result[r].outcome = "completed"
  <2>1. result[r].outcome \in RunnerOutcomes
    BY <1>3 DEF Result
  <2>2. result[r].outcome \in seen
    BY <1>3
  <2>3. result[r].outcome \in {"completed", "refusal"} \cup HoldOutcomes
    BY <1>2, <2>1, <2>2 DEF RunnerOutcomes
  <2>4. CASE result[r].outcome = "refusal"
    BY <2>4 DEF TreatmentOf, ReplicaTreatment, HoldOutcomes
  <2>5. CASE result[r].outcome \in HoldOutcomes
    BY <2>5 DEF TreatmentOf, ReplicaTreatment, HoldOutcomes
  <2> QED BY <2>3, <2>4, <2>5
<1> QED BY <1>1, <1>3

LEMMA EvaluateKeeps ==
  ASSUME IInv, Evaluate
  PROVE  IInv'
<1> USE DEF IInv
<1>1. /\ phase = "collect" /\ phase' = "publish" /\ due # {} /\ round \in Round
      /\ candidates' = [r \in due |-> Candidate(r)]
      /\ UNCHANGED <<commands, round, due, loaded, data, run, result, collected, copied,
                     survivors, outbox, staged, publishing, archive, live, paused>>
  BY DEF Evaluate, Goto, disk, PhaseFacts, TypeOK
<1>2. \A r \in due : /\ Candidate(r) \in Book
                     /\ Evidence(Candidate(r), r)
                     /\ loaded[r].portfolio \subseteq Candidate(r).portfolio
  <2> SUFFICES ASSUME NEW r \in due
               PROVE  /\ Candidate(r) \in Book
                      /\ Evidence(Candidate(r), r)
                      /\ loaded[r].portfolio \subseteq Candidate(r).portfolio
    OBVIOUS
  <2>1. r \in Replica /\ loaded[r] \in Book
    BY DEF TypeOK
  <2>2. /\ Traded(r) \in SUBSET Decision
        /\ \A d \in Traded(r) : staged[d.round][r] = d
    BY <1>1, <2>1, TradedStaged
  <2>3. Candidate(r).portfolio = loaded[r].portfolio \cup Traded(r)
    BY DEF Candidate
  <2>4. Candidate(r) \in Book
    BY <2>1, <2>2 DEF Candidate, Book
  <2>5. Evidence(Candidate(r), r)
    BY <2>1, <2>2, <2>3 DEF BooksHaveEvidence, Evidence
  <2> QED BY <2>3, <2>4, <2>5
<1>3. candidates' \in [due -> Book] /\ due \in (SUBSET Replica) \ {{}}
  BY <1>1, <1>2 DEF TypeOK
<1>4. IsArchive(candidates)'
  BY <1>1, <1>3 DEF IsArchive
<1>5. TypeOK'
  BY <1>1, <1>4 DEF TypeOK
<1>6. BooksHaveEvidence'
  BY <1>1, <1>2 DEF BooksHaveEvidence, Evidence
<1>7. candidates' # None
  BY <1>4, ArenaAssumption
<1>8. PhaseFacts' /\ LoadedIsLive'
  BY <1>1 DEF PhaseFacts, LoadedIsLive
<1>9. CandidatesExtend'
  BY <1>1, <1>2, <1>7 DEF CandidatesExtend
<1>10. StagedIsSealed'
  BY <1>1 DEF StagedIsSealed, ShouldStage, TreatmentOf, Treatment
<1>11. BarrierFacts'
  BY <1>1 DEF BarrierFacts
<1>12. CandidatesAreClean'
  <2>1. collected = due /\ Treatment = "evaluate" /\ due \subseteq Replica
    BY DEF Evaluate, TypeOK
  <2>2. \A r \in due : result[r] \in Result
    BY <1>1, <2>1 DEF BarrierFacts
  <2>3. /\ data = Available
        /\ \A r \in due :
             /\ result[r].outcome \in {"completed", "refusal"} \cup HoldOutcomes
             /\ TreatmentOf(r) = "evaluate" => result[r].outcome = "completed"
    BY <2>1, <2>2, EvaluatedRound DEF TypeOK
  <2>4. ASSUME NEW r \in due
        PROVE  Candidate(r).portfolio \ loaded[r].portfolio \subseteq
                 IF result[r].outcome = "completed" THEN {result[r].decision} ELSE {}
    <3>1. Candidate(r).portfolio = loaded[r].portfolio \cup Traded(r)
      BY DEF Candidate
    <3>2. CASE TreatmentOf(r) = "evaluate"
      <4>1. staged[round][r] = result[r].decision
        BY <2>1, <2>4, <3>2 DEF StagedIsSealed, ShouldStage
      <4>2. Traded(r) \subseteq {result[r].decision}
        BY <4>1 DEF Traded
      <4> QED BY <2>3, <2>4, <3>1, <3>2, <4>2
    <3>3. CASE TreatmentOf(r) # "evaluate"
      BY <3>1, <3>3 DEF Traded
    <3> QED BY <3>2, <3>3
  <2> QED BY <1>1, <2>3, <2>4 DEF CandidatesAreClean
<1> QED BY <1>5, <1>6, <1>8, <1>9, <1>10, <1>11, <1>12

LEMMA StageBooksKeeps ==
  ASSUME IInv, StageBooks
  PROVE  IInv'
<1>1. CASE round \notin publishing
  <2> USE DEF IInv
  <2>1. /\ phase = "publish" /\ phase' = "commit" /\ round \in Round
        /\ publishing' = publishing \cup {round}
        /\ UNCHANGED <<commands, round, due, loaded, data, run, result, collected,
                       candidates, copied, survivors, outbox, staged, archive, live, paused>>
    BY <1>1 DEF StageBooks, Goto, TypeOK
  <2>2. TypeOK'
    BY <2>1 DEF TypeOK
  <2>3. BooksHaveEvidence'
    BY <2>1 DEF BooksHaveEvidence, Evidence
  <2>4. /\ PhaseFacts' /\ LoadedIsLive' /\ CandidatesExtend'
        /\ BarrierFacts' /\ CandidatesAreClean'
    BY <2>1 DEF PhaseFacts, LoadedIsLive, CandidatesExtend, BarrierFacts, CandidatesAreClean
  <2>5. StagedIsSealed'
    BY <2>1 DEF StagedIsSealed, ShouldStage, TreatmentOf, Treatment
  <2> QED BY <2>2, <2>3, <2>4, <2>5
<1>2. CASE round \in publishing
  BY <1>2, ForgetKeeps DEF StageBooks, IInv, TypeOK
<1> QED BY <1>1, <1>2

\* The archive takes the candidates over as they are.
LEMMA CommitKeeps ==
  ASSUME IInv, Commit
  PROVE  IInv'
<1>1. CASE archive[round] = None
  <2> USE DEF IInv
  <2>1. /\ phase = "commit" /\ phase' = "copy" /\ round \in Round
        /\ publishing' = publishing \ {round}
        /\ archive' = [archive EXCEPT ![round] = candidates]
        /\ UNCHANGED <<commands, round, due, loaded, data, run, result, collected,
                       candidates, copied, survivors, outbox, staged, live, paused>>
    BY <1>1 DEF Commit, Goto, TypeOK
  <2>2. candidates # None /\ IsArchive(candidates)
    BY <2>1 DEF TypeOK, CandidatesExtend
  <2>3. /\ archive'[round] = candidates
        /\ \A k \in Round : k # round => archive'[k] = archive[k]
        /\ archive' = [k \in Round |-> archive'[k]]
    BY <2>1 DEF TypeOK
  <2>4. \A k \in Round : archive'[k] = None \/ IsArchive(archive'[k])
    BY <2>2, <2>3 DEF TypeOK
  <2>5. TypeOK'
    BY <2>1, <2>3, <2>4 DEF TypeOK, IsArchive
  <2>6. BooksHaveEvidence'
    BY <2>1, <2>2, <2>3 DEF BooksHaveEvidence, Evidence
  <2>7. PhaseFacts' /\ LoadedIsLive' /\ BarrierFacts' /\ CandidatesAreClean'
    BY <2>1 DEF PhaseFacts, LoadedIsLive, BarrierFacts, CandidatesAreClean
  <2>8. CandidatesExtend'
    BY <2>1, <2>3 DEF CandidatesExtend
  <2>9. StagedIsSealed'
    BY <2>1 DEF StagedIsSealed, ShouldStage, TreatmentOf, Treatment
  <2> QED BY <2>5, <2>6, <2>7, <2>8, <2>9
<1>2. CASE archive[round] # None
  BY <1>2, ForgetKeeps DEF Commit, IInv, TypeOK
<1> QED BY <1>1, <1>2

\* What a copy replaces, and by what.
LEMMA CopyFacts ==
  ASSUME IInv, NEW r \in due, CopyBook(r)
  PROVE  /\ r \in Replica \ copied
         /\ round \in Round
         /\ archive[round] = candidates
         /\ candidates # None
         /\ r \in DOMAIN candidates
         /\ candidates[r] \in Book
         /\ live[r] = loaded[r]
         /\ live[r].portfolio \subseteq candidates[r].portfolio
         /\ live' = [live EXCEPT ![r] = candidates[r]]
<1>1. phase = "copy" /\ r \in Replica \ copied /\ round \in Round
  BY DEF CopyBook, IInv, TypeOK
<1>2. /\ archive[round] = candidates /\ candidates # None /\ r \in DOMAIN candidates
      /\ loaded[r].portfolio \subseteq candidates[r].portfolio
  BY <1>1 DEF IInv, CandidatesExtend
<1>3. candidates[r] \in Book
  BY <1>2 DEF IInv, TypeOK, IsArchive
<1>4. live[r] = loaded[r]
  BY <1>1 DEF IInv, LoadedIsLive
<1> QED BY <1>1, <1>2, <1>3, <1>4 DEF CopyBook

LEMMA CopyBookKeeps ==
  ASSUME IInv, NEW r \in due, CopyBook(r)
  PROVE  IInv'
<1>a. /\ r \in Replica \ copied
      /\ candidates # None
      /\ r \in DOMAIN candidates
      /\ candidates[r] \in Book
      /\ live' = [live EXCEPT ![r] = candidates[r]]
  BY CopyFacts
<1> USE DEF IInv
<1>1. /\ phase = "copy" /\ copied' = copied \cup {r}
      /\ UNCHANGED <<commands, phase, round, due, loaded, data, run, result, collected,
                     candidates, survivors, outbox, staged, publishing, archive, paused>>
  BY DEF CopyBook
<1>2. /\ live'[r] = candidates[r]
      /\ \A s \in Replica : s # r => live'[s] = live[s]
      /\ live' \in [Replica -> Book]
  BY <1>a DEF TypeOK
<1>3. TypeOK'
  BY <1>1, <1>2 DEF TypeOK
<1>4. BooksHaveEvidence'
  BY <1>a, <1>1, <1>2 DEF BooksHaveEvidence, Evidence
<1>5. PhaseFacts' /\ CandidatesExtend' /\ BarrierFacts' /\ CandidatesAreClean'
  BY <1>1 DEF PhaseFacts, CandidatesExtend, BarrierFacts, CandidatesAreClean
<1>6. LoadedIsLive'
  BY <1>1, <1>2 DEF LoadedIsLive
<1>7. StagedIsSealed'
  BY <1>1 DEF StagedIsSealed, ShouldStage, TreatmentOf, Treatment
<1> QED BY <1>3, <1>4, <1>5, <1>6, <1>7

\* The adapter seals a well-formed result.
LEMMA SealTyped ==
  ASSUME TypeOK, NEW r \in Replica, Seal(r)
  PROVE  result' \in [Replica -> Result \cup {None}] /\ result'[r] \in Result
<1>1. PICK outcome \in OutcomesOf(run[r], outbox[r]) :
        result' = [result EXCEPT ![r] = [outcome |-> outcome, decision |-> outbox[r]]]
  BY DEF Seal
<1>2. run[r] \in {"exited", "timed_out"}
  BY DEF Seal
<1>3. outcome \in RunnerOutcomes
  BY <1>1, <1>2 DEF OutcomesOf, RunnerOutcomes, HoldOutcomes
<1>4. [outcome |-> outcome, decision |-> outbox[r]] \in Result
  <2>1. outbox[r] \in Bytes \cup {None}
    BY DEF TypeOK
  <2>2. /\ outcome = "completed" => outbox[r] # None
        /\ outcome = "missing_decision" => outbox[r] = None
    BY <1>1, <1>2 DEF OutcomesOf, SharedVoidOutcomes
  <2> QED BY <1>3, <2>1, <2>2 DEF Result
<1> QED BY <1>1, <1>4 DEF TypeOK

LEMMA BarrierStepKeeps ==
  ASSUME IInv, NEW r \in due, Launch(r) \/ Exit(r) \/ Seal(r) \/ SealRaises(r)
  PROVE  IInv'
<1>1. r \in Replica
  BY DEF IInv, TypeOK
<1>2. CASE Launch(r) \/ SealRaises(r)
  <2>1. BarrierFacts'
    BY <1>2 DEF Launch, SealRaises, IInv, TypeOK, BarrierFacts
  <2> QED BY <1>2, <2>1, EarlyStepKeeps DEF Launch, SealRaises, disk, IInv, TypeOK
<1>3. CASE Exit(r)
  <2>1. survivors' \in [Replica -> SUBSET Round]
    BY <1>3 DEF Exit, IInv, TypeOK
  <2>2. run' \in [Replica -> {"none", "waiting", "running", "exited", "timed_out",
                              "sealed", "raised"}]
    BY <1>3 DEF Exit, IInv, TypeOK
  <2>3. BarrierFacts'
    BY <1>3 DEF Exit, IInv, TypeOK, BarrierFacts
  <2> QED BY <1>3, <2>1, <2>2, <2>3, EarlyStepKeeps DEF Exit, IInv, TypeOK
<1>4. CASE Seal(r)
  <2>1. result' \in [Replica -> Result \cup {None}] /\ result'[r] \in Result
    BY <1>1, <1>4, SealTyped DEF IInv
  <2>2. run' \in [Replica -> {"none", "waiting", "running", "exited", "timed_out",
                              "sealed", "raised"}]
    BY <1>4 DEF Seal, IInv, TypeOK
  <2>3. \A s \in Replica : s # r => result'[s] = result[s] /\ run'[s] = run[s]
    BY <1>4 DEF Seal, IInv, TypeOK
  <2>4. run'[r] = "sealed" /\ UNCHANGED <<phase, due>> /\ phase = "barrier"
    BY <1>1, <1>4 DEF Seal, IInv, TypeOK
  <2>5. BarrierFacts'
    BY <2>1, <2>3, <2>4 DEF IInv, BarrierFacts
  <2> QED BY <1>4, <2>1, <2>2, <2>5, EarlyStepKeeps DEF Seal, disk, IInv, TypeOK
<1> QED BY <1>2, <1>3, <1>4

LEMMA CommandKeeps == IInv /\ Step => IInv'
<1> SUFFICES ASSUME IInv, Step PROVE IInv'
  OBVIOUS
<1>t. /\ survivors \in [Replica -> SUBSET Round] /\ paused \in SUBSET Round
      /\ staged \in [Round -> [Replica -> Bytes \cup {None}]]
  BY DEF IInv, TypeOK
<1>1. CASE PreflightReady
  <2>1. BarrierFacts'
    BY <1>1 DEF PreflightReady, Goto, IInv, BarrierFacts
  <2> QED BY <1>1, <2>1, EarlyStepKeeps DEF PreflightReady, Goto, disk, IInv, TypeOK
<1>2. CASE PreflightPauses
  <2>1. paused' \in SUBSET Round
    BY <1>2 DEF PreflightPauses, IInv, TypeOK
  <2> QED BY <1>2, <1>t, <2>1, ForgetKeeps DEF PreflightPauses
<1>3. CASE PublishTape
  <2>1. BarrierFacts'
    BY <1>3 DEF PublishTape, Goto, IInv, BarrierFacts
  <2> QED BY <1>3, <2>1, EarlyStepKeeps DEF PublishTape, Goto, disk, IInv, TypeOK
<1>4. CASE TapeUnavailable
  BY <1>4, <1>t, ForgetKeeps DEF TapeUnavailable, disk
<1>5. CASE \E r \in due : Launch(r) \/ Exit(r) \/ Seal(r) \/ SealRaises(r)
  BY <1>5, BarrierStepKeeps
<1>6. CASE CloseBarrier
  <2>1. CASE \A r \in due : run[r] = "sealed"
    <3>1. BarrierFacts'
      BY <1>6, <2>1 DEF CloseBarrier, Goto, IInv, BarrierFacts
    <3> QED BY <1>6, <2>1, <3>1, EarlyStepKeeps DEF CloseBarrier, Goto, disk, IInv, TypeOK
  <2>2. CASE ~\A r \in due : run[r] = "sealed"
    BY <1>6, <2>2, <1>t, ForgetKeeps DEF CloseBarrier, disk
  <2> QED BY <2>1, <2>2
<1>7. CASE FetchFillBars
  <2>1. BarrierFacts'
    BY <1>7 DEF FetchFillBars, Goto, IInv, BarrierFacts
  <2> QED BY <1>7, <2>1, EarlyStepKeeps DEF FetchFillBars, Goto, disk, IInv, TypeOK
<1>8. CASE \E r \in due : CollectOne(r) \/ CollectRaises(r)
  BY <1>8, <1>t, CollectOneKeeps, ForgetKeeps DEF CollectRaises, disk
<1>9. CASE Evaluate
  BY <1>9, EvaluateKeeps
<1>10. CASE NotCommitted
  BY <1>10, <1>t, ForgetKeeps DEF NotCommitted, disk
<1>11. CASE StageBooks
  BY <1>11, StageBooksKeeps
<1>12. CASE Commit
  BY <1>12, CommitKeeps
<1>13. CASE \E r \in due : CopyBook(r)
  BY <1>13, CopyBookKeeps
<1>14. CASE Committed
  BY <1>14, <1>t, ForgetKeeps DEF Committed, disk
<1> QED BY <1>1, <1>2, <1>3, <1>4, <1>5, <1>6, <1>7, <1>8, <1>9, <1>10, <1>11, <1>12,
           <1>13, <1>14 DEF Step

LEMMA SurroundingsKeep == IInv /\ Surroundings => IInv'
<1> SUFFICES ASSUME IInv, Surroundings PROVE IInv'
  OBVIOUS
<1>1. ASSUME NEW r \in Replica, WriteDecision(r) PROVE IInv'
  <2>1. round \in Round
    BY <1>1 DEF WriteDecision, IInv, TypeOK
  <2>2. PICK bytes \in [round : {round}, version : Version] \cup {Malformed} :
          outbox' = [outbox EXCEPT ![r] = bytes]
    BY <1>1 DEF WriteDecision
  <2>3. bytes \in Bytes
    BY <2>1, <2>2, <1>1 DEF WriteDecision, Bytes, Decision
  <2>4. outbox' \in [Replica -> Bytes \cup {None}]
    BY <2>2, <2>3 DEF IInv, TypeOK
  <2> QED BY <1>1, <2>4, OutboxKeeps DEF WriteDecision
<1>2. ASSUME NEW r \in Replica, SurvivorWrites(r) PROVE IInv'
  <2>1. PICK k \in survivors[r], v \in Version :
          outbox' = [outbox EXCEPT ![r] = [round |-> k, version |-> v]]
    BY <1>2 DEF SurvivorWrites
  <2>2. k \in Round
    BY <2>1 DEF IInv, TypeOK
  <2>3. [round |-> k, version |-> v] \in Bytes
    BY <2>2 DEF Bytes, Decision
  <2>4. outbox' \in [Replica -> Bytes \cup {None}]
    BY <2>1, <2>3 DEF IInv, TypeOK
  <2> QED BY <1>2, <2>4, OutboxKeeps DEF SurvivorWrites
<1>3. ASSUME NEW r \in Replica, ClearOutbox(r) PROVE IInv'
  <2>1. outbox' \in [Replica -> Bytes \cup {None}]
    BY <1>3 DEF ClearOutbox, IInv, TypeOK
  <2> QED BY <1>3, <2>1, OutboxKeeps DEF ClearOutbox
<1>4. ASSUME Stop PROVE IInv'
  <2>1. survivors' = [r \in Replica |->
                        survivors[r] \cup IF run[r] = "running" THEN {round} ELSE {}]
    BY <1>4 DEF Stop
  <2>2. round \in Round
    BY <1>4 DEF Stop, IInv, TypeOK
  <2>3. survivors' \in [Replica -> SUBSET Round]
    BY <2>1, <2>2 DEF IInv, TypeOK
  <2> QED BY <1>4, <2>3, ForgetKeeps DEF Stop, IInv, TypeOK
<1>5. ASSUME NEW r \in due, StopStaging(r) PROVE IInv'
  <2>1. /\ round \in Round /\ r \in Replica
        /\ staged[round][r] = None
        /\ staged' = [staged EXCEPT ![round][r] = Malformed]
    BY <1>5 DEF StopStaging, CanStage, IInv, TypeOK
  <2>2. staged' \in [Round -> [Replica -> Bytes \cup {None}]]
    BY <2>1 DEF IInv, TypeOK, Bytes
  <2>3. \A k \in Round, s \in Replica : staged[k][s] # None => staged'[k][s] = staged[k][s]
    BY <2>1 DEF IInv, TypeOK
  <2>4. survivors' \in [Replica -> SUBSET Round] /\ paused' \in SUBSET Round
    BY <1>5 DEF StopStaging, IInv, TypeOK
  <2> QED BY <1>5, <2>2, <2>3, <2>4, ForgetKeeps DEF StopStaging
<1> QED BY <1>1, <1>2, <1>3, <1>4, <1>5 DEF Surroundings

LEMMA NextKeeps == IInv /\ [Next]_vars => IInv'
<1>1. IInv /\ Next => IInv'
  BY StartKeeps, CommandKeeps, SurroundingsKeep DEF Next
<1>2. ASSUME IInv, UNCHANGED vars PROVE IInv'
  <2>1. outbox' \in [Replica -> Bytes \cup {None}]
    BY <1>2 DEF vars, disk, IInv, TypeOK
  <2> QED BY <1>2, <2>1, OutboxKeeps DEF vars, disk
<1> QED BY <1>1, <1>2
-----------------------------------------------------------------------------
(* The theorems *)

\* The books, the archive and the staged decisions of run-round satisfy IInv
\* in every reachable state.
THEOREM Invariance == Spec => []IInv
BY InitIInv, NextKeeps, PTL DEF Spec

\* Every state of a command and everything it leaves on disk is well-formed.
THEOREM TypeCorrect == Spec => []TypeOK
<1>1. IInv => TypeOK
  BY DEF IInv
<1> QED BY <1>1, Invariance, PTL

\* Every decision traded in an authoritative book has its staged decision, for
\* any field, any agents, any reruns and any interruption.
THEOREM EveryTradeStaged == Spec => []TradesAreStaged
<1>1. IInv => TradesAreStaged
  BY DEF IInv, BooksHaveEvidence, Evidence, TradesAreStaged
<1> QED BY <1>1, Invariance, PTL

\* What is staged for the running command is what its runners sealed.
THEOREM SealedBytesOnly == Spec => []StagedIsSealed
<1>1. IInv => StagedIsSealed
  BY DEF IInv
<1> QED BY <1>1, Invariance, PTL

\* No step but the copy of an archived book changes an authoritative one.
LEMMA OnlyCopyChangesBooks ==
  ASSUME Next
  PROVE  live' = live \/ \E r \in due : CopyBook(r)
<1>1. CASE \E k \in Round, D \in (SUBSET Replica) \ {{}}, first \in {"preflight", "barrier"} :
             StartCommand(k, D, first)
  BY <1>1 DEF StartCommand, disk
<1>2. CASE Step
  <2>1. CASE \E r \in due : Launch(r) \/ Exit(r) \/ Seal(r) \/ SealRaises(r)
    BY <2>1 DEF Launch, Exit, Seal, SealRaises, disk
  <2>2. CASE \E r \in due : CollectOne(r) \/ CollectRaises(r)
    BY <2>2 DEF CollectOne, CollectRaises, disk
  <2> QED BY <1>2, <2>1, <2>2
          DEF Step, PreflightReady, PreflightPauses, PublishTape, TapeUnavailable,
              CloseBarrier, FetchFillBars, Evaluate, NotCommitted, StageBooks, Commit,
              Committed, disk
<1>3. CASE Surroundings
  BY <1>3 DEF Surroundings, WriteDecision, SurvivorWrites, ClearOutbox, Stop, StopStaging
<1> QED BY <1>1, <1>2, <1>3 DEF Next

\* A copied book extends the book it replaces, so no portfolio loses a trade.
THEOREM BooksOnlyGrow == Spec => LiveGrows
<1>1. IInv /\ [Next]_vars =>
        [\A r \in Replica : live[r].portfolio \subseteq live'[r].portfolio]_vars
  <2> SUFFICES ASSUME IInv, Next, NEW r \in Replica
               PROVE  live[r].portfolio \subseteq live'[r].portfolio
    OBVIOUS
  <2>1. CASE live' = live
    BY <2>1
  <2>2. ASSUME NEW s \in due, CopyBook(s)
        PROVE  live[r].portfolio \subseteq live'[r].portfolio
    BY <2>2, CopyFacts DEF IInv, TypeOK
  <2> QED BY <2>1, <2>2, OnlyCopyChangesBooks
<1> QED BY <1>1, Invariance, PTL DEF Spec, LiveGrows

\* No step but the rename of Commit changes the archive.
LEMMA OnlyCommitArchives ==
  ASSUME Next
  PROVE  archive' = archive \/ Commit
<1>1. CASE \E k \in Round, D \in (SUBSET Replica) \ {{}}, first \in {"preflight", "barrier"} :
             StartCommand(k, D, first)
  BY <1>1 DEF StartCommand, disk
<1>2. CASE Step
  <2>1. CASE \E r \in due : Launch(r) \/ Exit(r) \/ Seal(r) \/ SealRaises(r)
    BY <2>1 DEF Launch, Exit, Seal, SealRaises, disk
  <2>2. CASE \E r \in due : CollectOne(r) \/ CollectRaises(r) \/ CopyBook(r)
    BY <2>2 DEF CollectOne, CollectRaises, CopyBook, disk
  <2> QED BY <1>2, <2>1, <2>2
          DEF Step, PreflightReady, PreflightPauses, PublishTape, TapeUnavailable,
              CloseBarrier, FetchFillBars, Evaluate, NotCommitted, StageBooks,
              Committed, disk
<1>3. CASE Surroundings
  BY <1>3 DEF Surroundings, WriteDecision, SurvivorWrites, ClearOutbox, Stop, StopStaging
<1> QED BY <1>1, <1>2, <1>3 DEF Next

\* No step but those of collection touches the staging root.
LEMMA OnlyCollectionStages ==
  ASSUME Next
  PROVE  staged' = staged \/ phase = "collect"
<1>1. CASE \E k \in Round, D \in (SUBSET Replica) \ {{}}, first \in {"preflight", "barrier"} :
             StartCommand(k, D, first)
  BY <1>1 DEF StartCommand, disk
<1>2. CASE Step
  <2>1. CASE \E r \in due : Launch(r) \/ Exit(r) \/ Seal(r) \/ SealRaises(r)
    BY <2>1 DEF Launch, Exit, Seal, SealRaises, disk
  <2>2. CASE \E r \in due : CollectOne(r) \/ CollectRaises(r) \/ CopyBook(r)
    BY <2>2 DEF CollectOne, CollectRaises, CopyBook, disk
  <2> QED BY <1>2, <2>1, <2>2
          DEF Step, PreflightReady, PreflightPauses, PublishTape, TapeUnavailable,
              CloseBarrier, FetchFillBars, Evaluate, NotCommitted, StageBooks, Commit,
              Committed, disk
<1>3. CASE Surroundings
  BY <1>3 DEF Surroundings, WriteDecision, SurvivorWrites, ClearOutbox, Stop, StopStaging
<1> QED BY <1>1, <1>2, <1>3 DEF Next

LEMMA FieldIsDue == IInv => Field = due
BY DEF Field, IInv, TypeOK, BarrierFacts

\* Decisions stay sealed until the whole field is done: while one replica has
\* no sealed result nothing is staged, archived or copied.
THEOREM SealedUntilTheBarrier == Spec => NothingBeforeTheBarrier
<1>1. IInv /\ [Next]_vars =>
        [(\E r \in Field : run[r] # "sealed") => UNCHANGED <<staged, archive, live>>]_vars
  <2> SUFFICES ASSUME IInv, Next, NEW r \in Field, run[r] # "sealed"
               PROVE  UNCHANGED <<staged, archive, live>>
    OBVIOUS
  <2>1. phase \notin {"collect", "commit", "copy"}
    BY FieldIsDue DEF IInv, BarrierFacts
  <2>2. staged' = staged
    BY <2>1, OnlyCollectionStages
  <2>3. archive' = archive
    BY <2>1, OnlyCommitArchives DEF Commit
  <2>4. live' = live
    BY <2>1, OnlyCopyChangesBooks DEF CopyBook
  <2> QED BY <2>2, <2>3, <2>4
<1> QED BY <1>1, Invariance, PTL DEF Spec, NothingBeforeTheBarrier

\* What is archived is the complete field's, free of shared failures, and
\* trades at most what each completed replica sealed.
THEOREM OnlyCleanCommits == Spec => CommitsAreClean
<1>1. IInv /\ [Next]_vars =>
        [\A k \in Round : archive'[k] # archive[k] =>
           /\ k = round
           /\ DOMAIN archive'[k] = Field
           /\ data = Available
           /\ \A r \in Field :
                /\ result[r].outcome \in {"completed", "refusal"} \cup HoldOutcomes
                /\ archive'[k][r].portfolio \ loaded[r].portfolio \subseteq
                     IF result[r].outcome = "completed" THEN {result[r].decision} ELSE {}]_vars
  <2> SUFFICES ASSUME IInv, Next, NEW k \in Round, archive'[k] # archive[k]
               PROVE  /\ k = round
                      /\ DOMAIN archive'[k] = Field
                      /\ data = Available
                      /\ \A r \in Field :
                           /\ result[r].outcome \in {"completed", "refusal"} \cup HoldOutcomes
                           /\ archive'[k][r].portfolio \ loaded[r].portfolio \subseteq
                                IF result[r].outcome = "completed"
                                  THEN {result[r].decision} ELSE {}
    OBVIOUS
  <2>1. Commit
    BY OnlyCommitArchives
  <2>2. archive' = [archive EXCEPT ![round] = candidates] /\ phase = "commit"
    BY <2>1 DEF Commit
  <2>3. k = round /\ archive'[k] = candidates
    BY <2>2 DEF IInv, TypeOK
  <2>4. DOMAIN candidates = due
    BY <2>2 DEF IInv, CandidatesExtend
  <2> QED BY <2>2, <2>3, <2>4, FieldIsDue DEF IInv, CandidatesAreClean
<1> QED BY <1>1, Invariance, PTL DEF Spec, CommitsAreClean
=============================================================================
