------------------------- MODULE RunnerAdapterProofs -------------------------
(***************************************************************************)
(* Proofs about RunnerAdapter and AgentOutput, for every field, number of  *)
(* commands and faults, and set of conversations.                          *)
(***************************************************************************)
EXTENDS RunnerAdapter, FiniteSetTheorems, TLAPS

-----------------------------------------------------------------------------
(* The inductive invariant *)

\* An artifact that was archived with its checksum.
Full(p, b) == p \in DOMAIN files /\ files[p] = [bytes |-> b, digest |-> b]

Seen == [output : Seq(Printed), exit : Exit, present : BOOLEAN]

ThreadState == {"none", "running", "collected", "settled", "terminated", "done", "raised"}

Collected == {"collected", "settled", "terminated"}

CommandTyped ==
  /\ adapter \in Field
  /\ commands \in 0..MaxCommands /\ faults \in 0..MaxFaults
  /\ stage \in {"idle", "preflight", "barrier"}
  /\ kind \in Kind /\ round \in Round \cup {None}
  /\ stage # "idle" => round \in Round /\ commands > 0
  /\ answers \in [Replica -> Seq({Good} \cup Deviation)]
  /\ reported \subseteq Due /\ ready \subseteq reported
  /\ run \in [Replica -> ThreadState]
  /\ resumed \in [Replica -> Session \cup {None}]
  /\ seen \in [Replica -> Seen]

DiskTyped ==
  /\ outbox \subseteq Replica
  /\ \A p \in DOMAIN files : p[1] \in Due /\ p[2] \in Round
  /\ records \in [Replica -> Session \cup {None, Torn}]

\* Between commands nothing is remembered, threads run behind the barrier only,
\* and the field is ready behind it or nobody is.
Stages ==
  /\ stage = "idle" => reported = {} /\ \A r \in Replica : answers[r] = << >>
  /\ stage # "barrier" => \A r \in Replica : run[r] = "none"
  /\ stage = "barrier" => ready \in {{}, Due}

\* The answers of a replica: those before the last are good, and each is in the
\* archive.
Answered(r) ==
  /\ Len(answers[r]) <= Len(Probes(r))
  /\ \A i \in DOMAIN answers[r] :
       /\ answers[r][i] \in {Good} \cup DOMAIN Probes(r)[i].checks
       /\ i < Len(answers[r]) => answers[r][i] = Good
       /\ LeavesArtifact(Probes(r)[i].name, answers[r][i]) =>
            Full(Path(r, Probes(r)[i].name), answers[r][i])

\* A replica found ready has a clean preflight of this command in the log.
Ready(r) ==
  \E e \in log : CleanPreflight(r, e) /\ e.command = commands /\ e.round = round

\* What a run has shown of its conversation is in the store.
Conversed(r) ==
  /\ Observed(r) # Unusable
  /\ Observed(r) = None => OutcomeOf(r) # "completed"
  /\ Observed(r) # None /\ resumed[r] # None => Observed(r) = resumed[r]
  /\ ResultSession(r) # None => records[r] = ResultSession(r)

Thread(r) ==
  /\ resumed[r] # None => records[r] = resumed[r]
  /\ run[r] \in Collected =>
       /\ seen[r].output \in Output[adapter[r]]
       /\ Full(Path(r, "run"), seen[r].output)
       /\ seen[r].present =>
            \E c \in log : /\ c.type = "decision_collected" /\ c.about
                           /\ c.replica = r /\ c.command = commands
  /\ run[r] \in {"settled", "terminated"} => Conversed(r)

\* Two replicas of one product never have one conversation in the store.
RecordsApart ==
  \A q, r \in Due :
    q # r /\ adapter[q] = adapter[r] /\ records[q] \in Session => records[q] # records[r]

\* What a result says follows from the output it names.
Explained(e) ==
  /\ e.replica \in Due /\ e.round \in Round
  /\ e.about.session # None => records[e.replica] = e.about.session
  /\ e.about.session \in Session \cup {None} /\ e.about.exit \in Exit
  /\ \E present \in BOOLEAN, output \in Output[adapter[e.replica]] :
       /\ <<<<e.replica, e.round, "run">>, output>> \in e.artifacts
       /\ e.about.outcome = OutcomeIn(adapter[e.replica], output, e.about.exit, present)
       /\ e.about.outcome = "completed" =>
            /\ AnswerIn(adapter[e.replica], e.about.session, output)
            /\ \E c \in log : /\ c.type = "decision_collected" /\ c.about
                              /\ c.replica = e.replica /\ c.command = e.command

\* An event of the log has its evidence.
Sound(e) ==
  /\ e.type \in EventType /\ e.command \in 1..commands
  /\ \A a \in e.artifacts : Full(a[1], a[2])
  /\ e.type = "replica_launched" =>
       \A r \in Due : \E f \in log :
         CleanPreflight(r, f) /\ f.command = e.command /\ f.round = e.round
  /\ e.type = "replica_completed" => Explained(e)

IInv ==
  /\ CommandTyped
  /\ DiskTyped
  /\ Stages
  /\ \A r \in Due : Answered(r)
  /\ \A r \in ready : Ready(r)
  /\ \A r \in Due : Thread(r)
  /\ \A r \in Replica \ Due : run[r] = "none"
  /\ RecordsApart
  /\ \A e \in log : Sound(e)

-----------------------------------------------------------------------------
(* Facts about AgentOutput *)

\* What a client prints are lines.
LEMMA OutputPrinted ==
  ASSUME NEW a \in Adapter, NEW output \in Output[a]
  PROVE  output \in Seq(Printed) /\ output # None
BY OutputAssumption

\* The first test that applies decides, and codes come first.
LEMMA OutcomeFacts ==
  ASSUME NEW codes, IsFiniteSet(codes), NEW succeeded, NEW exit \in Exit,
         NEW present \in BOOLEAN
  PROVE  LET outcome == Outcome(CodexClasses, codes, succeeded, exit, present) IN
         /\ outcome \in RunnerOutcomes
         /\ outcome = "completed" => codes = {} /\ exit = "zero" /\ present /\ succeeded
         /\ codes \cap SharedVoidOutcomes # {} =>
              outcome \in SharedVoidOutcomes \cup {"runner_error"}
<1> DEFINE outcome == Outcome(CodexClasses, codes, succeeded, exit, present)
<1> SUFFICES /\ outcome \in RunnerOutcomes
             /\ outcome = "completed" => codes = {} /\ exit = "zero" /\ present /\ succeeded
             /\ codes \cap SharedVoidOutcomes # {} =>
                  outcome \in SharedVoidOutcomes \cup {"runner_error"}
  OBVIOUS
<1>1. CASE codes # {} /\ Cardinality(codes) = 1 /\ codes \subseteq CodexClasses
  <2>1. PICK c : codes = {c}
    BY <1>1, FS_Singleton
  <2>2. outcome = CHOOSE d \in codes : TRUE
    BY <1>1 DEF Outcome
  <2>3. outcome = c
    BY <2>1, <2>2
  <2> QED  BY <1>1, <2>1, <2>3 DEF CodexClasses, RunnerOutcomes, SharedVoidOutcomes
<1>2. CASE codes # {} /\ ~(Cardinality(codes) = 1 /\ codes \subseteq CodexClasses)
  <2>1. outcome = "runner_error"
    BY <1>2 DEF Outcome
  <2> QED  BY <1>2, <2>1 DEF RunnerOutcomes
<1>3. CASE codes = {}
  BY <1>3 DEF Outcome, RunnerOutcomes, SharedVoidOutcomes, HoldOutcomes
<1> QED  BY <1>1, <1>2, <1>3

\* The objects a Grok Build stream is read as differ from its lines in type only.
LEMMA GrokRead ==
  ASSUME NEW output \in Seq(Printed), GrokEvents(output) # None
  PROVE  /\ GrokEvents(output) = [i \in DOMAIN output |-> GrokReads(output[i])]
         /\ GrokEvents(output) \in Seq(Printed)
         /\ Len(GrokEvents(output)) = Len(output)
         /\ \A i \in DOMAIN output :
              /\ GrokReads(output[i]) \in Printed
              /\ GrokReads(output[i]).codes = output[i].codes
              /\ GrokReads(output[i]).reason = output[i].reason
              /\ GrokReads(output[i]).session = output[i].session
              /\ output[i].type # "untyped" => GrokReads(output[i]) = output[i]
<1> DEFINE read == [i \in DOMAIN output |-> GrokReads(output[i])]
<1>1. GrokEvents(output) = read
  BY DEF GrokEvents
<1>2. ASSUME NEW line \in Printed
      PROVE  /\ GrokReads(line) \in Printed
             /\ GrokReads(line).codes = line.codes
             /\ GrokReads(line).reason = line.reason
             /\ GrokReads(line).session = line.session
             /\ line.type # "untyped" => GrokReads(line) = line
  BY DEF GrokReads, Printed
<1>3. DOMAIN output = 1..Len(output) /\ Len(output) \in Nat
  OBVIOUS
<1>4. read \in Seq(Printed) /\ Len(read) = Len(output)
  <2>1. \A i \in 1..Len(output) : GrokReads(output[i]) \in Printed
    BY <1>2
  <2> QED  BY <1>3, <2>1
<1> QED  BY <1>1, <1>2, <1>4

LEMMA UnionWithin ==
  ASSUME NEW parts, NEW whole, \A p \in parts : p \subseteq whole
  PROVE  UNION parts \subseteq whole
<1> SUFFICES ASSUME NEW c \in UNION parts  PROVE c \in whole
  OBVIOUS
<1>1. PICK p \in parts : c \in p
  OBVIOUS
<1> QED  BY <1>1

LEMMA CodesFinite ==
  ASSUME NEW events \in Seq(Printed)
  PROVE  IsFiniteSet(CodexCodes(events)) /\ IsFiniteSet(GrokCodes(events))
<1> DEFINE Any == Reasons
<1>1. IsFiniteSet(Any)
  <2>1. Any = {"quota_exhausted", "provider_unavailable", "refusal", "other", "end_turn", "blank"}
    BY DEF Reasons, Codes, CodexClasses, GrokClasses
  <2>2. IsFiniteSet({"quota_exhausted"})
    BY FS_Singleton
  <2>3. IsFiniteSet({"quota_exhausted"} \cup {"provider_unavailable"})
    BY <2>2, FS_AddElement
  <2>4. IsFiniteSet({"quota_exhausted"} \cup {"provider_unavailable"} \cup {"refusal"})
    BY <2>3, FS_AddElement
  <2>5. IsFiniteSet({"quota_exhausted"} \cup {"provider_unavailable"} \cup {"refusal"} \cup {"other"})
    BY <2>4, FS_AddElement
  <2>6. IsFiniteSet({"quota_exhausted"} \cup {"provider_unavailable"} \cup {"refusal"}
                      \cup {"other"} \cup {"end_turn"})
    BY <2>5, FS_AddElement
  <2>7. IsFiniteSet({"quota_exhausted"} \cup {"provider_unavailable"} \cup {"refusal"}
                      \cup {"other"} \cup {"end_turn"} \cup {"blank"})
    BY <2>6, FS_AddElement
  <2>8. Any = {"quota_exhausted"} \cup {"provider_unavailable"} \cup {"refusal"}
                \cup {"other"} \cup {"end_turn"} \cup {"blank"}
    BY <2>1
  <2> QED  BY <2>7, <2>8
<1>2. \A i \in DOMAIN events : events[i].codes \subseteq Any
                                /\ events[i].reason \in {None} \cup Any
  <2>1. \A l \in Printed : l.codes \subseteq Any /\ l.reason \in {None} \cup Any
    BY DEF Printed, Reasons
  <2> QED  BY <2>1
<1>3. "refusal" \in Any
  BY DEF Reasons, Codes, CodexClasses
<1>4. \A i \in DOMAIN events : events[i].codes \subseteq Any
  BY <1>2
<1> HIDE DEF Any
<1>5. CodexCodes(events) \subseteq Any
  <2> DEFINE shown == {events[i].codes : i \in {j \in DOMAIN events :
                                                 events[j].type \in {"error", "turn.failed"}}}
  <2>1. \A codes \in shown : codes \subseteq Any
    BY <1>4
  <2>2. UNION shown \subseteq Any
    <3> HIDE DEF shown
    <3> QED  BY <2>1, UnionWithin
  <2> QED  BY <1>3, <2>2 DEF CodexCodes
<1>6. GrokCodes(events) \subseteq Any
  <2> DEFINE shown == {events[i].codes : i \in {j \in DOMAIN events : events[j].type = "error"}}
  <2>1. \A codes \in shown : codes \subseteq Any
    BY <1>4
  <2>2. UNION shown \subseteq Any
    <3> HIDE DEF shown
    <3> QED  BY <2>1, UnionWithin
  <2>3. {events[i].reason : i \in Ends(events)} \ {None, "end_turn", "blank"} \subseteq Any
    BY <1>2 DEF Ends
  <2> QED  BY <2>2, <2>3 DEF GrokCodes
<1> QED  BY <1>1, <1>5, <1>6, FS_Subset

\* The outcome of a run is in the contract of a runner; a documented quota or
\* provider failure is reported as a shared failure or as a runner error; and
\* nothing is complete but a stream without codes that came to its end.
LEMMA OutcomeOfOutput ==
  ASSUME NEW a \in Adapter, NEW output \in Seq(Printed), NEW exit \in Exit,
         NEW present \in BOOLEAN
  PROVE  /\ OutcomeIn(a, output, exit, present) \in RunnerOutcomes
         /\ (\E i \in DOMAIN output, c \in SharedVoidOutcomes : Reports(a, output[i], c)) =>
              OutcomeIn(a, output, exit, present) \in SharedVoidOutcomes \cup {"runner_error"}
         /\ OutcomeIn(a, output, exit, present) = "completed" =>
              /\ exit = "zero" /\ present
              /\ a = "codex" => /\ CodexEvents(output) # None
                                /\ CodexCodes(output) = {} /\ CodexSucceeded(output)
              /\ a = "grok_build" => /\ GrokEvents(output) # None
                                     /\ GrokSucceeded(GrokEvents(output))
<1>1. CASE a = "codex"
  <2>1. CASE CodexEvents(output) = None
    BY <1>1, <2>1 DEF OutcomeIn, CodexOutcome, RunnerOutcomes
  <2>2. CASE CodexEvents(output) # None
    <3>1. CodexEvents(output) = output
      BY <2>2 DEF CodexEvents
    <3>2. OutcomeIn(a, output, exit, present) =
            Outcome(CodexClasses, CodexCodes(output), CodexSucceeded(output), exit, present)
      BY <1>1, <2>2, <3>1 DEF OutcomeIn, CodexOutcome
    <3>3. ASSUME NEW i \in DOMAIN output, NEW c \in SharedVoidOutcomes, Reports(a, output[i], c)
          PROVE  CodexCodes(output) \cap SharedVoidOutcomes # {}
      <4>1. c \in output[i].codes /\ output[i].type \in {"error", "turn.failed"}
        BY <1>1, <3>3 DEF Reports
      <4> QED  BY <4>1 DEF CodexCodes
    <3> QED  BY <1>1, <2>2, <3>2, <3>3, OutcomeFacts, CodesFinite
  <2> QED  BY <2>1, <2>2
<1>2. CASE a = "grok_build"
  <2>1. CASE GrokEvents(output) = None
    BY <1>2, <2>1 DEF OutcomeIn, GrokOutcome, RunnerOutcomes
  <2>2. CASE GrokEvents(output) # None
    <3> DEFINE events == GrokEvents(output)
    <3>1. OutcomeIn(a, output, exit, present) =
            Outcome(CodexClasses, GrokCodes(events), GrokSucceeded(events), exit, present)
      BY <1>2, <2>2 DEF OutcomeIn, GrokOutcome, CodexClasses, GrokClasses
    <3>2. /\ events \in Seq(Printed) /\ DOMAIN events = DOMAIN output
          /\ \A i \in DOMAIN output : events[i] = GrokReads(output[i])
      BY <2>2, GrokRead
    <3>3. ASSUME NEW i \in DOMAIN output, NEW c \in SharedVoidOutcomes, Reports(a, output[i], c)
          PROVE  GrokCodes(events) \cap SharedVoidOutcomes # {}
      <4>1. c # None /\ c \notin {None, "end_turn", "blank"}
        BY OutputAssumption DEF SharedVoidOutcomes, Reasons, Codes, CodexClasses
      <4>2. CASE c \in output[i].codes /\ output[i].type = "error"
        <5>1. events[i] = output[i]
          BY <2>2, <4>2, GrokRead
        <5> HIDE DEF events
        <5> QED  BY <3>2, <4>2, <5>1 DEF GrokCodes
      <4>3. CASE c = output[i].reason /\ output[i].type \in {"end", "untyped"}
        <5>1. events[i].type = "end" /\ events[i].reason = c
          <6>1. output[i] \in Printed
            OBVIOUS
          <6> QED  BY <3>2, <4>1, <4>3, <6>1 DEF GrokReads, Printed
        <5> HIDE DEF events
        <5>2. i \in Ends(events)
          BY <3>2, <5>1 DEF Ends
        <5>3. c \in {events[j].reason : j \in Ends(events)}
          BY <5>1, <5>2
        <5> QED  BY <4>1, <5>3 DEF GrokCodes
      <4> QED  BY <1>2, <3>3, <4>2, <4>3 DEF Reports
    <3> HIDE DEF events
    <3>4. IsFiniteSet(GrokCodes(events))
      BY <3>2, CodesFinite
    <3> QED  BY <1>2, <2>2, <3>1, <3>3, <3>4, OutcomeFacts DEF events
  <2> QED  BY <2>1, <2>2
<1> QED  BY <1>1, <1>2 DEF Adapter

\* The conversation read in a stream is one it names.
LEMMA SessionTyped ==
  ASSUME NEW a \in Adapter, NEW output \in Seq(Printed)
  PROVE  SessionIn(a, output) \in Session \cup {None, Unusable}
<1>0. \A l \in Printed : l.session \in Session \cup {None}
  BY DEF Printed
<1>1. ASSUME NEW events \in Seq(Printed), NEW I \in SUBSET DOMAIN events, Cardinality(I) = 1
      PROVE  events[CHOOSE i \in I : TRUE].session \in Session \cup {None}
  <2>1. I # {}
    <3>1. Cardinality({}) = 0
      BY FS_EmptySet
    <3>2. Cardinality({}) # 1
      BY <3>1
    <3> QED  BY <1>1, <3>2, Zenon
  <2>2. \E i \in I : TRUE
    BY <2>1
  <2>3. (CHOOSE i \in I : TRUE) \in I
    BY <2>2, Zenon
  <2> QED  BY <1>0, <2>3
<1>2. CASE a = "codex"
  <2>1. CASE CodexEvents(output) = None
    BY <1>2, <2>1 DEF SessionIn
  <2>2. CASE CodexEvents(output) # None
    <3> DEFINE started == {i \in DOMAIN output : output[i].type = "thread.started"}
    <3>1. SessionIn(a, output) = CodexSession(output)
      BY <1>2, <2>2 DEF SessionIn, CodexEvents
    <3>2. Cardinality(started) = 1 =>
            output[CHOOSE i \in started : TRUE].session \in Session \cup {None}
      BY <1>1
    <3> QED  BY <3>1, <3>2 DEF CodexSession
  <2> QED  BY <2>1, <2>2
<1>3. CASE a = "grok_build"
  <2>1. CASE GrokEvents(output) = None
    BY <1>3, <2>1 DEF SessionIn
  <2>2. CASE GrokEvents(output) # None
    <3> DEFINE events == GrokEvents(output)
               named == {i \in Ends(events) : events[i].session # None}
    <3>1. SessionIn(a, output) = GrokSession(events)
      BY <1>3, <2>2 DEF SessionIn
    <3>2. events \in Seq(Printed)
      BY <2>2, GrokRead
    <3> HIDE DEF events
    <3>3. Cardinality(named) = 1 =>
            events[CHOOSE i \in named : TRUE].session \in Session \cup {None}
      BY <1>1, <3>2 DEF Ends
    <3>4. Len(events) = 1 => events[1].session \in Session \cup {None}
      <4>1. \A i \in 1..Len(events) : events[i] \in Printed
        BY <3>2
      <4>2. Len(events) = 1 => 1 \in 1..Len(events)
        OBVIOUS
      <4> QED  BY <1>0, <4>1, <4>2
    <3>5. GrokSession(events) =
            IF named = {} THEN IF Len(events) = 1 THEN events[1].session ELSE None
            ELSE IF Cardinality(named) = 1 THEN events[CHOOSE i \in named : TRUE].session
            ELSE Unusable
      BY DEF GrokSession
    <3> HIDE DEF named
    <3> QED  BY <3>1, <3>3, <3>4, <3>5
  <2> QED  BY <2>1, <2>2
<1> QED  BY <1>2, <1>3 DEF Adapter

\* Sets of positions in a stream.
LEMMA OnlyMember ==
  ASSUME NEW I, Cardinality(I) = 1, IsFiniteSet(I)
  PROVE  \E i : I = {i} /\ (CHOOSE j \in I : TRUE) = i
<1>1. PICK i : I = {i}
  BY FS_Singleton
<1> QED  BY <1>1

LEMMA Indices ==
  ASSUME NEW output \in Seq(Printed), NEW I \in SUBSET DOMAIN output
  PROVE  IsFiniteSet(I)
<1>1. DOMAIN output = 1..Len(output) /\ Len(output) \in Nat
  OBVIOUS
<1>2. IsFiniteSet(DOMAIN output)
  BY <1>1, FS_Interval
<1> QED  BY <1>2, FS_Subset

\* What is completed is an answer, in the conversation read in it.
LEMMA CodexAnswers ==
  ASSUME NEW output \in Seq(Printed), NEW s \in Session,
         CodexEvents(output) # None, CodexCodes(output) = {}, CodexSucceeded(output),
         SessionIn("codex", output) = s
  PROVE  AnswerIn("codex", s, output)
<1> DEFINE started == {i \in DOMAIN output : output[i].type = "thread.started"}
<1>1. CodexSession(output) = s /\ s # None /\ s # Unusable
  BY AdapterAssumption DEF SessionIn, CodexEvents
<1>2. \A i \in DOMAIN output : output[i].type \notin {"garbled", "untyped", "error", "turn.failed"}
  BY DEF CodexEvents, CodexSucceeded, Types
<1>3. \E i \in DOMAIN output : output[i].type = "turn.completed"
  BY DEF CodexSucceeded, Types
<1>4. \A i \in DOMAIN output : output[i].type = "item.completed" => output[i].reason # "refusal"
  BY DEF CodexCodes
<1>5. Cardinality(started) = 1 /\ output[CHOOSE i \in started : TRUE].session = s
  BY <1>1 DEF CodexSession
<1>6. IsFiniteSet(started)
  BY Indices
<1>7. PICK i : started = {i} /\ (CHOOSE j \in started : TRUE) = i
  <2> HIDE DEF started
  <2> QED  BY <1>5, <1>6, OnlyMember
<1>8. output[i].session = s
  BY <1>5, <1>7
<1> QED  BY <1>2, <1>3, <1>4, <1>7, <1>8 DEF AnswerIn

LEMMA GrokAnswers ==
  ASSUME NEW output \in Seq(Printed), NEW s \in Session,
         GrokEvents(output) # None, GrokSucceeded(GrokEvents(output)),
         SessionIn("grok_build", output) = s
  PROVE  AnswerIn("grok_build", s, output)
<1> DEFINE events == GrokEvents(output)
           named  == {i \in Ends(events) : events[i].session # None}
<1>1. GrokSession(events) = s /\ s # None /\ s # Unusable
  BY AdapterAssumption DEF SessionIn
<1>2. /\ DOMAIN events = DOMAIN output /\ events \in Seq(Printed)
      /\ \A i \in DOMAIN output :
           /\ events[i] = GrokReads(output[i])
           /\ events[i].reason = output[i].reason
           /\ events[i].session = output[i].session
           /\ output[i].type # "untyped" => events[i] = output[i]
  BY GrokRead
<1>3. \A i \in DOMAIN output : events[i].type \notin {"garbled", "untyped"}
  <2>1. \A i \in DOMAIN output :
          [j \in DOMAIN output |-> GrokReads(output[j])][i].type \notin {"garbled", "untyped"}
    BY DEF GrokEvents, Types
  <2> QED  BY <1>2, <2>1
<1>4. \A i \in DOMAIN output : (i \in Ends(events)) <=> (output[i].type \in {"end", "untyped"})
  <2>1. ASSUME NEW i \in DOMAIN output
        PROVE  (events[i].type = "end") <=> (output[i].type \in {"end", "untyped"})
    <3>1. output[i] \in Printed
      OBVIOUS
    <3>2. output[i].type = "untyped" => events[i].type \in {"end", "untyped"}
      BY <1>2, <3>1 DEF GrokReads, Printed
    <3> QED  BY <1>2, <1>3, <3>2
  <2> HIDE DEF events
  <2> QED  BY <1>2, <2>1 DEF Ends
<1>5. /\ Ends(events) # {} /\ \A i \in Ends(events) : events[i].reason \in {None, "end_turn"}
      /\ \A i \in DOMAIN output : events[i].type # "error"
  <2>1. events \in Seq(Printed) /\ GrokSucceeded(events)
    BY <1>2
  <2> HIDE DEF events
  <2> QED  BY <1>2, <2>1 DEF GrokSucceeded, Types
<1> HIDE DEF events
<1>6. Ends(events) \subseteq DOMAIN output
  BY <1>2 DEF Ends
<1>7. named # {}
  <2> SUFFICES ASSUME named = {}  PROVE FALSE
    OBVIOUS
  <2>1. Len(events) = 1 /\ events[1].session = s
    BY <1>1 DEF GrokSession
  <2>2. Ends(events) = {1}
    BY <1>2, <1>5, <2>1 DEF Ends
  <2>3. events[1].session # None
    BY <1>1, <2>1
  <2> QED  BY <2>2, <2>3
<1>8. Cardinality(named) = 1 /\ events[CHOOSE i \in named : TRUE].session = s
  BY <1>1, <1>7 DEF GrokSession
<1>9. IsFiniteSet(named)
  BY <1>2, Indices DEF Ends
<1>10. PICK i : named = {i} /\ (CHOOSE j \in named : TRUE) = i
  <2> HIDE DEF named
  <2> QED  BY <1>8, <1>9, OnlyMember
<1>11. /\ i \in DOMAIN output /\ output[i].type \in {"end", "untyped"} /\ output[i].session = s
  BY <1>2, <1>4, <1>6, <1>8, <1>10
<1>12. ASSUME NEW j \in DOMAIN output, output[j].type \in {"end", "untyped"},
              output[j].session # None
       PROVE  j = i
  BY <1>2, <1>4, <1>10, <1>12
<1>13. \A j \in DOMAIN output : output[j].type \notin {"garbled", "error"}
  BY <1>2, <1>3, <1>5
<1>14. \A j \in DOMAIN output :
         output[j].type \in {"end", "untyped"} => output[j].reason \in {None, "end_turn"}
  BY <1>2, <1>4, <1>5
<1> QED  BY <1>11, <1>12, <1>13, <1>14 DEF AnswerIn

-----------------------------------------------------------------------------
(* Facts about the probes *)

\* No probe gives its approval as the reason of a failure.
Faulty(checks) == \A d \in DOMAIN checks : checks[d] # Good

LEMMA NoGoodReason ==
  \A probes \in {CodexProbes, GrokProbes} : \A i \in DOMAIN probes : Faulty(probes[i].checks)
<1>1. Faulty(CodexRequest) /\ Faulty(GrokRequest) /\ Faulty(Failed)
  BY DEF Faulty, CodexRequest, GrokRequest, Failed, Good
<1>2. ASSUME NEW g, Faulty(g)  PROVE Faulty(Plus(Failed, g))
  BY <1>1, <1>2 DEF Plus, Faulty
<1>3. Faulty(CodexVersion)
  <2>1. Faulty([version |-> "version_mismatch"])
    BY DEF Faulty, Good
  <2> QED  BY <1>2, <2>1 DEF CodexVersion
<1>4. Faulty(CodexLogin)
  <2>1. Faulty([nonzero |-> "unauthenticated", unknownMode |-> "unauthenticated",
                 otherMode |-> "api_key_authentication"])
    BY DEF Faulty, Good
  <2> QED  BY <1>2, <2>1 DEF CodexLogin
<1>5. Faulty(CodexHelp)
  <2>1. Faulty([capability |-> "structured_interface_missing"])
    BY DEF Faulty, Good
  <2> QED  BY <1>2, <2>1 DEF CodexHelp
<1>6. Faulty(CodexDoctor)
  <2>1. Faulty([invalid |-> "doctor_invalid", version |-> "version_mismatch",
                 installation |-> "probe_failed", credentials |-> "unauthenticated",
                 authMode |-> "api_key_authentication", storedKey |-> "api_key_authentication",
                 config |-> "doctor_invalid", model |-> "model_mismatch",
                 reasoning |-> "reasoning_mismatch", routing |-> "routing_enabled",
                 reachability |-> "provider_unavailable"])
    BY DEF Faulty, Good
  <2> QED  BY <1>2, <2>1 DEF CodexDoctor
<1>7. Faulty(GrokVersion)
  <2>1. Faulty([version |-> "version_mismatch"])
    BY DEF Faulty, Good
  <2> QED  BY <1>2, <2>1 DEF GrokVersion
<1>8. Faulty(GrokModels)
  <2>1. Faulty([unreachable |-> "provider_unavailable", signedOut |-> "unauthenticated",
                 unknownMode |-> "unauthenticated", apiKey |-> "api_key_authentication",
                 defaultModel |-> "model_mismatch", available |-> "model_mismatch"])
    BY DEF Faulty, Good
  <2> QED  BY <1>2, <2>1 DEF GrokModels
<1>9. Faulty(GrokHelp)
  <2>1. Faulty([capability |-> "structured_interface_missing"])
    BY DEF Faulty, Good
  <2> QED  BY <1>2, <2>1 DEF GrokHelp
<1>10. Faulty(GrokAgentHelp)
  <2>1. Faulty([stdio |-> "structured_interface_missing", reasoningMode |-> "reasoning_mismatch"])
    BY DEF Faulty, Good
  <2> QED  BY <1>2, <2>1 DEF GrokAgentHelp
<1>11. Faulty(GrokInspect)
  <2>1. Faulty([invalid |-> "inspect_invalid", version |-> "version_mismatch",
                 model |-> "model_mismatch", reasoning |-> "reasoning_mismatch",
                 routing |-> "routing_enabled", reachability |-> "provider_unavailable"])
    BY DEF Faulty, Good
  <2> QED  BY <1>2, <2>1 DEF GrokInspect
<1>12. \A i \in 1..5 : Faulty(CodexProbes[i].checks)
  BY <1>1, <1>3, <1>4, <1>5, <1>6 DEF CodexProbes
<1>13. \A i \in 1..6 : Faulty(GrokProbes[i].checks)
  BY <1>1, <1>7, <1>8, <1>9, <1>10, <1>11 DEF GrokProbes
<1>14. DOMAIN CodexProbes = 1..5 /\ DOMAIN GrokProbes = 1..6
  BY DEF CodexProbes, GrokProbes
<1> QED  BY <1>12, <1>13, <1>14

LEMMA ProbeCount ==
  ASSUME NEW r
  PROVE  /\ Len(Probes(r)) \in Nat \ {0}
         /\ DOMAIN Probes(r) = 1..Len(Probes(r))
         /\ Probes(r) \in {CodexProbes, GrokProbes}
<1>1. Len(CodexProbes) = 5 /\ DOMAIN CodexProbes = 1..5
  BY DEF CodexProbes
<1>2. Len(GrokProbes) = 6 /\ DOMAIN GrokProbes = 1..6
  BY DEF GrokProbes
<1> QED  BY <1>1, <1>2 DEF Probes

\* A preflight whose answers all agree is good, and only such a one.
LEMMA GoodVerdict ==
  ASSUME NEW r \in Due, Answered(r), answers[r] \in Seq({Good} \cup Deviation),
         adapter \in Field, Asked(r), Verdict(r) = Good
  PROVE  /\ Len(answers[r]) = Len(Probes(r))
         /\ \A i \in DOMAIN Probes(r) : answers[r][i] = Good
<1> DEFINE n == Len(answers[r])
<1>1. n = Len(Probes(r))
  BY DEF Asked
<1>2. Len(Probes(r)) \in Nat \ {0} /\ DOMAIN Probes(r) = 1..Len(Probes(r))
  BY ProbeCount
<1>3. Probes(r) \in {CodexProbes, GrokProbes}
  BY DEF Probes
<1>4. n \in DOMAIN answers[r] /\ n \in DOMAIN Probes(r) /\ n # 0
  BY <1>1, <1>2
<1>5. answers[r][n] = Good
  <2>1. answers[r][n] = Good \/ Probes(r)[n].checks[answers[r][n]] = Good
    BY <1>4 DEF Verdict
  <2>2. answers[r][n] \in {Good} \cup DOMAIN Probes(r)[n].checks
    BY <1>4 DEF Answered
  <2> QED  BY <1>3, <1>4, <2>1, <2>2, NoGoodReason DEF Faulty
<1>6. \A i \in DOMAIN answers[r] : i < n => answers[r][i] = Good
  BY DEF Answered
<1>7. DOMAIN answers[r] = DOMAIN Probes(r)
  BY <1>1, <1>2
<1> QED  BY <1>1, <1>2, <1>5, <1>6, <1>7

-----------------------------------------------------------------------------
(* Facts about the archive *)

\* What was archived with its checksum stays.
Kept == \A p, b : Full(p, b) => Full(p, b)'

LEMMA Archived ==
  ASSUME NEW path, NEW bytes, WriteArtifact(path, bytes)
  PROVE  Kept /\ Full(path, bytes)' /\ DOMAIN files' = DOMAIN files \cup {path}
<1>1. /\ DOMAIN files' = DOMAIN files \cup {path}
      /\ \A p \in DOMAIN files \cup {path} :
           files'[p] = IF p = path THEN [bytes |-> bytes, digest |-> bytes] ELSE files[p]
  BY DEF WriteArtifact, Store
<1>2. Full(path, bytes)'
  BY <1>1 DEF Full
<1>3. ASSUME NEW p, NEW b, Full(p, b)  PROVE Full(p, b)'
  <2>1. CASE p = path
    <3>1. files[path].bytes = bytes /\ files[path] = [bytes |-> b, digest |-> b]
      BY <1>3, <2>1 DEF Full, WriteArtifact, MayWrite
    <3>2. b = bytes
      BY <3>1
    <3> QED  BY <1>2, <2>1, <3>2
  <2>2. CASE p # path
    BY <1>1, <1>3, <2>2 DEF Full
  <2> QED  BY <2>1, <2>2
<1> QED  BY <1>1, <1>2, <1>3 DEF Kept

\* A write that is cut short leaves what was archived.
LEMMA TornKept ==
  ASSUME NEW path, NEW bytes, bytes # None, NEW left \in Leftovers(path, bytes),
         Store(path, left)
  PROVE  Kept /\ DOMAIN files' = DOMAIN files \cup {path}
<1>1. /\ DOMAIN files' = DOMAIN files \cup {path}
      /\ \A p \in DOMAIN files : p # path => files'[p] = files[p]
  BY DEF Store
<1>2. ASSUME NEW p, NEW b, Full(p, b)  PROVE Full(p, b)'
  <2>1. p # path
    <3>1. SUFFICES ASSUME p = path  PROVE FALSE
      OBVIOUS
    <3>2. path \in DOMAIN files /\ files[path] = [bytes |-> b, digest |-> b]
      BY <1>2, <3>1 DEF Full
    <3>3. files[path] = [bytes |-> bytes, digest |-> None]
      BY <3>2 DEF Leftovers
    <3> QED  BY <3>2, <3>3
  <2> QED  BY <1>1, <1>2, <2>1 DEF Full
<1> QED  BY <1>1, <1>2 DEF Kept

LEMMA Untouched ==
  ASSUME UNCHANGED files
  PROVE  Kept
BY DEF Kept, Full

-----------------------------------------------------------------------------
(* What a step leaves of the evidence *)

\* Artifacts, events and conversations stay.
Grows ==
  /\ Kept
  /\ log \subseteq log'
  /\ adapter' = adapter
  /\ \A r \in Replica : records[r] \in Session => records'[r] = records[r]

LEMMA DueReplicas ==
  ASSUME adapter \in Field
  PROVE  Due \subseteq Replica /\ \A r \in Due : adapter[r] \in Adapter
BY AdapterAssumption DEF Due

LEMMA ExplainedStays ==
  ASSUME Grows, adapter \in Field, NEW e, Explained(e)
  PROVE  Explained(e)'
<1>1. Due' = Due /\ adapter' = adapter
  BY DEF Grows, Due
<1>2. e.about.session # None => records'[e.replica] = e.about.session
  BY DueReplicas DEF Explained, Grows
<1>3. PICK present, output :
        /\ present \in BOOLEAN /\ output \in Output[adapter[e.replica]]
        /\ <<<<e.replica, e.round, "run">>, output>> \in e.artifacts
        /\ e.about.outcome = OutcomeIn(adapter[e.replica], output, e.about.exit, present)
        /\ e.about.outcome = "completed" =>
             /\ AnswerIn(adapter[e.replica], e.about.session, output)
             /\ \E c \in log : /\ c.type = "decision_collected" /\ c.about
                               /\ c.replica = e.replica /\ c.command = e.command
  BY DEF Explained
<1>4. \A c \in log : c \in log'
  BY DEF Grows
<1> QED  BY <1>1, <1>2, <1>3, <1>4 DEF Explained

LEMMA CleanStays ==
  ASSUME Grows, NEW r, NEW e
  PROVE  CleanPreflight(r, e)' <=> CleanPreflight(r, e)
BY DEF CleanPreflight, Grows, Probes

LEMMA SoundStays ==
  ASSUME Grows, adapter \in Field, commands \in Nat, commands' \in Nat, commands <= commands',
         NEW e, Sound(e)
  PROVE  Sound(e)'
<1>1. e.type \in EventType /\ e.command \in 1..commands'
  BY DEF Sound
<1>2. \A a \in e.artifacts : Full(a[1], a[2])'
  BY DEF Sound, Grows, Kept
<1>3. ASSUME e.type = "replica_launched", NEW r \in Due'
      PROVE  \E f \in log' : /\ CleanPreflight(r, f)' /\ f.command = e.command
                             /\ f.round = e.round
  <2>1. r \in Due
    BY <1>3 DEF Grows, Due
  <2>2. PICK f \in log : CleanPreflight(r, f) /\ f.command = e.command /\ f.round = e.round
    BY <1>3, <2>1 DEF Sound
  <2>3. f \in log'
    BY DEF Grows
  <2> QED  BY <2>2, <2>3, CleanStays
<1>4. e.type = "replica_completed" => Explained(e)'
  BY ExplainedStays DEF Sound
<1> QED  BY <1>1, <1>2, <1>3, <1>4 DEF Sound, EventType

LEMMA AnsweredStays ==
  ASSUME Grows, NEW r, Answered(r), round' = round, answers'[r] = answers[r]
  PROVE  Answered(r)'
<1>1. Probes(r)' = Probes(r)
  BY DEF Probes, Grows
<1>2. \A name : Path(r, name)' = Path(r, name)
  BY DEF Path
<1> QED  BY <1>1, <1>2 DEF Answered, Grows, Kept, LeavesArtifact

LEMMA ReadyStays ==
  ASSUME Grows, NEW r, Ready(r), round' = round, commands' = commands
  PROVE  Ready(r)'
<1>1. PICK e \in log : CleanPreflight(r, e) /\ e.command = commands /\ e.round = round
  BY DEF Ready
<1>2. e \in log'
  BY DEF Grows
<1> QED  BY <1>1, <1>2, CleanStays DEF Ready

LEMMA ThreadStays ==
  ASSUME Grows, NEW r \in Replica, Thread(r), resumed[r] \in Session \cup {None},
         run[r] \in {"settled", "terminated"} => ResultSession(r) \in Session \cup {None},
         round' = round, commands' = commands,
         run'[r] = run[r], resumed'[r] = resumed[r], seen'[r] = seen[r]
  PROVE  Thread(r)'
<1>1. /\ Observed(r)' = Observed(r) /\ OutcomeOf(r)' = OutcomeOf(r)
      /\ ResultSession(r)' = ResultSession(r)
  BY DEF Observed, OutcomeOf, ResultSession, Grows
<1>2. resumed'[r] # None => records'[r] = resumed'[r]
  BY DEF Thread, Grows
<1>3. ASSUME run'[r] \in Collected
      PROVE  /\ seen'[r].output \in Output[adapter'[r]]
             /\ Full(Path(r, "run"), seen[r].output)'
             /\ seen'[r].present =>
                  \E c \in log' : /\ c.type = "decision_collected" /\ c.about
                                  /\ c.replica = r /\ c.command = commands'
  <2>1. Path(r, "run")' = Path(r, "run")
    BY DEF Path
  <2>2. Full(Path(r, "run"), seen[r].output)
    BY <1>3 DEF Thread
  <2>3. Full(Path(r, "run"), seen[r].output)'
    BY <2>1, <2>2 DEF Grows, Kept, Full
  <2>4. \A c \in log : c \in log'
    BY DEF Grows
  <2> QED  BY <1>3, <2>3, <2>4 DEF Thread, Grows
<1>4. run'[r] \in {"settled", "terminated"} => Conversed(r)'
  BY <1>1 DEF Thread, Conversed, Grows
<1> QED  BY <1>2, <1>3, <1>4 DEF Thread, Full

LEMMA ReadSession ==
  ASSUME IInv, NEW r \in Replica
  PROVE  Observed(r) \in Session \cup {None, Unusable}
<1>1. seen[r].output \in Seq(Printed)
  BY DEF IInv, CommandTyped, Seen
<1>2. Observed(r) = SessionIn(IF adapter[r] = "codex" THEN "codex" ELSE "grok_build",
                              seen[r].output)
  BY DEF Observed, SessionIn
<1> QED  BY <1>1, <1>2, SessionTyped DEF Adapter

\* What a step that keeps the command leaves of the invariant.
LEMMA Carried ==
  ASSUME IInv, Grows, commands' = commands, round' = round
  PROVE  /\ Due' = Due
         /\ \A e \in log : Sound(e)'
         /\ \A r \in ready : Ready(r)'
         /\ \A r \in Due : answers'[r] = answers[r] => Answered(r)'
         /\ \A r \in Due :
              run'[r] = run[r] /\ resumed'[r] = resumed[r] /\ seen'[r] = seen[r] => Thread(r)'
<1>1. commands \in Nat /\ adapter \in Field
  BY AdapterAssumption DEF IInv, CommandTyped
<1>2. \A e \in log : Sound(e)'
  BY <1>1, SoundStays DEF IInv
<1>3. \A r \in ready : Ready(r)'
  BY ReadyStays DEF IInv
<1>4. \A r \in Due : answers'[r] = answers[r] => Answered(r)'
  BY AnsweredStays DEF IInv
<1>5. ASSUME NEW r \in Due, run'[r] = run[r], resumed'[r] = resumed[r], seen'[r] = seen[r]
      PROVE  Thread(r)'
  <2>1. r \in Replica /\ Thread(r) /\ resumed[r] \in Session \cup {None}
    BY <1>1, DueReplicas DEF IInv, CommandTyped
  <2>2. run[r] \in {"settled", "terminated"} => ResultSession(r) \in Session \cup {None}
    BY <2>1, ReadSession DEF ResultSession, Thread, Conversed
  <2> QED  BY <1>5, <2>1, <2>2, ThreadStays
<1> QED  BY <1>2, <1>3, <1>4, <1>5 DEF Grows, Due

\* A command that ends, by itself or killed, leaves the invariant to the disk.
LEMMA Forgotten ==
  ASSUME IInv, Forget, Grows, commands' = commands, faults' \in 0..MaxFaults,
         DiskTyped', RecordsApart', \A e \in log' : e \in log \/ Sound(e)'
  PROVE  IInv'
<1>1. commands \in Nat /\ adapter \in Field /\ adapter' = adapter /\ Due' = Due
  BY AdapterAssumption DEF IInv, CommandTyped, Grows, Due
<1>2. NothingSeen \in Seen
  BY DEF NothingSeen, Seen, Exit
<1>3. CommandTyped'
  <2>1. /\ stage' = "idle" /\ kind' \in Kind /\ round' = None /\ reported' = {} /\ ready' = {}
        /\ run' = [r \in Replica |-> "none"]
    BY DEF Forget, Kind
  <2>2. /\ answers' \in [Replica -> Seq({Good} \cup Deviation)]
        /\ run' \in [Replica -> ThreadState] /\ resumed' \in [Replica -> Session \cup {None}]
    BY DEF Forget, ThreadState
  <2>3. seen' \in [Replica -> Seen]
    BY <1>2 DEF Forget
  <2>4. commands' \in 0..MaxCommands
    BY DEF IInv, CommandTyped
  <2> QED  BY <1>1, <2>1, <2>2, <2>3, <2>4 DEF IInv, CommandTyped
<1>4. Stages'
  BY DEF Stages, Forget
<1>5. Due \subseteq Replica
  BY <1>1, DueReplicas
<1>6. ASSUME NEW r \in Due  PROVE Answered(r)' /\ Thread(r)'
  <2>1. answers'[r] = << >> /\ run'[r] = "none" /\ resumed'[r] = None
    BY <1>5 DEF Forget
  <2>2. Len(Probes(r))' \in Nat
    BY ProbeCount, <1>1 DEF Probes
  <2>3. Answered(r)'
    BY <2>1, <2>2 DEF Answered
  <2> QED  BY <2>1, <2>3 DEF Thread, Collected
<1>7. /\ \A r \in ready' : Ready(r)'
      /\ \A r \in Replica \ Due' : run'[r] = "none"
  BY DEF Forget
<1>8. \A e \in log' : Sound(e)'
  BY <1>1, SoundStays DEF IInv
<1> QED  BY <1>1, <1>3, <1>4, <1>6, <1>7, <1>8 DEF IInv

LEMMA NewEvent ==
  ASSUME NEW r, NEW type \in EventType, NEW about, NEW artifacts,
         type \notin {"replica_launched", "replica_completed"},
         commands > 0, commands \in Nat, commands' = commands,
         \A a \in artifacts : Full(a[1], a[2])',
         NEW e, e = Event(r, type, about, artifacts)
  PROVE  Sound(e)'
BY DEF Sound, Event

-----------------------------------------------------------------------------
(* The steps of a preflight *)

LEMMA InitHolds == Init => IInv
<1> SUFFICES ASSUME Init  PROVE IInv
  OBVIOUS
<1>1. adapter \in Field /\ Due \subseteq Replica
  BY DueReplicas DEF Init
<1>2. NothingSeen \in Seen
  BY DEF NothingSeen, Seen, Exit
<1>3. CommandTyped
  <2>1. /\ answers \in [Replica -> Seq({Good} \cup Deviation)]
        /\ run \in [Replica -> ThreadState] /\ resumed \in [Replica -> Session \cup {None}]
        /\ seen \in [Replica -> Seen]
    BY <1>2 DEF Init, ThreadState
  <2>2. /\ commands \in 0..MaxCommands /\ faults \in 0..MaxFaults
        /\ stage = "idle" /\ kind \in Kind /\ round = None /\ reported = {} /\ ready = {}
    BY AdapterAssumption DEF Init, Kind
  <2> QED  BY <1>1, <2>1, <2>2 DEF CommandTyped
<1>4. DiskTyped
  BY DEF Init, DiskTyped
<1>5. Stages
  BY DEF Init, Stages
<1>6. ASSUME NEW r \in Due  PROVE Answered(r) /\ Thread(r)
  <2>1. answers[r] = << >> /\ run[r] = "none" /\ resumed[r] = None
    BY <1>1, <1>6 DEF Init
  <2>2. Len(Probes(r)) \in Nat
    BY ProbeCount
  <2> QED  BY <2>1, <2>2 DEF Answered, Thread, Collected
<1>7. RecordsApart
  BY <1>1, AdapterAssumption DEF RecordsApart, Init
<1> QED  BY <1>3, <1>4, <1>5, <1>6, <1>7 DEF IInv, Init

LEMMA StartStep ==
  ASSUME IInv, NEW k \in Kind, NEW n \in Round, NEW cleared \in SUBSET Replica,
         Start(k, n, cleared)
  PROVE  IInv'
<1>1. /\ stage = "idle" /\ commands < MaxCommands /\ commands' = commands + 1
      /\ kind' = k /\ round' = n /\ stage' \in {"preflight", "barrier"}
      /\ outbox' = outbox \ cleared
      /\ UNCHANGED <<adapter, faults, answers, reported, ready, run, resumed, seen,
                     files, log, records>>
  BY DEF Start
<1>2. /\ reported = {} /\ ready = {}
      /\ \A r \in Replica : answers[r] = << >> /\ run[r] = "none"
  BY <1>1 DEF IInv, Stages, CommandTyped
<1>3. Grows
  BY <1>1, Untouched DEF Grows
<1>4. commands \in Nat /\ MaxCommands \in Nat /\ adapter \in Field /\ Due' = Due
  BY <1>1, AdapterAssumption DEF IInv, CommandTyped, Due
<1>5. CommandTyped' /\ DiskTyped' /\ RecordsApart'
  BY <1>1, <1>4 DEF IInv, CommandTyped, DiskTyped, RecordsApart
<1>6. Stages'
  BY <1>1, <1>2 DEF Stages
<1>7. ASSUME NEW r \in Due  PROVE Answered(r)' /\ Thread(r)'
  <2>1. r \in Replica /\ Thread(r)
    BY <1>4, <1>7, DueReplicas DEF IInv
  <2>2. answers'[r] = << >> /\ run'[r] = "none"
    BY <1>1, <1>2, <2>1
  <2>3. Len(Probes(r))' \in Nat
    BY <1>1, ProbeCount DEF Probes
  <2>4. resumed'[r] # None => records'[r] = resumed'[r]
    BY <1>1, <2>1 DEF Thread
  <2> QED  BY <2>2, <2>3, <2>4 DEF Answered, Thread, Collected
<1>8. \A e \in log : Sound(e)'
  BY <1>1, <1>3, <1>4, SoundStays DEF IInv
<1> QED  BY <1>1, <1>2, <1>4, <1>5, <1>6, <1>7, <1>8 DEF IInv

\* The step of a probe that is not asked yet, and where its artifact goes.
LEMMA NextProbe ==
  ASSUME IInv, NEW r \in Due, ~Asked(r)
  PROVE  /\ Len(answers[r]) \in Nat /\ Len(answers[r]) < Len(Probes(r))
         /\ Len(answers[r]) + 1 \in DOMAIN Probes(r)
         /\ \A i \in DOMAIN answers[r] : answers[r][i] = Good
<1>1. answers[r] \in Seq({Good} \cup Deviation) /\ Answered(r)
  BY DueReplicas DEF IInv, CommandTyped
<1>2. Len(Probes(r)) \in Nat \ {0} /\ DOMAIN Probes(r) = 1..Len(Probes(r))
      /\ Probes(r) \in {CodexProbes, GrokProbes}
  BY ProbeCount
<1>3. Len(answers[r]) # Len(Probes(r)) /\ Verdict(r) = Good
  BY DEF Asked
<1>4. Len(answers[r]) \in Nat /\ Len(answers[r]) < Len(Probes(r))
  BY <1>1, <1>2, <1>3 DEF Answered
<1>5. ASSUME NEW i \in DOMAIN answers[r]  PROVE answers[r][i] = Good
  <2> DEFINE n == Len(answers[r])
  <2>1. n # 0 /\ n \in DOMAIN answers[r] /\ n \in DOMAIN Probes(r) /\ i <= n
    BY <1>1, <1>2, <1>4
  <2>2. answers[r][n] = Good \/ Probes(r)[n].checks[answers[r][n]] = Good
    BY <1>3, <2>1 DEF Verdict
  <2>3. answers[r][n] \in {Good} \cup DOMAIN Probes(r)[n].checks
    BY <1>1, <2>1 DEF Answered
  <2>4. answers[r][n] = Good
    BY <1>2, <2>1, <2>2, <2>3, NoGoodReason DEF Faulty
  <2>5. i < n => answers[r][i] = Good
    BY <1>1 DEF Answered
  <2>6. i \in Nat /\ n \in Nat
    BY <1>1
  <2> QED  BY <2>1, <2>4, <2>5, <2>6
<1> QED  BY <1>2, <1>4, <1>5

LEMMA FaultsBounded ==
  ASSUME IInv, NEW bad, Fault(bad)
  PROVE  faults' \in 0..MaxFaults
<1>1. faults \in 0..MaxFaults /\ MaxFaults \in Nat
  BY AdapterAssumption DEF IInv, CommandTyped
<1>2. CASE bad
  BY <1>1, <1>2 DEF Fault
<1>3. CASE ~bad
  BY <1>1, <1>3 DEF Fault
<1> QED  BY <1>2, <1>3

LEMMA ProbeStep ==
  ASSUME IInv, NEW r \in Due, NEW answer \in {Good} \cup Deviation, Probe(r, answer)
  PROVE  IInv'
<1>0. PICK n, name, path : n = Len(answers[r]) /\ name = Probes(r)[n + 1].name /\ path = Path(r, name)
  OBVIOUS
<1>1. /\ stage = "preflight" /\ ~Asked(r)
      /\ answer \in {Good} \cup DOMAIN Probes(r)[n + 1].checks
      /\ answers' = [answers EXCEPT ![r] = Append(@, answer)]
      /\ UNCHANGED <<adapter, commands, stage, kind, round, reported, ready, run, resumed,
                     seen, outbox, records>>
  BY <1>0 DEF Probe, Probing, Step
<1>2. adapter \in Field /\ r \in Replica /\ answers[r] \in Seq({Good} \cup Deviation)
  BY DueReplicas DEF IInv, CommandTyped
<1>3. commands > 0 /\ commands \in Nat /\ round \in Round
  BY <1>1, AdapterAssumption DEF IInv, CommandTyped
<1>4. /\ Kept
      /\ \A p \in DOMAIN files' : p \in DOMAIN files \/ p = path
      /\ LeavesArtifact(name, answer) => Full(path, answer)'
  <2>1. CASE LeavesArtifact(name, answer)
    <3>1. WriteArtifact(path, answer)
      BY <1>0, <2>1 DEF Probe, Step
    <3> QED  BY <3>1, Archived
  <2>2. CASE ~LeavesArtifact(name, answer)
    <3>1. UNCHANGED files
      BY <1>0, <2>2 DEF Probe, Step
    <3> QED  BY <2>2, <3>1, Untouched
  <2> QED  BY <2>1, <2>2
<1>5. log' = log \/ log' = log \cup {Event(r, "preflight_started", None, {})}
  BY DEF Probe, AppendEvent
<1>6. Grows
  BY <1>1, <1>4, <1>5 DEF Grows
<1>7. faults' \in 0..MaxFaults
  <2>1. Fault(answer # Good)
    BY DEF Probe
  <2> QED  BY <2>1, FaultsBounded
<1>8. answers'[r] = Append(answers[r], answer)
      /\ \A q \in Replica : q # r => answers'[q] = answers[q]
  BY <1>1, <1>2 DEF IInv, CommandTyped
<1>9. CommandTyped'
  <2>1. Append(answers[r], answer) \in Seq({Good} \cup Deviation)
    BY <1>2
  <2>2. answers' \in [Replica -> Seq({Good} \cup Deviation)]
    BY <1>1, <2>1 DEF IInv, CommandTyped
  <2>3. Due' = Due
    BY <1>1 DEF Due
  <2> QED  BY <1>1, <1>7, <2>2, <2>3 DEF IInv, CommandTyped
<1>10. DiskTyped'
  <2>1. path[1] = r /\ path[2] = round
    BY <1>0 DEF Path
  <2>2. Due' = Due
    BY <1>1 DEF Due
  <2> QED  BY <1>1, <1>3, <1>4, <2>1, <2>2 DEF IInv, DiskTyped
<1>11. Stages'
  BY <1>1 DEF IInv, Stages, Due
<1>12. Answered(r)'
  <2>1. /\ n \in Nat /\ n < Len(Probes(r)) /\ n + 1 \in DOMAIN Probes(r)
        /\ \A i \in DOMAIN answers[r] : answers[r][i] = Good
    BY <1>0, <1>1, NextProbe
  <2>2. /\ Len(answers'[r]) = n + 1 /\ DOMAIN answers'[r] = 1..(n + 1)
        /\ answers'[r][n + 1] = answer
        /\ \A i \in 1..n : answers'[r][i] = answers[r][i] /\ i \in DOMAIN answers[r]
    BY <1>0, <1>2, <1>8
  <2>3. Probes(r)' = Probes(r) /\ \A m : <<r, round', m>> = <<r, round, m>>
    BY <1>1 DEF Probes
  <2>4. Len(Probes(r)) \in Nat
    BY ProbeCount
  <2>5. ASSUME NEW i \in DOMAIN answers'[r]
        PROVE  /\ answers'[r][i] \in {Good} \cup DOMAIN Probes(r)[i].checks
               /\ i < n + 1 => answers'[r][i] = Good
               /\ LeavesArtifact(Probes(r)[i].name, answers'[r][i]) =>
                    Full(Path(r, Probes(r)[i].name), answers[r][i])'
    <3>1. CASE i = n + 1
      <4>1. Probes(r)[i].name = name /\ answers'[r][i] = answer
        BY <1>0, <2>2, <3>1
      <4>2. path = Path(r, Probes(r)[i].name)'
        BY <1>0, <1>1, <2>3, <4>1 DEF Path
      <4>3. LeavesArtifact(name, answer) => Full(Path(r, Probes(r)[i].name), answers[r][i])'
        BY <1>4, <4>1, <4>2 DEF Full
      <4> QED  BY <1>1, <2>1, <3>1, <4>1, <4>3
    <3>2. CASE i \in 1..n
      <4>1. answers'[r][i] = Good /\ answers[r][i] = Good /\ i \in DOMAIN answers[r]
        BY <2>1, <2>2, <3>2
      <4>2. LeavesArtifact(Probes(r)[i].name, Good) => Full(Path(r, Probes(r)[i].name), Good)
        BY <4>1 DEF IInv, Answered
      <4>3. Path(r, Probes(r)[i].name)' = Path(r, Probes(r)[i].name)
        BY <1>1, <2>3 DEF Path
      <4>4. LeavesArtifact(Probes(r)[i].name, Good) =>
              Full(Path(r, Probes(r)[i].name), answers[r][i])'
        BY <1>4, <4>1, <4>2, <4>3 DEF Kept, Full
      <4> QED  BY <3>2, <4>1, <4>4
    <3> QED  BY <2>1, <2>2, <3>1, <3>2
  <2> QED  BY <2>1, <2>2, <2>3, <2>4, <2>5 DEF Answered, LeavesArtifact
<1>13. \A e \in log' : e \in log \/ Sound(e)'
  <2>1. ASSUME NEW e, e = Event(r, "preflight_started", None, {})  PROVE Sound(e)'
    BY <1>1, <1>3, <2>1, NewEvent DEF EventType
  <2> QED  BY <1>5, <2>1
<1>14. \A q \in Due : Answered(q)' /\ Thread(q)'
  BY <1>1, <1>2, <1>6, <1>8, <1>12, DueReplicas, Carried
<1> QED  BY <1>1, <1>6, <1>9, <1>10, <1>11, <1>13, <1>14, Carried DEF IInv, RecordsApart

\* A probe or a summary that raises ends the command and leaves the disk.
LEMMA EndsStep ==
  ASSUME IInv, Forget, faults' \in 0..MaxFaults, UNCHANGED <<adapter, commands, disk>>
  PROVE  IInv'
<1>1. Grows
  BY Untouched DEF Grows, disk
<1>2. DiskTyped' /\ RecordsApart'
  BY DEF IInv, DiskTyped, RecordsApart, disk, Due
<1>3. log' = log
  BY DEF disk
<1> QED  BY <1>1, <1>2, <1>3, Forgotten

LEMMA FinishStep ==
  ASSUME IInv, NEW r \in Due, Finish(r)
  PROVE  IInv'
<1>0. PICK verdict, gathered, path :
        verdict = Verdict(r) /\ gathered = Gathered(r) /\ path = Path(r, "summary")
  OBVIOUS
<1>e. PICK e : e = Event(r, "preflight_completed", verdict, gathered)
  OBVIOUS
<1>1. /\ stage = "preflight" /\ Asked(r) /\ r \notin reported
      /\ WriteArtifact(path, verdict)
      /\ log' = log \cup {e}
      /\ reported' = reported \cup {r}
      /\ ready' = IF verdict = Good THEN ready \cup {r} ELSE ready
      /\ UNCHANGED <<adapter, commands, faults, stage, kind, round, answers, run, resumed,
                     seen, outbox, records>>
  BY <1>0, <1>e DEF Finish, Probing, AppendEvent
<1>2. adapter \in Field /\ r \in Replica /\ answers[r] \in Seq({Good} \cup Deviation)
  BY DueReplicas DEF IInv, CommandTyped
<1>3. commands > 0 /\ commands \in Nat /\ round \in Round
  BY <1>1, AdapterAssumption DEF IInv, CommandTyped
<1>4. Kept /\ Full(path, verdict)' /\ DOMAIN files' = DOMAIN files \cup {path}
  BY <1>1, Archived
<1>5. Grows
  BY <1>1, <1>4 DEF Grows
<1>6. \A a \in gathered : Full(a[1], a[2])'
  <2>1. ASSUME NEW i \in DOMAIN answers[r], LeavesArtifact(Probes(r)[i].name, answers[r][i])
        PROVE  Full(Path(r, Probes(r)[i].name), answers[r][i])
    BY <2>1 DEF IInv, Answered
  <2>2. \A a \in gathered : a = <<path, verdict>> \/ Full(a[1], a[2])
    BY <1>0, <2>1 DEF Gathered
  <2> QED  BY <1>4, <2>2 DEF Kept
<1>7. Sound(e)'
  BY <1>1, <1>3, <1>6, <1>e, NewEvent DEF EventType
<1>8. ASSUME verdict = Good  PROVE Ready(r)'
  <2>1. \A i \in DOMAIN Probes(r) : answers[r][i] = Good
    BY <1>0, <1>1, <1>2, <1>8, GoodVerdict DEF IInv
  <2>2. DOMAIN answers[r] = DOMAIN Probes(r)
    <3>1. Len(answers[r]) = Len(Probes(r))
      BY <1>0, <1>1, <1>2, <1>8, GoodVerdict DEF IInv
    <3> QED  BY <1>2, <3>1, ProbeCount
  <2>3. ASSUME NEW i \in DOMAIN Probes(r), Probes(r)[i].name # "request"
        PROVE  <<Path(r, Probes(r)[i].name), Good>> \in gathered
    <3>1. LeavesArtifact(Probes(r)[i].name, answers[r][i])
      BY <2>1, <2>3 DEF LeavesArtifact, Good
    <3> QED  BY <1>0, <2>1, <2>2, <3>1 DEF Gathered
  <2>4. CleanPreflight(r, e) /\ e.command = commands /\ e.round = round
    BY <1>e, <2>3 DEF CleanPreflight, Event, Path
  <2>5. e \in log'
    BY <1>1
  <2> QED  BY <1>1, <1>5, <2>4, <2>5, CleanStays DEF Ready
<1>9. Due' = Due /\ Due \subseteq Replica
  BY <1>1, <1>2, DueReplicas DEF Due
<1>10. CommandTyped' /\ DiskTyped' /\ RecordsApart'
  <2>1. path[1] = r /\ path[2] = round
    BY <1>0 DEF Path
  <2>2. reported' \subseteq Due /\ ready' \subseteq reported'
    BY <1>1 DEF IInv, CommandTyped
  <2> QED  BY <1>1, <1>3, <1>4, <1>9, <2>1, <2>2 DEF IInv, CommandTyped, DiskTyped, RecordsApart
<1>11. Stages'
  BY <1>1 DEF IInv, Stages
<1>12. \A q \in Due : Answered(q)' /\ Thread(q)'
  BY <1>1, <1>5, Carried
<1>13. \A q \in ready' : Ready(q)'
  BY <1>1, <1>5, <1>8, Carried
<1>14. \A f \in log' : Sound(f)'
  BY <1>1, <1>5, <1>7, Carried
<1> QED  BY <1>1, <1>9, <1>10, <1>11, <1>12, <1>13, <1>14 DEF IInv

LEMMA DecideStep ==
  ASSUME IInv, NEW data, Decide(data)
  PROVE  IInv'
<1>e. PICK e : e = Event(None, "pause", None, {})
  OBVIOUS
<1>1. /\ stage = "preflight" /\ reported = Due
      /\ log' = log \/ log' = log \cup {e}
      /\ UNCHANGED <<adapter, commands, faults, outbox, files, records>>
  BY <1>e DEF Decide, AppendEvent
<1>2. commands > 0 /\ commands \in Nat
  BY <1>1, AdapterAssumption DEF IInv, CommandTyped
<1>3. Grows
  BY <1>1, Untouched DEF Grows
<1>4. Sound(e)'
  BY <1>1, <1>2, <1>e, NewEvent DEF EventType
<1>5. DiskTyped' /\ RecordsApart' /\ Due' = Due /\ faults' \in 0..MaxFaults
  BY <1>1 DEF IInv, CommandTyped, DiskTyped, RecordsApart, Due
<1>6. CASE Forget
  BY <1>1, <1>3, <1>4, <1>5, <1>6, Forgotten
<1>7. CASE ~Forget
  <2>1. /\ ready = Due /\ stage' = "barrier"
        /\ UNCHANGED <<kind, round, answers, reported, ready, run, resumed, seen>>
    BY <1>7 DEF Decide
  <2>2. CommandTyped'
    BY <1>1, <1>5, <2>1 DEF IInv, CommandTyped
  <2>3. Stages'
    BY <1>1, <1>5, <2>1 DEF IInv, Stages
  <2>4. \A q \in Due : Answered(q)' /\ Thread(q)'
    BY <1>1, <1>3, <2>1, Carried
  <2>5. (\A q \in ready' : Ready(q)') /\ \A f \in log' : Sound(f)'
    BY <1>1, <1>3, <1>4, <2>1, Carried
  <2> QED  BY <1>1, <1>5, <2>1, <2>2, <2>3, <2>4, <2>5 DEF IInv
<1> QED  BY <1>6, <1>7

-----------------------------------------------------------------------------
(* The steps of a thread *)

\* A step of a thread that keeps the command: what is left to show is about its
\* replica, the disk and the events it adds.
LEMMA ThreadStep ==
  ASSUME IInv, NEW r \in Due, Grows, run[r] # "none" \/ stage = "barrier",
         UNCHANGED <<commands, stage, kind, round, answers, reported, ready>>,
         faults' \in 0..MaxFaults,
         run' \in [Replica -> ThreadState], resumed' \in [Replica -> Session \cup {None}],
         seen' \in [Replica -> Seen],
         \A q \in Replica : q # r =>
           run'[q] = run[q] /\ resumed'[q] = resumed[q] /\ seen'[q] = seen[q],
         DiskTyped', RecordsApart', Thread(r)',
         \A e \in log' : e \in log \/ Sound(e)'
  PROVE  IInv'
<1>1. adapter \in Field /\ adapter' = adapter /\ Due' = Due /\ Due \subseteq Replica
  BY DueReplicas DEF IInv, CommandTyped, Grows, Due
<1>2. CommandTyped'
  BY <1>1 DEF IInv, CommandTyped
<1>3. stage = "barrier"
  BY <1>1 DEF IInv, Stages
<1>4. Stages'
  BY <1>1, <1>3 DEF IInv, Stages
<1>5. \A q \in Due : Answered(q)' /\ Thread(q)'
  BY <1>1, Carried
<1>6. (\A q \in ready' : Ready(q)') /\ \A e \in log' : Sound(e)'
  BY Carried
<1>7. \A q \in Replica \ Due : run'[q] = "none"
  BY DEF IInv
<1> QED  BY <1>1, <1>2, <1>4, <1>5, <1>6, <1>7 DEF IInv

LEMMA ReplicaTyped ==
  ASSUME IInv, NEW r \in Due
  PROVE  /\ r \in Replica /\ adapter[r] \in Adapter /\ adapter \in Field
         /\ run \in [Replica -> ThreadState] /\ resumed \in [Replica -> Session \cup {None}]
         /\ seen \in [Replica -> Seen] /\ records \in [Replica -> Session \cup {None, Torn}]
         /\ faults \in 0..MaxFaults /\ commands \in Nat
         /\ stage # "idle" => commands > 0 /\ round \in Round
BY DueReplicas, AdapterAssumption DEF IInv, CommandTyped, DiskTyped

LEMMA RaiseStep ==
  ASSUME IInv, NEW r \in Due, run[r] # "none" \/ stage = "barrier", Raise(r),
         faults' \in 0..MaxFaults, outbox' \subseteq Replica
  PROVE  IInv'
<1>1. /\ run' = [run EXCEPT ![r] = "raised"]
      /\ UNCHANGED <<adapter, commands, stage, kind, round, answers, reported, ready, resumed,
                     seen, files, log, records>>
  BY DEF Raise
<1>2. r \in Replica /\ run \in [Replica -> ThreadState]
  BY ReplicaTyped
<1>3. run'[r] = "raised" /\ \A q \in Replica : q # r => run'[q] = run[q]
  BY <1>1, <1>2
<1>4. Grows
  BY <1>1, Untouched DEF Grows
<1>5. Thread(r)'
  BY <1>1, <1>2, <1>3 DEF IInv, Thread, Collected
<1>6. DiskTyped' /\ RecordsApart'
  BY <1>1 DEF IInv, DiskTyped, RecordsApart, Due
<1>7. run' \in [Replica -> ThreadState]
  BY <1>1, <1>2 DEF ThreadState
<1>8. resumed' \in [Replica -> Session \cup {None}] /\ seen' \in [Replica -> Seen]
  BY <1>1, ReplicaTyped
<1> QED  BY <1>1, <1>3, <1>4, <1>5, <1>6, <1>7, <1>8, ThreadStep

LEMMA LaunchStep ==
  ASSUME IInv, NEW r \in Due, NEW given \in Session \cup {None}, Launch(r, given)
  PROVE  IInv'
<1>e. PICK e : e = Event(r, "replica_launched", given, {})
  OBVIOUS
<1>1. /\ stage = "barrier" /\ run[r] = "none" /\ r \in ready /\ records[r] = given
      /\ run' = [run EXCEPT ![r] = "running"]
      /\ resumed' = [resumed EXCEPT ![r] = given]
      /\ log' = log \cup {e}
      /\ UNCHANGED <<adapter, commands, faults, stage, kind, round, answers, reported, ready,
                     seen, outbox, files, records>>
  BY <1>e DEF Launch, Turn, MayLaunch, AppendEvent
<1>2. /\ r \in Replica /\ run \in [Replica -> ThreadState]
      /\ resumed \in [Replica -> Session \cup {None}] /\ seen \in [Replica -> Seen]
      /\ faults \in 0..MaxFaults /\ commands \in Nat /\ commands > 0
  BY <1>1, ReplicaTyped
<1>3. Grows
  BY <1>1, Untouched DEF Grows
<1>4. /\ run'[r] = "running" /\ resumed'[r] = given
      /\ \A q \in Replica : q # r => run'[q] = run[q] /\ resumed'[q] = resumed[q]
  BY <1>1, <1>2
<1>5. run' \in [Replica -> ThreadState] /\ resumed' \in [Replica -> Session \cup {None}]
  BY <1>1, <1>2 DEF ThreadState
<1>6. Thread(r)'
  BY <1>1, <1>4 DEF Thread, Collected
<1>7. DiskTyped' /\ RecordsApart' /\ Due' = Due
  BY <1>1 DEF IInv, DiskTyped, RecordsApart, Due
<1>8. Sound(e)'
  <2>1. ready = Due
    BY <1>1 DEF IInv, Stages
  <2>2. ASSUME NEW q \in Due'
        PROVE  \E f \in log' : CleanPreflight(q, f)' /\ f.command = e.command /\ f.round = e.round
    <3>1. Ready(q)
      BY <1>7, <2>1 DEF IInv
    <3>2. PICK f \in log : CleanPreflight(q, f) /\ f.command = commands /\ f.round = round
      BY <3>1 DEF Ready
    <3>3. CleanPreflight(q, f)' /\ f \in log'
      BY <1>1, <1>3, <3>2, CleanStays
    <3> QED  BY <1>e, <3>2, <3>3 DEF Event
  <2>3. /\ e.type = "replica_launched" /\ e.command \in 1..commands' /\ e.artifacts = {}
    BY <1>1, <1>2, <1>e DEF Event
  <2> QED  BY <2>2, <2>3 DEF Sound, EventType
<1>9. \A f \in log' : f \in log \/ Sound(f)'
  BY <1>1, <1>8
<1> QED  BY <1>1, <1>2, <1>3, <1>4, <1>5, <1>6, <1>7, <1>9, ThreadStep

LEMMA ExitStep ==
  ASSUME IInv, NEW r \in Due, NEW exit \in Exit, NEW writes \in BOOLEAN,
         NEW output \in Output[adapter[r]], AgentExits(r, output, exit, writes)
  PROVE  IInv'
<1>0. PICK path : path = Path(r, "run")
  OBVIOUS
<1>e. PICK e : e = Event(r, "decision_collected", writes, {})
  OBVIOUS
<1>1. /\ r \in Replica /\ adapter[r] \in Adapter /\ run \in [Replica -> ThreadState]
      /\ resumed \in [Replica -> Session \cup {None}] /\ seen \in [Replica -> Seen]
      /\ commands \in Nat
  BY ReplicaTyped
<1>2. run[r] = "running" /\ stage = "barrier"
  BY <1>1 DEF AgentExits, IInv, Stages
<1>3. commands > 0 /\ round \in Round
  BY <1>2, ReplicaTyped
<1>4. faults' \in 0..MaxFaults
  <2>1. Fault(BadRun(r, output, exit))
    BY DEF AgentExits
  <2> QED  BY <2>1, FaultsBounded
<1>5. outbox' \subseteq Replica
  BY <1>1 DEF AgentExits, IInv, DiskTyped
<1>6. CASE MayWrite(path, output)
  <2> DEFINE shown == [output |-> output, exit |-> exit, present |-> writes]
  <2>1. /\ WriteArtifact(path, output)
        /\ run' = [run EXCEPT ![r] = "collected"]
        /\ seen' = [seen EXCEPT ![r] = shown]
        /\ log' = log \cup {e}
        /\ UNCHANGED <<adapter, commands, stage, kind, round, answers, reported, ready,
                       resumed, records>>
    BY <1>0, <1>6, <1>e DEF AgentExits, AppendEvent
  <2>2. Kept /\ Full(path, output)' /\ DOMAIN files' = DOMAIN files \cup {path}
    BY <2>1, Archived
  <2>3. Grows
    BY <2>1, <2>2 DEF Grows
  <2>4. shown \in Seen
    <3>1. output \in Seq(Printed)
      BY <1>1, OutputPrinted
    <3> QED  BY <3>1 DEF Seen
  <2>5. run' \in [Replica -> ThreadState] /\ seen' \in [Replica -> Seen]
    BY <1>1, <2>1, <2>4 DEF ThreadState
  <2>6. /\ run'[r] = "collected" /\ seen'[r] = shown
        /\ \A q \in Replica : q # r => run'[q] = run[q] /\ seen'[q] = seen[q]
    BY <1>1, <2>1
  <2>7. /\ seen'[r].output = output /\ seen'[r].exit = exit /\ seen'[r].present = writes
    BY <2>6
  <2>8. path = Path(r, "run")'
    BY <1>0, <2>1 DEF Path
  <2>9. e \in log' /\ e.type = "decision_collected" /\ e.about = writes /\ e.replica = r
        /\ e.command = commands'
    BY <1>e, <2>1 DEF Event
  <2>10. Thread(r)'
    <3>1. resumed'[r] # None => records'[r] = resumed'[r]
      BY <2>1 DEF IInv, Thread
    <3>2. seen'[r].output \in Output[adapter'[r]]
      BY <2>1, <2>7
    <3>3. Full(Path(r, "run"), seen[r].output)'
      BY <2>2, <2>7, <2>8 DEF Full
    <3>4. run'[r] \notin {"settled", "terminated"}
      BY <2>6
    <3> QED  BY <2>7, <2>9, <3>1, <3>2, <3>3, <3>4 DEF Thread
  <2>11. DiskTyped' /\ RecordsApart'
    <3>1. path[1] = r /\ path[2] = round
      BY <1>0 DEF Path
    <3> QED  BY <1>3, <1>5, <2>1, <2>2, <3>1 DEF IInv, DiskTyped, RecordsApart, Due
  <2>12. \A f \in log' : f \in log \/ Sound(f)'
    BY <1>1, <1>3, <1>e, <2>1, NewEvent DEF EventType
  <2> HIDE DEF shown
  <2> QED  BY <1>1, <1>2, <1>4, <2>1, <2>3, <2>5, <2>6, <2>10, <2>11, <2>12, ThreadStep
<1>7. CASE ~MayWrite(path, output)
  BY <1>0, <1>2, <1>4, <1>5, <1>7, RaiseStep DEF AgentExits
<1> QED  BY <1>6, <1>7

LEMMA SettleStep ==
  ASSUME IInv, NEW r \in Due, Settle(r)
  PROVE  IInv'
<1>1. /\ r \in Replica /\ run \in [Replica -> ThreadState]
      /\ resumed \in [Replica -> Session \cup {None}] /\ seen \in [Replica -> Seen]
      /\ records \in [Replica -> Session \cup {None, Torn}] /\ faults \in 0..MaxFaults
  BY ReplicaTyped
<1>2. run[r] = "collected" /\ Thread(r) /\ UNCHANGED <<faults, outbox>>
  BY DEF Settle, IInv
<1>3. outbox' \subseteq Replica
  BY <1>2 DEF IInv, DiskTyped
<1>4. CASE MaySettle(r)
  <2>1. /\ run' = [run EXCEPT ![r] = "settled"]
        /\ records' = IF Saves(r) THEN [records EXCEPT ![r] = Observed(r)] ELSE records
        /\ UNCHANGED <<adapter, commands, stage, kind, round, answers, reported, ready,
                       resumed, seen, files, log>>
    BY <1>4 DEF Settle
  <2>2. Observed(r) \in Session \cup {None} /\ Observed(r) # Unusable
    BY <1>1, <1>4, ReadSession DEF MaySettle
  <2>3. Saves(r) => /\ resumed[r] = None /\ Observed(r) \in Session /\ records'[r] = Observed(r)
                    /\ records[r] \in {None, Observed(r)}
                    /\ \A q \in Peers(r) : q # r => records[q] # Observed(r)
                    /\ \A q \in Replica : q # r => records'[q] = records[q]
    BY <1>1, <1>4, <2>1, <2>2 DEF MaySettle, MaySave, Saves
  <2>4. ~Saves(r) => records' = records
    BY <2>1
  <2>5. None \notin Session /\ Torn \notin Session
    BY AdapterAssumption
  <2>6. \A q \in Replica : records[q] \in Session => records'[q] = records[q]
    BY <2>3, <2>4, <2>5
  <2>7. Grows
    BY <2>1, <2>6, Untouched DEF Grows
  <2>8. /\ run'[r] = "settled" /\ run' \in [Replica -> ThreadState]
        /\ \A q \in Replica : q # r => run'[q] = run[q]
    BY <1>1, <2>1 DEF ThreadState
  <2>9. RecordsApart'
    <3> SUFFICES ASSUME NEW p \in Due, NEW q \in Due, q # p, adapter[q] = adapter[p],
                        records'[q] \in Session
                 PROVE  records'[q] # records'[p]
      BY <2>1 DEF RecordsApart, Due
    <3>1. p \in Replica /\ q \in Replica
      BY ReplicaTyped
    <3>2. CASE ~Saves(r)
      BY <2>4, <3>2 DEF IInv, RecordsApart
    <3>3. CASE Saves(r) /\ q = r
      BY <2>3, <3>1, <3>3 DEF Peers
    <3>4. CASE Saves(r) /\ p = r
      BY <2>3, <3>1, <3>4 DEF Peers
    <3>5. CASE Saves(r) /\ p # r /\ q # r
      BY <2>3, <3>1, <3>5 DEF IInv, RecordsApart
    <3> QED  BY <3>2, <3>3, <3>4, <3>5
  <2>10. DiskTyped'
    <3>1. records' \in [Replica -> Session \cup {None, Torn}]
      BY <1>1, <2>1, <2>2
    <3> QED  BY <1>2, <2>1, <3>1 DEF IInv, DiskTyped, Due
  <2>11. Conversed(r)'
    <3>1. Observed(r)' = Observed(r) /\ OutcomeOf(r)' = OutcomeOf(r)
          /\ ResultSession(r)' = ResultSession(r)
      BY <2>1 DEF Observed, OutcomeOf, ResultSession
    <3>2. ResultSession(r) # None => records'[r] = ResultSession(r)
      <4>1. CASE resumed[r] # None
        BY <1>2, <2>4, <4>1 DEF ResultSession, Thread, Saves
      <4>2. CASE resumed[r] = None
        BY <2>3, <4>2 DEF ResultSession, Saves
      <4> QED  BY <4>1, <4>2
    <3>3. Observed(r) = None => OutcomeOf(r) # "completed"
      BY <1>4 DEF MaySettle
    <3>4. Observed(r) # None /\ resumed[r] # None => Observed(r) = resumed[r]
      BY <1>4 DEF MaySettle
    <3> QED  BY <2>1, <2>2, <3>1, <3>2, <3>3, <3>4 DEF Conversed
  <2>12. Thread(r)'
    <3>1. resumed'[r] # None => records'[r] = resumed'[r]
      BY <1>2, <2>1, <2>4 DEF Thread, Saves
    <3>2. Path(r, "run")' = Path(r, "run")
      BY <2>1 DEF Path
    <3>3. Full(Path(r, "run"), seen[r].output)'
      BY <1>2, <2>1, <3>2 DEF Thread, Collected, Full
    <3> QED  BY <1>2, <2>1, <2>8, <2>11, <3>1, <3>3 DEF Thread, Collected
  <2>13. log' = log /\ resumed' = resumed /\ seen' = seen /\ faults' = faults
    BY <1>2, <2>1
  <2> QED  BY <1>1, <1>2, <2>1, <2>7, <2>8, <2>9, <2>10, <2>12, <2>13, ThreadStep
<1>5. CASE ~MaySettle(r)
  BY <1>1, <1>2, <1>3, <1>5, RaiseStep DEF Settle
<1> QED  BY <1>4, <1>5

\* A step that reports: it changes the state of the thread and the log alone.
LEMMA ReportingStep ==
  ASSUME IInv, NEW r \in Due, run[r] \in {"settled", "terminated"},
         NEW next \in {"terminated", "done"}, run' = [run EXCEPT ![r] = next],
         NEW e, log' = log \cup {e}, Sound(e)',
         UNCHANGED <<adapter, commands, faults, stage, kind, round, answers, reported, ready,
                     resumed, seen, outbox, files, records>>
  PROVE  IInv'
<1>1. /\ r \in Replica /\ run \in [Replica -> ThreadState] /\ faults \in 0..MaxFaults
      /\ resumed' \in [Replica -> Session \cup {None}] /\ seen' \in [Replica -> Seen]
  BY ReplicaTyped
<1>2. /\ run'[r] = next /\ run' \in [Replica -> ThreadState]
      /\ \A q \in Replica : q # r => run'[q] = run[q]
  BY <1>1 DEF ThreadState
<1>3. Grows
  BY Untouched DEF Grows
<1>4. DiskTyped' /\ RecordsApart'
  BY DEF IInv, DiskTyped, RecordsApart, Due
<1>5. Thread(r)'
  <2>1. Thread(r)
    BY DEF IInv
  <2>2. Conversed(r)'
    <3>1. Observed(r)' = Observed(r) /\ OutcomeOf(r)' = OutcomeOf(r)
          /\ ResultSession(r)' = ResultSession(r)
      BY DEF Observed, OutcomeOf, ResultSession
    <3> QED  BY <2>1, <3>1 DEF Thread, Conversed
  <2>3. Full(Path(r, "run"), seen[r].output)'
    BY <2>1 DEF Thread, Collected, Full, Path
  <2> QED  BY <2>1, <2>2, <2>3 DEF Thread, Collected
<1>6. \A f \in log' : f \in log \/ Sound(f)'
  OBVIOUS
<1> QED  BY <1>1, <1>2, <1>3, <1>4, <1>5, <1>6, ThreadStep

LEMMA TerminateStep ==
  ASSUME IInv, NEW r \in Due, Terminate(r)
  PROVE  IInv'
<1>e. PICK e : e = Event(r, "replica_terminated", None, {})
  OBVIOUS
<1>1. /\ run[r] = "settled" /\ run' = [run EXCEPT ![r] = "terminated"] /\ log' = log \cup {e}
      /\ UNCHANGED <<adapter, commands, faults, stage, kind, round, answers, reported, ready,
                     resumed, seen, outbox, files, records>>
  BY <1>e DEF Terminate, AppendEvent
<1>2. stage = "barrier"
  BY <1>1, ReplicaTyped DEF IInv, Stages
<1>3. commands > 0 /\ commands \in Nat
  BY <1>2, ReplicaTyped
<1>4. Sound(e)'
  BY <1>1, <1>3, <1>e, NewEvent DEF EventType
<1> QED  BY <1>1, <1>4, ReportingStep

LEMMA ReportStep ==
  ASSUME IInv, NEW r \in Due, Report(r)
  PROVE  IInv'
<1>0. PICK path, output, present :
        path = Path(r, "run") /\ output = seen[r].output /\ present = seen[r].present
  OBVIOUS
<1>e. PICK e : e = Event(r, "replica_completed",
                         [outcome |-> OutcomeOf(r), exit |-> seen[r].exit,
                          session |-> ResultSession(r)], {<<path, output>>})
  OBVIOUS
<1>1. /\ run[r] \in {"settled", "terminated"}
      /\ run' = [run EXCEPT ![r] = "done"] /\ log' = log \cup {e}
      /\ UNCHANGED <<adapter, commands, faults, stage, kind, round, answers, reported, ready,
                     resumed, seen, outbox, files, records>>
  BY <1>0, <1>e DEF Report, AppendEvent
<1>2. /\ r \in Replica /\ adapter[r] \in Adapter /\ seen[r] \in Seen
      /\ resumed[r] \in Session \cup {None} /\ stage = "barrier"
  BY <1>1, ReplicaTyped DEF IInv, Stages
<1>3. commands > 0 /\ commands \in Nat /\ round \in Round
  BY <1>2, ReplicaTyped
<1>4. /\ e.replica = r /\ e.type = "replica_completed" /\ e.round = round
      /\ e.command = commands /\ e.artifacts = {<<path, output>>}
      /\ e.about.outcome = OutcomeOf(r) /\ e.about.exit = seen[r].exit
      /\ e.about.session = ResultSession(r)
  BY <1>e DEF Event
<1>5. Thread(r) /\ Conversed(r) /\ Full(path, output)
  BY <1>0, <1>1 DEF IInv, Thread, Collected
<1>6. output \in Output[adapter[r]]
  BY <1>0, <1>1, <1>5 DEF Thread, Collected
<1>7. /\ output \in Seq(Printed) /\ present \in BOOLEAN /\ seen[r].exit \in Exit
  BY <1>0, <1>2 DEF Seen
<1>8. /\ OutcomeOf(r) = OutcomeIn(adapter[r], output, seen[r].exit, present)
      /\ Observed(r) = SessionIn(adapter[r], output)
  BY <1>0 DEF OutcomeOf, Observed
<1>9. /\ ResultSession(r) \in Session \cup {None}
      /\ ResultSession(r) # None => records[r] = ResultSession(r)
  BY <1>2, <1>5, ReadSession DEF ResultSession, Conversed
<1>10. ASSUME OutcomeOf(r) = "completed"
       PROVE  /\ AnswerIn(adapter[r], ResultSession(r), output)
              /\ \E c \in log : /\ c.type = "decision_collected" /\ c.about
                                /\ c.replica = r /\ c.command = commands
  <2>1. PICK a, s : a = adapter[r] /\ s = Observed(r)
    OBVIOUS
  <2>2. s \in Session /\ s = ResultSession(r)
    BY <1>2, <1>5, <1>10, <2>1, ReadSession DEF ResultSession, Conversed
  <2>3. /\ a \in Adapter /\ OutcomeIn(a, output, seen[r].exit, present) = "completed"
        /\ SessionIn(a, output) = s
    BY <1>2, <1>8, <1>10, <2>1
  <2>4. /\ present
        /\ a = "codex" => /\ CodexEvents(output) # None
                          /\ CodexCodes(output) = {} /\ CodexSucceeded(output)
        /\ a = "grok_build" => /\ GrokEvents(output) # None
                               /\ GrokSucceeded(GrokEvents(output))
    BY <1>7, <2>3, OutcomeOfOutput
  <2>5. AnswerIn(a, s, output)
    BY <1>7, <2>2, <2>3, <2>4, CodexAnswers, GrokAnswers DEF Adapter
  <2> QED  BY <1>0, <1>1, <1>5, <2>1, <2>2, <2>4, <2>5 DEF Thread, Collected
<1>11. Explained(e)'
  <2>1. adapter' = adapter /\ Due' = Due /\ records' = records /\ log \subseteq log'
    BY <1>1 DEF Due
  <2>2. <<<<e.replica, e.round, "run">>, output>> \in e.artifacts
    BY <1>0, <1>4 DEF Path
  <2> QED  BY <1>3, <1>4, <1>6, <1>7, <1>8, <1>9, <1>10, <2>1, <2>2 DEF Explained
<1>12. Sound(e)'
  <2>1. \A a \in e.artifacts : Full(a[1], a[2])'
    BY <1>1, <1>4, <1>5 DEF Full
  <2> QED  BY <1>1, <1>3, <1>4, <1>11, <2>1 DEF Sound, EventType
<1> QED  BY <1>1, <1>12, ReportingStep

-----------------------------------------------------------------------------
(* Crashes *)

\* A command killed while it writes an artifact.
LEMMA TornArtifact ==
  ASSUME IInv, NEW r \in Due, stage # "idle", Forget, faults' \in 0..MaxFaults,
         UNCHANGED <<adapter, commands, outbox, log, records>>,
         NEW name, NEW bytes, bytes # None, NEW left \in Leftovers(Path(r, name), bytes),
         Store(Path(r, name), left)
  PROVE  IInv'
<1>0. PICK path : path = Path(r, name)
  OBVIOUS
<1>1. Kept /\ DOMAIN files' = DOMAIN files \cup {path}
  BY <1>0, TornKept
<1>2. Grows
  BY <1>1 DEF Grows
<1>3. DiskTyped' /\ RecordsApart'
  <2>1. path[1] = r /\ path[2] = round /\ round \in Round
    BY <1>0, ReplicaTyped DEF Path
  <2> QED  BY <1>1, <2>1 DEF IInv, DiskTyped, RecordsApart, Due
<1> QED  BY <1>2, <1>3, Forgotten

LEMMA VerdictGiven ==
  ASSUME IInv, NEW r \in Due
  PROVE  Verdict(r) # None
<1> DEFINE n == Len(answers[r])
<1>1. answers[r] \in Seq({Good} \cup Deviation) /\ Answered(r)
  BY ReplicaTyped DEF IInv, CommandTyped
<1>2. CASE n = 0 \/ answers[r][n] = Good
  BY <1>2, OutputAssumption DEF Verdict
<1>3. CASE n # 0 /\ answers[r][n] # Good
  <2>1. n \in DOMAIN answers[r] /\ n \in DOMAIN Probes(r)
        /\ Probes(r) \in {CodexProbes, GrokProbes}
    BY <1>1, <1>3, ProbeCount DEF Answered
  <2>2. answers[r][n] \in DOMAIN Probes(r)[n].checks
    BY <1>1, <1>3, <2>1 DEF Answered
  <2> QED  BY <1>3, <2>1, <2>2, OutputAssumption DEF Verdict
<1> QED  BY <1>2, <1>3

LEMMA CrashStep ==
  ASSUME IInv, Crash
  PROVE  IInv'
<1>1. /\ stage # "idle" /\ Forget /\ UNCHANGED <<adapter, commands, outbox, log>>
      /\ faults' \in 0..MaxFaults
  BY FaultsBounded DEF Crash
<1>2. CASE UNCHANGED <<files, records>>
  BY <1>1, <1>2, EndsStep DEF disk
<1>3. ASSUME NEW r \in Due, TornProbe(r)  PROVE IInv'
  <2>1. Good # None
    BY OutputAssumption
  <2> QED  BY <1>1, <1>3, <2>1, TornArtifact DEF TornProbe
<1>4. ASSUME NEW r \in Due, TornSummary(r)  PROVE IInv'
  BY <1>1, <1>4, VerdictGiven, TornArtifact DEF TornSummary
<1>5. ASSUME NEW r \in Due, TornRecord(r)  PROVE IInv'
  <2>1. /\ r \in Replica /\ records \in [Replica -> Session \cup {None, Torn}]
        /\ None \notin Session /\ Torn \notin Session
    BY ReplicaTyped, AdapterAssumption
  <2>2. /\ records' = [records EXCEPT ![r] = Torn] /\ records[r] = None /\ files' = files
    BY <1>5 DEF TornRecord
  <2>3. \A q \in Replica : records[q] \in Session => records'[q] = records[q]
    BY <2>1, <2>2
  <2>4. \A q \in Replica : records'[q] \in Session => records'[q] = records[q]
    BY <2>1, <2>2
  <2>5. Grows
    BY <1>1, <2>2, <2>3, Untouched DEF Grows
  <2>6. RecordsApart'
    BY <1>1, <2>2, <2>4, <2>1, ReplicaTyped DEF IInv, RecordsApart, Due
  <2>7. DiskTyped'
    BY <1>1, <2>1, <2>2 DEF IInv, DiskTyped, Due
  <2> QED  BY <1>1, <2>5, <2>6, <2>7, Forgotten
<1>6. ASSUME NEW r \in Due, NEW output \in Output[adapter[r]], TornOutput(r, output)
      PROVE  IInv'
  <2>1. /\ \E left \in Leftovers(Path(r, "run"), output) : Store(Path(r, "run"), left)
        /\ UNCHANGED records
    BY <1>6 DEF TornOutput
  <2>2. adapter[r] \in Adapter
    BY ReplicaTyped
  <2>3. output # None
    BY <2>2, OutputPrinted
  <2> QED  BY <1>1, <2>1, <2>3, TornArtifact
<1> QED  BY <1>1, <1>2, <1>3, <1>4, <1>5, <1>6 DEF Crash

\* What the output a result names says of it.
LEMMA ExplainedResult ==
  ASSUME adapter \in Field, NEW e, e.type = "replica_completed", Sound(e)
  PROVE  /\ e.about.outcome \in RunnerOutcomes
         /\ (\E i \in DOMAIN ArchivedOutput(e), c \in SharedVoidOutcomes :
               Reports(adapter[e.replica], ArchivedOutput(e)[i], c)) =>
              e.about.outcome \in SharedVoidOutcomes \cup {"runner_error"}
         /\ e.about.outcome = "completed" =>
              /\ e.about.exit = "zero"
              /\ AnswerIn(adapter[e.replica], e.about.session, ArchivedOutput(e))
              /\ \E c \in log : /\ c.type = "decision_collected" /\ c.about
                                /\ c.replica = e.replica /\ c.command = e.command
<1>1. Explained(e)
  BY DEF Sound
<1>2. PICK present, output :
        /\ present \in BOOLEAN /\ output \in Output[adapter[e.replica]]
        /\ <<<<e.replica, e.round, "run">>, output>> \in e.artifacts
        /\ e.about.outcome = OutcomeIn(adapter[e.replica], output, e.about.exit, present)
        /\ e.about.outcome = "completed" =>
             /\ AnswerIn(adapter[e.replica], e.about.session, output)
             /\ \E c \in log : /\ c.type = "decision_collected" /\ c.about
                               /\ c.replica = e.replica /\ c.command = e.command
  BY <1>1 DEF Explained
<1>3. ArchivedOutput(e) = output
  <2>1. PICK path : path = <<e.replica, e.round, "run">>
    OBVIOUS
  <2>2. \A a \in e.artifacts : Full(a[1], a[2])
    BY DEF Sound
  <2>3. Full(path, output)
    BY <1>2, <2>1, <2>2
  <2> QED  BY <2>1, <2>3 DEF Full, ArchivedOutput
<1>4. PICK a, exit : a = adapter[e.replica] /\ exit = e.about.exit
  OBVIOUS
<1>5. a \in Adapter /\ output \in Output[a]
  BY <1>1, <1>2, <1>4, DueReplicas DEF Explained
<1>6. exit \in Exit
  BY <1>1, <1>4 DEF Explained
<1>7. /\ OutcomeIn(a, output, exit, present) \in RunnerOutcomes
      /\ (\E i \in DOMAIN output, c \in SharedVoidOutcomes : Reports(a, output[i], c)) =>
           OutcomeIn(a, output, exit, present) \in SharedVoidOutcomes \cup {"runner_error"}
      /\ OutcomeIn(a, output, exit, present) = "completed" => exit = "zero"
  <2>1. present \in BOOLEAN /\ output \in Seq(Printed)
    BY <1>2, <1>5, OutputPrinted
  <2> QED  BY <1>5, <1>6, <2>1, OutcomeOfOutput
<1> QED  BY <1>2, <1>3, <1>4, <1>7

-----------------------------------------------------------------------------
(* The invariant *)

LEMMA PreflightStep ==
  ASSUME IInv, NEW r \in Due, CodexPreflight(r) \/ GrokPreflight(r)
  PROVE  IInv'
<1>1. \/ \E answer \in {Good} \cup Deviation : Probe(r, answer) \/ ProbeRaises(r, answer)
      \/ Finish(r) \/ FinishRaises(r)
  BY DEF CodexPreflight, GrokPreflight
<1>2. ASSUME NEW answer \in {Good} \cup Deviation, ProbeRaises(r, answer)  PROVE IInv'
  <2>1. Fault(answer # Good) /\ Forget /\ UNCHANGED <<adapter, commands, disk>>
    BY <1>2 DEF ProbeRaises
  <2> QED  BY <2>1, FaultsBounded, EndsStep
<1>3. CASE FinishRaises(r)
  BY <1>3, ReplicaTyped, EndsStep DEF FinishRaises
<1> QED  BY <1>1, <1>2, <1>3, ProbeStep, FinishStep

LEMMA RunStep ==
  ASSUME IInv, NEW r \in Due, RunThread(r)
  PROVE  IInv'
<1>1. faults \in 0..MaxFaults /\ outbox \subseteq Replica
  BY ReplicaTyped DEF IInv, DiskTyped
<1>2. CASE \E given \in Session \cup {None} : Launch(r, given)
  BY <1>2, LaunchStep
<1>3. CASE \E given \in Session \cup {None} : LaunchRaises(r, given)
  BY <1>1, <1>3, RaiseStep DEF LaunchRaises, Turn
<1>4. CASE \E output \in Output[adapter[r]], exit \in Exit, writes \in BOOLEAN :
             AgentExits(r, output, exit, writes)
  BY <1>4, ExitStep
<1>5. CASE AgentLost(r)
  <2>1. run[r] = "running" /\ Fault(TRUE) /\ Raise(r) /\ UNCHANGED outbox
    BY <1>5 DEF AgentLost
  <2> QED  BY <1>1, <2>1, FaultsBounded, RaiseStep
<1> QED  BY <1>2, <1>3, <1>4, <1>5, SettleStep, TerminateStep, ReportStep DEF RunThread

LEMMA NextStep ==
  ASSUME IInv, [Next]_vars
  PROVE  IInv'
<1>1. CASE UNCHANGED vars
  <2>1. UNCHANGED <<adapter, commands, faults, stage, kind, round, answers, reported, ready,
                    run, resumed, seen, outbox, files, log, records>>
    BY <1>1 DEF vars, memory, disk
  <2>2. Grows
    BY <2>1, Untouched DEF Grows
  <2> QED  BY <2>1, <2>2, Carried
              DEF IInv, CommandTyped, DiskTyped, Stages, RecordsApart, Due
<1>2. ASSUME NEW k \in Kind, NEW n \in Round, NEW cleared \in {{}, Replica}, Start(k, n, cleared)
      PROVE  IInv'
  BY <1>2, StartStep
<1>3. ASSUME NEW r \in Due,
             CodexPreflight(r) \/ GrokPreflight(r) \/ CodexRun(r) \/ GrokRun(r)
      PROVE  IInv'
  BY <1>3, PreflightStep, RunStep DEF CodexRun, GrokRun
<1>4. ASSUME NEW data \in DataStatus, Decide(data)  PROVE IInv'
  BY <1>4, DecideStep
<1>5. CASE CloseBarrier
  <2>1. faults' \in 0..MaxFaults
    BY <1>5 DEF CloseBarrier, IInv, CommandTyped
  <2> QED  BY <1>5, <2>1, EndsStep DEF CloseBarrier
<1> QED  BY <1>1, <1>2, <1>3, <1>4, <1>5, CrashStep DEF Next

\* The evidence is consistent in every reachable state.
THEOREM Invariance == Spec => []IInv
<1>1. Init => IInv
  BY InitHolds
<1>2. IInv /\ [Next]_vars => IInv'
  BY NextStep
<1> QED  BY <1>1, <1>2, PTL DEF Spec

-----------------------------------------------------------------------------
(* The properties *)

\* Every variable keeps its type: the commands and faults stay within their
\* bounds, a preflight asks no more probes than there are, and a result has one
\* of the outcomes of the contract.  (models.py: RunnerOutcome.)
THEOREM TypeCorrect == Spec => []TypeOK
<1>1. ASSUME IInv  PROVE TypeOK
  <2>1. \A r \in Due : Len(answers[r]) <= Len(Probes(r))
    BY <1>1 DEF IInv, Answered
  <2>2. ASSUME NEW e \in log
        PROVE  /\ e.type \in EventType /\ e.command \in 1..MaxCommands
               /\ e.type = "replica_completed" => e.about.outcome \in RunnerOutcomes
    <3>1. Sound(e) /\ commands \in 0..MaxCommands /\ adapter \in Field
      BY <1>1 DEF IInv, CommandTyped
    <3>2. e.command \in 1..MaxCommands
      BY <3>1, AdapterAssumption DEF Sound
    <3>3. ASSUME e.type = "replica_completed"  PROVE e.about.outcome \in RunnerOutcomes
      BY <3>1, <3>3, ExplainedResult
    <3> QED  BY <3>1, <3>2, <3>3 DEF Sound
  <2> QED  BY <1>1, <2>1, <2>2 DEF IInv, CommandTyped, DiskTyped, TypeOK, ThreadState
<1> QED  BY <1>1, Invariance, PTL

\* What an event of the log names is in the archive for ever, as it was when the
\* event was written, after any reruns of the round and crashes.
\* (_write_immutable, _verify_artifact.)
THEOREM EvidenceStays == Spec => []EvidenceIntact
<1>1. ASSUME IInv  PROVE EvidenceIntact
  BY <1>1 DEF IInv, Sound, Full, EvidenceIntact
<1> QED  BY <1>1, Invariance, PTL

\* An agent is launched only by a command that found the whole field ready, on
\* archived answers that agree with the registration.  (preflight_round, run.)
THEOREM LaunchesOnEvidence == Spec => []LaunchedOnEvidence
<1>1. ASSUME IInv  PROVE LaunchedOnEvidence
  BY <1>1 DEF IInv, Sound, LaunchedOnEvidence
<1> QED  BY <1>1, Invariance, PTL

\* The conversation a result names is the one the store holds for its replica,
\* for ever.  (SessionStore.save and load.)
THEOREM ConversationsKept == Spec => []ConversationKept
<1>1. ASSUME IInv  PROVE ConversationKept
  BY <1>1 DEF IInv, Sound, Explained, ConversationKept, Results
<1> QED  BY <1>1, Invariance, PTL

\* Two replicas of one product never report results in one conversation,
\* whatever the order of their threads and whatever is torn.  (SessionStore.save
\* scans every record under its lock.)
THEOREM ConversationsDiffer == Spec => []ConversationsApart
<1>1. ASSUME IInv  PROVE ConversationsApart
  <2>1. \A e \in Results : Explained(e)
    BY <1>1 DEF IInv, Sound, Results
  <2> QED  BY <1>1, <2>1 DEF IInv, RecordsApart, Explained, ConversationsApart
<1> QED  BY <1>1, Invariance, PTL

\* A quota or provider failure that a client printed is never taken for a hold,
\* a refusal or a decision of one replica, whatever else the client printed and
\* however it ended: the round is not evaluated.
\* (_classify_codex_outcome, _classify_grok_build_outcome, disposition.py.)
THEOREM SharedFailuresVoid == Spec => []SharedFailureVoids
<1>1. ASSUME IInv  PROVE SharedFailureVoids
  <2> SUFFICES ASSUME NEW e \in Results,
                      \E i \in DOMAIN ArchivedOutput(e), c \in SharedVoidOutcomes :
                        Reports(adapter[e.replica], ArchivedOutput(e)[i], c)
               PROVE  RoundTreatment([r \in {e.replica} |-> e.about.outcome], Available)
                        # "evaluate"
    BY DEF SharedFailureVoids
  <2>1. e.about.outcome \in SharedVoidOutcomes \cup {"runner_error"}
    BY <1>1, ExplainedResult DEF IInv, CommandTyped, Sound, Results
  <2>2. {[r \in {e.replica} |-> e.about.outcome][q] :
           q \in DOMAIN [r \in {e.replica} |-> e.about.outcome]} = {e.about.outcome}
    OBVIOUS
  <2> QED  BY <2>1, <2>2 DEF RoundTreatment, Available, Unavailable, SharedVoidOutcomes
<1> QED  BY <1>1, Invariance, PTL

\* An outcome is completed only on evidence, whatever clients print and however
\* they end: the archive holds, for ever, an answer that can be read to its end,
\* without failure or refusal, in the one conversation it names and the result
\* names, of a client that ended by itself; and the same command has collected
\* a decision.  (_classify_codex_outcome, _successful_end, run.)
THEOREM CompletionsOnEvidence == Spec => []CompletedOnEvidence
<1>1. ASSUME IInv  PROVE CompletedOnEvidence
  BY <1>1, ExplainedResult DEF IInv, CommandTyped, Sound, Results, CompletedOnEvidence
<1> QED  BY <1>1, Invariance, PTL
=============================================================================
