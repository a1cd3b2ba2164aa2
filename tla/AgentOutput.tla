---------------------------- MODULE AgentOutput ----------------------------
(***************************************************************************)
(* What the adapters read in the stdout of an agent's command line client: *)
(* the stream parsers, the classification into one runner outcome and the  *)
(* session reference of src/arena_runtime/adapters/codex.py and            *)
(* grok_build.py.                                                          *)
(*                                                                         *)
(* A line is a record.  type is "garbled" for a line that is no JSON       *)
(* object (half a line, for one) and "untyped" for an object without type; *)
(* codes holds the class of every error code the object carries, "other"   *)
(* for an undocumented one.  reason is "refusal" for a Codex item that was *)
(* declined or refused; for Grok Build it is the stop reason: "end_turn",  *)
(* the class of any other one, "blank" for one that holds no letter or is  *)
(* no text at all.  session is the conversation the line names.            *)
(***************************************************************************)
EXTENDS Naturals, Sequences, FiniteSets

CONSTANTS
  None,      \* absent
  Unusable   \* several references, or one that is no reference

Line(type, codes, reason, session) ==
  [type |-> type, codes |-> codes, reason |-> reason, session |-> session]

Types(events) == {events[i].type : i \in DOMAIN events}

\* The classes of documented error codes, named after the outcome they mean.
CodexClasses == {"quota_exhausted", "provider_unavailable", "refusal"}
GrokClasses  == {"quota_exhausted", "provider_unavailable", "refusal"}

-----------------------------------------------------------------------------
(* Codex *)

\* One line that is no typed object makes the whole stream unreadable.
CodexEvents(output) ==
  IF Types(output) \cap {"garbled", "untyped"} # {} THEN None ELSE output

CodexCodes(events) ==
  (UNION {events[i].codes : i \in {j \in DOMAIN events :
                                     events[j].type \in {"error", "turn.failed"}}})
    \cup {"refusal" : i \in {j \in DOMAIN events :
                               /\ events[j].type = "item.completed"
                               /\ events[j].reason = "refusal"}}

\* Defective variant, to see that a property notices: a turn that never came
\* to its end counts as long as no failure is reported.
CodexSucceeded_Unended(events) == Types(events) \cap {"error", "turn.failed"} = {}

CodexSucceeded(events) ==
  /\ "turn.completed" \in Types(events)
  /\ Types(events) \cap {"error", "turn.failed"} = {}

CodexSession(events) ==
  LET started == {i \in DOMAIN events : events[i].type = "thread.started"}
  IN IF started = {} THEN None
     ELSE IF Cardinality(started) = 1 /\ \A i \in started : events[i].session # None
          THEN events[CHOOSE i \in started : TRUE].session
          ELSE Unusable

-----------------------------------------------------------------------------
(* Grok Build *)

\* An object without type that names a stop reason or a session is an end.
GrokReads(line) ==
  IF line.type = "untyped" /\ (line.reason # None \/ line.session # None)
  THEN [line EXCEPT !.type = "end"] ELSE line

GrokEvents(output) ==
  LET read == [i \in DOMAIN output |-> GrokReads(output[i])]
  IN IF Types(read) \cap {"garbled", "untyped"} # {} THEN None ELSE read

Ends(events) == {i \in DOMAIN events : events[i].type = "end"}

\* A stop reason other than end_turn is an error code like any other, unless
\* nothing is left of it when it is normalised.
GrokCodes(events) ==
  (UNION {events[i].codes : i \in {j \in DOMAIN events : events[j].type = "error"}})
    \cup ({events[i].reason : i \in Ends(events)} \ {None, "end_turn", "blank"})

GrokSucceeded(events) ==
  /\ Ends(events) # {}
  /\ "error" \notin Types(events)
  /\ \A i \in Ends(events) : events[i].reason \in {None, "end_turn"}

GrokSession(events) ==
  LET named == {i \in Ends(events) : events[i].session # None}
  IN IF named = {} THEN IF Len(events) = 1 THEN events[1].session ELSE None
     ELSE IF Cardinality(named) = 1 THEN events[CHOOSE i \in named : TRUE].session
     ELSE Unusable

-----------------------------------------------------------------------------
(* The outcome *)

\* Defective variants.  An undocumented code is reported as the outcome; and the
\* deadline is looked at before the codes.
Outcome_NamesCode(classes, codes, succeeded, exit, present) ==
  CASE codes # {} -> IF Cardinality(codes) = 1 THEN CHOOSE c \in codes : TRUE ELSE "runner_error"
    [] codes = {} /\ exit = "deadline" -> "timeout"
    [] codes = {} /\ exit = "zero" /\ succeeded ->
         IF present THEN "completed" ELSE "missing_decision"
    [] OTHER -> "runner_error"

Outcome_DeadlineFirst(classes, codes, succeeded, exit, present) ==
  CASE exit = "deadline" -> "timeout"
    [] exit # "deadline" /\ codes # {} ->
         IF Cardinality(codes) = 1 /\ codes \subseteq classes
         THEN CHOOSE c \in codes : TRUE ELSE "runner_error"
    [] exit = "zero" /\ codes = {} /\ succeeded ->
         IF present THEN "completed" ELSE "missing_decision"
    [] OTHER -> "runner_error"

\* Error codes decide before the deadline, the deadline before the exit
\* status; codes of two classes, or an undocumented one, are a runner error.
Outcome(classes, codes, succeeded, exit, present) ==
  CASE codes # {} ->
         IF Cardinality(codes) = 1 /\ codes \subseteq classes
         THEN CHOOSE c \in codes : TRUE ELSE "runner_error"
    [] codes = {} /\ exit = "deadline" -> "timeout"
    [] codes = {} /\ exit = "zero" /\ succeeded ->
         IF present THEN "completed" ELSE "missing_decision"
    [] OTHER -> "runner_error"

CodexOutcome(output, exit, present) ==
  LET events == CodexEvents(output)
  IN IF events = None THEN "runner_error"
     ELSE Outcome(CodexClasses, CodexCodes(events), CodexSucceeded(events), exit, present)

GrokOutcome(output, exit, present) ==
  LET events == GrokEvents(output)
  IN IF events = None THEN "runner_error"
     ELSE Outcome(GrokClasses, GrokCodes(events), GrokSucceeded(events), exit, present)
=============================================================================
