----------------------------- MODULE Disposition -----------------------------
(***************************************************************************)
(* The disposition table of src/arena_runtime/disposition.py: how the      *)
(* sealed runner outcomes of one round and the state of the common market  *)
(* data decide what happens to the round and to every due replica.         *)
(*                                                                         *)
(* outcomes is a function from the due replicas to their sealed outcome.   *)
(***************************************************************************)

Available   == "available"
Unavailable == "unavailable"
DataStatus  == {Available, Unavailable}

\* Outcomes that void the round for the whole field, and those that make one
\* replica hold.
SharedVoidOutcomes == {"quota_exhausted", "provider_unavailable"}
HoldOutcomes == {"timeout", "missing_decision"}

RunnerOutcomes ==
  {"completed", "refusal", "runner_error"} \cup SharedVoidOutcomes \cup HoldOutcomes

\* Defective variant, to see that a property notices: the table without the
\* common-data row.
RoundTreatment_AnyData(outcomes, data) ==
  LET seen == {outcomes[r] : r \in DOMAIN outcomes} IN
  IF seen \cap SharedVoidOutcomes # {} THEN "void_and_pause"
  ELSE IF "runner_error" \in seen THEN "evaluator_failure" ELSE "evaluate"

\* runner_error is looked at only when no replica met a shared failure.
RoundTreatment(outcomes, data) ==
  LET seen == {outcomes[r] : r \in DOMAIN outcomes} IN
  CASE data = Unavailable -> "void_and_pause"
    [] data = Available /\ seen \cap SharedVoidOutcomes # {} -> "void_and_pause"
    [] data = Available /\ seen \cap SharedVoidOutcomes = {} ->
         IF "runner_error" \in seen THEN "evaluator_failure" ELSE "evaluate"

\* In a voided round every replica is voided, whatever it did.
ReplicaTreatment(treatment, outcome) ==
  CASE treatment # "evaluate" -> "voided"
    [] treatment = "evaluate" /\ outcome = "completed"      -> "evaluate"
    [] treatment = "evaluate" /\ outcome \in HoldOutcomes   -> "hold_no_action"
    [] treatment = "evaluate" /\ outcome = "refusal"        -> "disqualify_refusal"
=============================================================================
