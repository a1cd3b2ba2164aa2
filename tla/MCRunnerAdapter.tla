-------------------------- MODULE MCRunnerAdapter --------------------------
EXTENDS RunnerAdapter, TLC

\* Two replicas of the Codex product, which share a store, or one of Grok Build.
Fields ==
  {[r \in Replica |-> "codex"]} \cup {[r \in {q} |-> "grok_build"] : q \in Replica}

\* Every respect in which the answers to the probes may be off.
Deviations ==
  (UNION {DOMAIN CodexProbes[i].checks : i \in DOMAIN CodexProbes})
    \cup (UNION {DOMAIN GrokProbes[i].checks : i \in DOMAIN GrokProbes})

\* The lines of a client in conversation s, and what may come between the first
\* and the last: a failure of one class, of none or of two, an item declined or
\* a stop reason, a line that reports another conversation.
Opening(a, s) ==
  IF a = "codex" THEN Line("thread.started", {}, None, s) ELSE Line("text", {}, None, None)

Closings(a, s) ==
  IF a = "codex" THEN {Line("turn.completed", {}, None, None)}
  ELSE {Line("end", {}, reason, s) : reason \in {"end_turn", "blank", "refusal", "quota_exhausted"}}
         \cup {Line("untyped", {}, None, s)}

Classes == {{}, {"quota_exhausted"}, {"other"}, {"provider_unavailable", "refusal"}}

Oddities(a, s) ==
  IF a = "codex"
  THEN {Line("turn.failed", classes, None, None) : classes \in Classes}
         \cup {Line("item.completed", {}, "refusal", None)}
         \cup {Opening(a, other) : other \in Session \ {s}}
  ELSE {Line("error", classes, None, None) : classes \in Classes}
         \cup {Line("end", {}, None, other) : other \in Session \ {s}}

HalfLine == Line("garbled", {}, None, None)

Printing(a, s) ==
  LET begun == {<<Opening(a, s)>>} \cup {<<Opening(a, s), l>> : l \in Oddities(a, s)}
  IN {<< >>} \cup begun \cup {Append(output, HalfLine) : output \in begun}
       \cup {Append(output, l) : output \in begun \cup {<< >>}, l \in Closings(a, s)}

Outputs == [a \in Adapter |-> UNION {Printing(a, s) : s \in Session}]

Symmetry == Permutations(Replica) \cup Permutations(Session) \cup Permutations(Round)
=============================================================================
