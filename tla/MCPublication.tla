---------------------------- MODULE MCPublication ----------------------------
EXTENDS Publication, FiniteSets, TLC

Symmetry == Permutations(Publisher) \cup Permutations(Round) \cup Permutations(Replica)

\* A history variable: whether two calls were ever under way together.
VARIABLE overlapped

Running == {p \in Publisher : pc[p] # "idle"}

MCInit == Init /\ overlapped = FALSE

MCNext == Next /\ overlapped' = (overlapped \/ Cardinality(Running') > 1)

MCSpec == MCInit /\ [][MCNext]_<<vars, overlapped>>

\* With one operator process at a time: when nobody is publishing and every
\* archived round has its commit_completed event, the authoritative books are,
\* file by file, those of the last archived round of each replica.  The audit
\* log is thus enough to tell whether the live books can be trusted, whatever
\* was interrupted before.
SequentialLiveIsLatest == ~overlapped => AuditedLiveIsLatest
=============================================================================
