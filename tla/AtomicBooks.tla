----------------------------- MODULE AtomicBooks -----------------------------
(***************************************************************************)
(* What publication promises about the committed archive: a round is       *)
(* published at most once, and when it is, every candidate book of one     *)
(* attempt appears in the same step.  Nothing here mentions files being    *)
(* staged, renamed or copied; Publication implements it.                   *)
(***************************************************************************)

CONSTANTS
  Round,     \* round identifiers
  Book,      \* what a published round may hold for one replica
  Replica,   \* every registered replica
  Absent     \* the round has no archive

VARIABLE archive   \* archive[n]: the books published for round n, or Absent

\* Books published together: one for every replica of a nonempty set.
IsCandidateSet(books) == \E D \in (SUBSET Replica) \ {{}} : books \in [D -> Book]

Init == archive = [n \in Round |-> Absent]

Commit(n) ==
  /\ archive[n] = Absent
  /\ IsCandidateSet(archive'[n])
  /\ archive' = [archive EXCEPT ![n] = archive'[n]]

Next == \E n \in Round : Commit(n)

Spec == Init /\ [][Next]_archive
=============================================================================
