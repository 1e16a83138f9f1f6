---------------------------- MODULE MCReputation ----------------------------
(* A small instance of Reputation for TLC. *)
EXTENDS Reputation, TLC

\* Nothing chooses among milestones or generated pairs.
Interchangeable == Permutations(Milestones) \union Permutations(Pairs)

=============================================================================
