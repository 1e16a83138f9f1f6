----------------------------- MODULE MCWorkspace -----------------------------
(* A small instance of Workspace for TLC: two contracts of one pair of parties. *)
EXTENDS Workspace, TLC

CONSTANTS client, freelancer, stranger, c1, c2, tab1, tab2

MCClientOf == [c \in {c1, c2} |-> client]
MCFreelancerOf == [c \in {c1, c2} |-> freelancer]

\* Two trackers of one contract: their entries meet in one chain.
MCTabContract == [t \in {tab1, tab2} |-> c1]

\* Requests and trackers are interchangeable: nothing chooses among them.
Interchangeable == Permutations(Requests) \union Permutations(Tabs)

=============================================================================
