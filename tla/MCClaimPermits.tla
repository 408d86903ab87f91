---------------------------- MODULE MCClaimPermits ----------------------------
(* Instances of ClaimPermits for TLC. *)
EXTENDS ClaimPermits, TLC

CONSTANT MaxReceipts \* bound on the operations of a behaviour

\* Somebody no operation has touched.
Idle(c) ==
  /\ memberRev[c] = 0
  /\ \A p \in Plots : permits[p][c] = {} /\ (Claimed(p) => claims[p].owner # c)

\* Behaviours with handles are explored with one character less, one right and one
\* revision less.
Narrow ==
  /\ \E c \in Characters : Idle(c)
  /\ \A p \in Plots :
       /\ Claimed(p) => claims[p].revision < MaxRevision
       /\ \A s \in Subjects : permits[p][s] \subseteq {Administer}
  /\ \A h \in Live : interactions[h].required = {Administer} /\ ~Idle(interactions[h].actor)

Explored ==
  /\ Cardinality(receipts) <= MaxReceipts
  /\ (\E h \in Handles : writes[h] # None) => Narrow

Symmetry ==
  Permutations(Operations) \cup Permutations(Handles) \cup Permutations(Characters)
=============================================================================
