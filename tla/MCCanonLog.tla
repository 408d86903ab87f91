------------------------------ MODULE MCCanonLog ------------------------------
(* Instances of CanonLog for TLC. *)
EXTENDS CanonLog, TLC

CONSTANTS gate, hut, plain, burnt, pick, other, q1, q2, q3

Symmetry == Permutations(Seqs)

BlueprintTargets == (plain :> {gate, hut}) @@ (burnt :> {gate})

\* Every intent of one actor against either entity, at either revision.
ManySent ==
  [actor: Actors, seq: Seqs, sector: Sectors, target: Targets,
   kind: {Destroy, Unlock}, payload: {other, pick}, expected: 0 .. 2]
ManyTried ==
  [actor: Actors, seq: Seqs, sector: Sectors, target: Targets,
   verb: Verbs, expected: 0 .. 2]

\* Three intents that destroy, in turn, what stands.
FewSent == {i \in ManySent : i.kind = Destroy /\ i.payload = other}
=============================================================================
