----------------------------- MODULE MCItemLedger -----------------------------
(* Instances of ItemLedger for TLC. *)
EXTENDS ItemLedger, TLC

CONSTANTS slotted, loose, hero, slot, shelf

\* One owner of the equipped slot and of the loot position; a loose thing fits the
\* loot position only.
OneOwner == (slot :> hero) @@ (shelf :> hero)
SlottedFits == {<<slotted, slot>>, <<slotted, shelf>>, <<loose, shelf>>}

\* A creation names its own operation, except the first one of each caller,
\* which may be malformed: every expected revision is tried.
WellAimed(c) == c.kind = "retire" \/ c.acq = c.op \/ c.owner + c.loc = 0

\* Creations pinned to an authored profile are retried at another tick; they make
\* one of the items, at the loot position.
Crafted == CHOOSE i \in Items : TRUE
CraftAimed(c) == c.item = Crafted /\ c.addr = shelf /\ c.loc = 0 /\ c.owner <= 1
Mixed ==
  {c \in Commands : WellAimed(c) /\ IF c.kind = "craft" THEN CraftAimed(c) ELSE c.tick = 0}

OperationsSymmetry == Permutations(Operations)
=============================================================================
