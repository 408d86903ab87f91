-------------------------- MODULE MCItemLedgerSteps --------------------------
(* Instances of ItemLedgerSteps for TLC. *)
EXTENDS ItemLedgerSteps, TLC

CONSTANTS slotted, loose, hero, slot

OneOwner == slot :> hero
SlottedFits == {<<slotted, slot>>}

\* The well-formed commands.  What is sent of them does not matter for that.
WellFormed == INSTANCE ItemLedger WITH
  definitions <- None, profiles <- None, instances <- None, properties <- None,
  ownerRev <- None, locRev <- None, receipts <- None, Sent <- {}

\* Commands with current or stale revisions: with one address of one owner the
\* two revisions move together.
StepsSent == {c \in WellFormed!Commands : c.owner = c.loc /\ (c.acq = c.op \/ c.kind = "retire")}

OperationsSymmetry == Permutations(Operations)
=============================================================================
