--------------------------- MODULE ItemLedgerSteps ---------------------------
(***************************************************************************)
(* The item ledger statement by statement over SqliteStore: BEGIN, the     *)
(* reads that decide a command, each INSERT or UPDATE, and the end of the  *)
(* transaction are steps of their own.  Any of them may fail, and the      *)
(* process may end between any two.  The server is single-threaded, so one *)
(* command runs at a time.                                                 *)
(***************************************************************************)
EXTENDS SqliteStore, Sequences

CONSTANTS
  Actors, Operations, Items, Definitions, Contents, Owners, Addresses, OwnerOf,
  Fits, Profiles, Authored, Inputs, Reasons, Ticks, MaxRevision, Sent, None

VARIABLES
  command,  \* the command being executed, or None
  todo,     \* its statements still to execute; <<"check">> before it is decided, and
            \* "read" for a SELECT that cannot change the answer any more
  work,     \* `work`: the answer prepared inside the body
  bodyOk,   \* what the body is about to return
  reply     \* the answer to the last item command

vars == <<storeVars, command, todo, work, bodyOk, reply>>

\* The ledger as the connection reads it, and as a restart would find it.
Seen == INSTANCE ItemLedger WITH
  definitions <- view.definitions, profiles <- view.profiles,
  instances <- view.instances, properties <- view.properties,
  ownerRev <- view.ownerRev, locRev <- view.locRev, receipts <- view.receipts
Ledger == INSTANCE ItemLedger WITH
  definitions <- durable.definitions, profiles <- durable.profiles,
  instances <- durable.instances, properties <- durable.properties,
  ownerRev <- durable.ownerRev, locRev <- durable.locRev, receipts <- durable.receipts

\* The assumptions of the ledger, for this module's own constants.
ASSUME LedgerAssumption ==
  /\ OwnerOf \in [Addresses -> Owners] /\ MaxRevision \in Nat
  /\ Sent \subseteq Ledger!Commands
ASSUME AbsentAssumption == None \notin Contents \cup Ledger!Operation \cup Ledger!Commands

EmptyLedger ==
  [definitions |-> [d \in Definitions |-> None],
   profiles |-> [p \in Profiles |-> None],
   instances |-> [i \in Items |-> None],
   properties |-> [i \in Items |-> None],
   ownerRev |-> [o \in Owners |-> 0],
   locRev |-> [a \in Addresses |-> 0],
   receipts |-> [k \in Actors \X Operations |-> None]]

Registrations == [kind: {"define"}, def: Definitions, content: Contents]
ASSUME RegistrationAssumption == None \notin Registrations
IsItemCommand(c) == c.kind # "define"

\* The statements a decided command executes, in order, named by their table.
Statements(c) ==
  CASE c.kind = "define" -> <<"definitions">>
    [] c.kind = "craft" ->
         (IF view.profiles[c.making.profile] = None THEN <<"profiles">> ELSE <<>>)
           \o <<"instances", "owners", "locations", "properties", "operations">>
    [] OTHER -> <<"instances", "owners", "locations", "operations">>

\* The database after one of them.
After(table, c) ==
  CASE table = "definitions" -> [view EXCEPT !.definitions[c.def] = c.content]
    [] table = "profiles" -> [view EXCEPT !.profiles[c.making.profile] = c.making.content]
    [] table = "instances" ->
         [view EXCEPT !.instances[c.item] =
            IF c.kind = "retire" THEN Seen!RetiredRow(c) ELSE Seen!Snapshot(c)]
    [] table = "owners" -> [view EXCEPT !.ownerRev[OwnerOf[c.addr]] = c.owner + 1]
    [] table = "locations" -> [view EXCEPT !.locRev[c.addr] = c.loc + 1]
    [] table = "properties" -> [view EXCEPT !.properties[c.item] = c.making]
    [] table = "operations" ->
         [view EXCEPT !.receipts[Seen!Key(c)] =
            [receipt |-> Seen!Receipt(c), fingerprint |-> Seen!Fingerprint(c)]]

\* What remains to do after a statement: every failure ends the body.
Rest_GoesOn(fate) == Tail(todo)
Rest(fate) == IF fate = "done" THEN Tail(todo) ELSE <<>>

\* register_definition's own decision; "same" and "conflict" write nothing.
Registered(c) == view.definitions[c.def] # None
Decision(c) ==
  IF c.kind # "define" THEN Seen!Verdict(c)
  ELSE IF ~Registered(c) THEN "commit"
  ELSE IF view.definitions[c.def] = c.content THEN "replay"
  ELSE "definition_conflict"

\* The answer the check prepares: a retained receipt, a refusal, or nothing yet.
Prepared(c) ==
  IF ~IsItemCommand(c) THEN None
  ELSE CASE Decision(c) = "commit" -> Seen!Answer(c, "transaction_failed", None)
         [] Decision(c) = "replay" ->
              Seen!Answer(c, "ok", view.receipts[Seen!Key(c)].receipt)
         [] OTHER -> Seen!Answer(c, Decision(c), None)

\* The answer of a command whose transaction did not commit.
Unsettled_TrustsWork(c) == work
Unsettled(c) ==
  IF work.outcome = "ok" THEN Seen!Answer(c, "transaction_failed", None) ELSE work

Init ==
  /\ InitStore(EmptyLedger)
  /\ command = None
  /\ todo = <<>>
  /\ work = None
  /\ bodyOk = FALSE
  /\ reply = None

\* A command arrives and BEGIN succeeds.
Start(c) ==
  /\ command = None
  /\ Begin
  /\ command' = c
  /\ todo' = <<"check">>
  /\ work' = IF IsItemCommand(c) THEN Seen!Answer(c, "transaction_failed", None) ELSE None
  /\ bodyOk' = FALSE
  /\ UNCHANGED reply

\* BEGIN fails: nothing was written.
StartFails(c) ==
  /\ command = None
  /\ reply' = IF IsItemCommand(c) THEN Seen!Answer(c, "transaction_failed", None) ELSE reply
  /\ UNCHANGED <<storeVars, command, todo, work, bodyOk>>

\* The SELECTs of a command succeed and decide it.
Check ==
  /\ todo = <<"check">>
  /\ Execute(view, None, "done")
  /\ todo' = IF Decision(command) = "commit" THEN Statements(command) ELSE <<>>
  /\ bodyOk' = (Decision(command) = "replay")
  /\ work' = Prepared(command)
  /\ UNCHANGED <<command, reply>>

\* One of them fails.  _check_revisions reads the second revision all the same, and a
\* replayed "craft" that cannot read its creation back is "corrupt_record", after the
\* SELECTs of get_creation_properties if that of get_instance failed.
FailsWith(outcome) ==
  work' = IF IsItemCommand(command) THEN Seen!Answer(command, outcome, None) ELSE None
ReadsRevisions(c) ==
  /\ IsItemCommand(c)
  /\ Decision(c) \in {"stale_revision", "revision_overflow", "location_occupied", "commit"}

CheckFails(fate) ==
  /\ todo = <<"check">>
  /\ fate # "done"
  /\ Execute(view, None, fate)
  /\ \/ FailsWith("query_failed") /\ todo' = <<>>
     \/ ReadsRevisions(command) /\ FailsWith("query_failed") /\ todo' = <<"read">>
     \/ /\ IsItemCommand(command) /\ Seen!RereadsCreation(command)
        /\ FailsWith("corrupt_record") /\ todo' \in {<<>>, <<"read", "read">>}
  /\ UNCHANGED <<command, bodyOk, reply>>

\* A SELECT that follows a failed one, in autocommit mode if SQLite rolled back.
Reread(fate) ==
  /\ todo # <<>> /\ Head(todo) = "read"
  /\ Execute(view, None, fate)
  /\ todo' = Rest(fate)
  /\ UNCHANGED <<command, work, bodyOk, reply>>

\* One INSERT or UPDATE.  After the last the body prepares "ok" and returns true.
Write(fate) ==
  /\ todo # <<>> /\ Head(todo) \notin {"check", "read"}
  /\ Execute(After(Head(todo), command), Head(todo), fate)
  /\ todo' = Rest(fate)
  /\ bodyOk' = (fate = "done" /\ Len(todo) = 1)
  /\ work' = IF bodyOk' /\ IsItemCommand(command)
             THEN Seen!Answer(command, "ok", Seen!Receipt(command)) ELSE work
  /\ UNCHANGED <<command, reply>>

Finished == command # None /\ todo = <<>>

CommitCommand ==
  /\ Finished
  /\ Commit(bodyOk)
  /\ command' = None
  /\ reply' = IF IsItemCommand(command) THEN work ELSE reply
  /\ UNCHANGED <<todo, work, bodyOk>>

\* The body returned false, or COMMIT failed.
UndoCommand ==
  /\ Finished
  /\ Rollback
  /\ command' = None
  /\ reply' = IF IsItemCommand(command) THEN Unsettled(command) ELSE reply
  /\ UNCHANGED <<todo, work, bodyOk>>

\* The process ends; whoever waited for the answer never gets it.
Crash ==
  /\ CrashStore
  /\ command' = None
  /\ todo' = <<>>
  /\ work' = None
  /\ bodyOk' = FALSE
  /\ reply' = None

Next ==
  \/ \E c \in Sent \cup Registrations : Start(c)
  \/ \E c \in Sent \cup Registrations : StartFails(c)
  \/ Check
  \/ \E fate \in Fates : CheckFails(fate)
  \/ \E fate \in Fates : Reread(fate)
  \/ \E fate \in Fates : Write(fate)
  \/ CommitCommand
  \/ UndoCommand
  \/ Crash

Spec == Init /\ [][Next]_vars

-----------------------------------------------------------------------------
(* Properties.                                                              *)

\* The seam's flags have their types and both databases are ledgers.
TypeOK ==
  /\ StoreTypeOK
  /\ Seen!TypeOK
  /\ Ledger!TypeOK
  /\ command \in Sent \cup Registrations \cup {None}

\* Whatever statement fails and wherever the process ends, what a restart finds
\* and what callers are told is a behaviour of the ledger of whole commands.
ImplementsLedger ==
  /\ Ledger!Init
  /\ [][ Ledger!Next ]_<<durable, reply>>

\* An answer "ok" is given only for a receipt a restart would find.
AcknowledgedIsDurable ==
  reply # None /\ reply.outcome = "ok" =>
    /\ durable.receipts[reply.key] # None
    /\ durable.receipts[reply.key].receipt = reply.receipt
=============================================================================
