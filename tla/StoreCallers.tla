----------------------------- MODULE StoreCallers -----------------------------
(***************************************************************************)
(* SqliteStore under every caller: a call is either one statement outside  *)
(* a transaction or a transaction() whose body executes statements and     *)
(* returns true or false.  The database is the set of writes that took     *)
(* effect; a write is <<call, n, table>>.                                  *)
(***************************************************************************)
EXTENDS SqliteStore, FiniteSets

CONSTANTS
  MaxCalls,      \* bound: calls of a behaviour
  MaxStatements, \* bound: statements of one body
  OtherTable,    \* stands for every table that is not counted
  StopsAtError   \* TRUE: a body returns false at its first failed statement,
                 \* as every body in src/server does

ASSUME CallersAssumption ==
  /\ MaxCalls \in Nat
  /\ MaxStatements \in Nat
  /\ OtherTable \notin CanonTables
  /\ StopsAtError \in BOOLEAN

VARIABLES
  call,     \* calls made so far; the last one may be running
  phase,    \* "idle" between calls, "body" inside transaction()
  issued,   \* statements the running body has executed
  written,  \* per call, the writes its statements asked for
  outcome,  \* per call, what the store answered; "none" if nothing yet
  opened    \* the database when this process opened it (history)

callerVars == <<call, phase, issued, written, outcome, opened>>
allVars == <<storeVars, callerVars>>

Calls == 1 .. MaxCalls
Tables == CanonTables \cup {OtherTable}
Writes == Calls \X (1 .. MaxStatements + 1) \X Tables

InitCallers ==
  /\ InitStore({})
  /\ call = 0
  /\ phase = "idle"
  /\ issued = 0
  /\ written = [c \in Calls |-> {}]
  /\ outcome = [c \in Calls |-> "none"]
  /\ opened = {}

Answered(c, result) == outcome' = [outcome EXCEPT ![c] = result]

\* One statement on its own: autocommit.
SingleStatement(table, fate) ==
  LET w == <<call + 1, 1, table>> IN
  /\ phase = "idle" /\ call < MaxCalls
  /\ fate \in {"done", "error"}
  /\ Execute(view \cup {w}, table, fate)
  /\ call' = call + 1
  /\ written' = [written EXCEPT ![call + 1] = {w}]
  /\ Answered(call + 1, IF fate = "done" THEN "ok" ELSE "query_failed")
  /\ UNCHANGED <<phase, issued, opened>>

StartTransaction ==
  /\ phase = "idle" /\ call < MaxCalls
  /\ Begin
  /\ call' = call + 1
  /\ phase' = "body"
  /\ issued' = 0
  /\ UNCHANGED <<written, outcome, opened>>

\* BEGIN itself failed.
StartFails ==
  /\ phase = "idle" /\ call < MaxCalls
  /\ call' = call + 1
  /\ Answered(call + 1, "transaction_failed")
  /\ UNCHANGED <<storeVars, phase, issued, written, opened>>

BodyStatement(table, fate) ==
  LET w == <<call, issued + 1, table>> IN
  /\ phase = "body" /\ issued < MaxStatements
  /\ StopsAtError => ~queryFailed
  /\ Execute(view \cup {w}, table, fate)
  /\ issued' = issued + 1
  /\ written' = [written EXCEPT ![call] = @ \cup {w}]
  /\ UNCHANGED <<call, phase, outcome, opened>>

BodyCommits(bodyOk) ==
  /\ phase = "body"
  /\ Commit(bodyOk)
  /\ phase' = "idle"
  /\ Answered(call, "ok")
  /\ UNCHANGED <<call, issued, written, opened>>

\* The body returned false, a query failed in it, or COMMIT failed.
BodyRollsBack ==
  /\ phase = "body"
  /\ Rollback
  /\ phase' = "idle"
  /\ Answered(call, "transaction_failed")
  /\ UNCHANGED <<call, issued, written, opened>>

Crash ==
  /\ CrashStore
  /\ phase' = "idle"
  /\ opened' = durable
  /\ UNCHANGED <<call, issued, written, outcome>>

NextCallers ==
  \/ \E t \in Tables, f \in Fates : SingleStatement(t, f)
  \/ StartTransaction
  \/ StartFails
  \/ \E t \in Tables, f \in Fates : BodyStatement(t, f)
  \/ \E ok \in BOOLEAN : BodyCommits(ok)
  \/ BodyRollsBack
  \/ Crash

SpecCallers == InitCallers /\ [][NextCallers]_allVars

-----------------------------------------------------------------------------
(* Properties.                                                              *)

\* The store's flags and the callers' books have their types.
CallersTypeOK ==
  /\ StoreTypeOK
  /\ durable \subseteq Writes /\ view \subseteq Writes /\ opened \subseteq Writes
  /\ call \in 0 .. MaxCalls
  /\ phase \in {"idle", "body"}
  /\ issued \in 0 .. MaxStatements
  /\ written \in [Calls -> SUBSET Writes]
  /\ outcome \in [Calls -> {"none", "ok", "query_failed", "transaction_failed"}]

Running(c) == phase = "body" /\ c = call

\* A call that is over left all of its writes or none of them, and its answer
\* tells which; while it runs, a restart would find none (transaction():
\* "NO PARTIAL DURABLE RECORD is left").
NoPartialRecord ==
  \A c \in Calls :
    /\ written[c] \subseteq durable \/ written[c] \cap durable = {}
    /\ outcome[c] = "ok" => written[c] \subseteq durable
    /\ outcome[c] \in {"transaction_failed", "query_failed"} => written[c] \cap durable = {}
    /\ Running(c) => written[c] \cap durable = {}

\* canon_write_counters(): no write is lost or counted twice between the
\* windows, and "committed" counts exactly the rows this process made durable.
CountersBalance ==
  \A t \in CanonTables :
    /\ counts["attempted"][t] =
         counts["failed"][t] + counts["committed"][t] + counts["rolled_back"][t] + pending[t]
    /\ counts["committed"][t] = Cardinality({w \in durable \ opened : w[3] = t})

\* Between calls the connection reads exactly what a restart would find, so no
\* reader acts on rows that may still vanish.
IdleViewIsDurable == phase = "idle" => view = durable /\ ~native /\ ~inTransaction
=============================================================================
