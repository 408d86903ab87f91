----------------------------- MODULE SqliteStore -----------------------------
(***************************************************************************)
(* The engine seam every repository writes through                         *)
(* (src/server/sqlite_store.gd): one connection, one transaction helper,   *)
(* and the Canon write counters.  The database is a single value; what     *)
(* its rows are is up to the module that extends this one.                 *)
(*                                                                         *)
(* SQLite itself is external.  A statement ends in one of three ways:      *)
(*   "done"   it took effect,                                              *)
(*   "error"  it failed and left the transaction open,                     *)
(*   "abort"  it failed and SQLite rolled the transaction back by itself,  *)
(*            so that the connection is in autocommit mode again           *)
(*            (src/tests/integration/test_canon_write_accounting.gd:207).  *)
(* BEGIN and COMMIT may fail too.  An explicit ROLLBACK is assumed to fail *)
(* only when there is nothing left to roll back.                           *)
(***************************************************************************)
EXTENDS Naturals

CONSTANT CanonTables   \* CANON_WRITE_TABLES: the tables whose writes are counted

VARIABLES
  durable,        \* the database a restarted process would find
  view,           \* the database this connection reads
  native,         \* SQLite has a transaction open (autocommit is off)
  inTransaction,  \* _in_transaction
  queryFailed,    \* _transaction_query_failed
  pending,        \* _pending_canon_writes, counted per table
  counts          \* _canon_writes, per window and table

storeVars == <<durable, view, native, inTransaction, queryFailed, pending, counts>>

Windows == {"attempted", "committed", "rolled_back", "failed"}
Fates == {"done", "error", "abort"}
NoWrites == [t \in CanonTables |-> 0]
NoCounts == [w \in Windows |-> NoWrites]

StoreTypeOK ==
  /\ native \in BOOLEAN
  /\ inTransaction \in BOOLEAN
  /\ queryFailed \in BOOLEAN
  /\ pending \in [CanonTables -> Nat]
  /\ counts \in [Windows -> [CanonTables -> Nat]]

InitStore(db) ==
  /\ durable = db
  /\ view = db
  /\ native = FALSE
  /\ inTransaction = FALSE
  /\ queryFailed = FALSE
  /\ pending = NoWrites
  /\ counts = NoCounts

\* is_managed_transaction_active
Managed == inTransaction /\ native

\* transaction(), up to the call of its body: BEGIN succeeded.
Begin ==
  /\ ~native
  /\ native' = TRUE
  /\ inTransaction' = TRUE
  /\ queryFailed' = FALSE
  /\ pending' = NoWrites
  /\ UNCHANGED <<durable, view, counts>>

\* _note_canon_write
CountWrite_FailedIsPending(table, fate) ==
  IF table \notin CanonTables THEN UNCHANGED <<pending, counts>>
  ELSE /\ counts' = [counts EXCEPT !["attempted"][table] = @ + 1,
                                   !["failed"][table] = IF fate = "done" THEN @ ELSE @ + 1,
                                   !["committed"][table] =
                                      IF fate = "done" /\ ~inTransaction THEN @ + 1 ELSE @]
       /\ pending' = [pending EXCEPT ![table] = IF inTransaction THEN @ + 1 ELSE @]
CountWrite(table, fate) ==
  IF table \notin CanonTables THEN UNCHANGED <<pending, counts>>
  ELSE /\ counts' = [counts EXCEPT !["attempted"][table] = @ + 1,
                                   !["failed"][table] = IF fate = "done" THEN @ ELSE @ + 1,
                                   !["committed"][table] =
                                      IF fate = "done" /\ ~inTransaction THEN @ + 1 ELSE @]
       /\ pending' = [pending EXCEPT ![table] =
                        IF fate = "done" /\ inTransaction THEN @ + 1 ELSE @]

\* query() and query_with_bindings() of a statement that turns the database
\* this connection sees into new.  Outside a transaction it commits at once.
Execute_ForgetsFailure(new, table, fate) ==
  /\ durable' = IF fate = "done" /\ ~native THEN new ELSE durable
  /\ view' = IF fate = "done" THEN new ELSE IF fate = "abort" THEN durable ELSE view
  /\ native' = (native /\ fate # "abort")
  /\ CountWrite(table, fate)
  /\ UNCHANGED <<inTransaction, queryFailed>>
Execute(new, table, fate) ==
  /\ durable' = IF fate = "done" /\ ~native THEN new ELSE durable
  /\ view' = IF fate = "done" THEN new ELSE IF fate = "abort" THEN durable ELSE view
  /\ native' = (native /\ fate # "abort")
  /\ queryFailed' = (queryFailed \/ (inTransaction /\ fate # "done"))
  /\ CountWrite(table, fate)
  /\ UNCHANGED inTransaction

\* _finish_canon_transaction
Finish_Miscounts(window) ==
  /\ counts' = [counts EXCEPT !["committed"] = [t \in CanonTables |-> @[t] + pending[t]]]
  /\ pending' = NoWrites
  /\ inTransaction' = FALSE
  /\ queryFailed' = FALSE
Finish(window) ==
  /\ counts' = [counts EXCEPT ![window] = [t \in CanonTables |-> @[t] + pending[t]]]
  /\ pending' = NoWrites
  /\ inTransaction' = FALSE
  /\ queryFailed' = FALSE

\* COMMIT is tried only for a body that returned true without a failed query.
Commits_TrustsBody(bodyOk) == bodyOk
Commits(bodyOk) == bodyOk /\ ~queryFailed

\* The rest of transaction() once the body returned.  COMMIT cannot succeed
\* when SQLite has no transaction open.
Commit(bodyOk) ==
  /\ inTransaction
  /\ Commits(bodyOk)
  /\ native
  /\ durable' = view
  /\ native' = FALSE
  /\ UNCHANGED view
  /\ Finish("committed")

\* The body failed, or COMMIT did and the rollback after it left nothing.
Rollback_AfterCommitOnly ==
  /\ inTransaction
  /\ UNCHANGED <<durable, view, native>>
  /\ Finish("rolled_back")
Rollback ==
  /\ inTransaction
  /\ view' = durable
  /\ native' = FALSE
  /\ UNCHANGED durable
  /\ Finish("rolled_back")

\* The process ends at any point; the next one opens the same file.
CrashStore ==
  /\ view' = durable
  /\ native' = FALSE
  /\ inTransaction' = FALSE
  /\ queryFailed' = FALSE
  /\ pending' = NoWrites
  /\ counts' = NoCounts
  /\ UNCHANGED durable
=============================================================================
