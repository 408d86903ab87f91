------------------------------ MODULE StoreProofs ------------------------------
(***************************************************************************)
(* Theorems of what the SQLite store keeps: of StoreCallers, for every set *)
(* of tables and every number of calls and statements, and of CanonLog,    *)
(* for every set of sectors, blueprints, intents and payloads.             *)
(* NoPartialRecord and CountersBalance need bodies that stop at their      *)
(* first failed statement, as those in src/server do; IdleViewIsDurable    *)
(* does not.  Only HistoriesInspectCleanHolds needs the SELECT of the      *)
(* revision never to fail.                                                 *)
(***************************************************************************)
EXTENDS StoreCallers, CanonLog, FiniteSetTheorems, TLAPS

-----------------------------------------------------------------------------
(* StoreCallers.                                                            *)

-----------------------------------------------------------------------------
(* Between calls.                                                           *)

LEMMA IdleNext == IdleViewIsDurable /\ [NextCallers]_allVars => IdleViewIsDurable'
  <1> SUFFICES ASSUME IdleViewIsDurable, [NextCallers]_allVars PROVE IdleViewIsDurable'
    OBVIOUS
  <1>1. ASSUME NEW t \in Tables, NEW f \in Fates, SingleStatement(t, f)
        PROVE  IdleViewIsDurable'
    BY <1>1 DEF SingleStatement, Execute, IdleViewIsDurable
  <1>2. CASE StartTransaction
    BY <1>2 DEF StartTransaction, IdleViewIsDurable
  <1>3. CASE StartFails
    BY <1>3 DEF StartFails, storeVars, IdleViewIsDurable
  <1>4. ASSUME NEW t \in Tables, NEW f \in Fates, BodyStatement(t, f)
        PROVE  IdleViewIsDurable'
    BY <1>4 DEF BodyStatement, IdleViewIsDurable
  <1>5. ASSUME NEW ok \in BOOLEAN, BodyCommits(ok) PROVE IdleViewIsDurable'
    BY <1>5 DEF BodyCommits, Commit, Finish, IdleViewIsDurable
  <1>6. CASE BodyRollsBack
    BY <1>6 DEF BodyRollsBack, Rollback, Finish, IdleViewIsDurable
  <1>7. CASE Crash
    BY <1>7 DEF Crash, CrashStore, IdleViewIsDurable
  <1>8. CASE UNCHANGED allVars
    BY <1>8 DEF allVars, storeVars, callerVars, IdleViewIsDurable
  <1> QED
    BY <1>1, <1>2, <1>3, <1>4, <1>5, <1>6, <1>7, <1>8 DEF NextCallers

\* Between calls the connection reads what a restart would find, whatever failed.
THEOREM IdleViewIsDurableHolds == SpecCallers => []IdleViewIsDurable
  <1>1. InitCallers => IdleViewIsDurable
    BY DEF InitCallers, InitStore, IdleViewIsDurable
  <1> QED
    BY <1>1, IdleNext, PTL DEF SpecCallers

-----------------------------------------------------------------------------
(* Records.                                                                 *)

Of(c) == {w \in Writes : w[1] = c}
Answers == {"none", "ok", "query_failed", "transaction_failed"}

Types ==
  /\ call \in 0 .. MaxCalls
  /\ phase \in {"idle", "body"}
  /\ issued \in Nat
  /\ written \in [Calls -> SUBSET Writes]
  /\ outcome \in [Calls -> Answers]
  /\ durable \subseteq Writes

\* A write belongs to the call that asked for it, and calls that were not made asked for
\* none; while one runs, what is durable stems from earlier ones.
Books ==
  /\ \A c \in Calls : written[c] \subseteq Of(c)
  /\ \A c \in Calls : c > call => written[c] = {} /\ outcome[c] = "none"
  /\ \A w \in durable : w[1] <= call
  /\ phase = "body" => /\ call \in Calls /\ inTransaction
                       /\ outcome[call] = "none"
                       /\ \A w \in durable : w[1] < call

\* While no statement of the running body has failed, the connection reads what is durable
\* and all of the body's writes; after one nothing of them is to become durable.
BodyView ==
  phase = "body" =>
    /\ written[call] \cap durable = {}
    /\ ~queryFailed => native /\ view = durable \cup written[call]

RecordInv == IdleViewIsDurable /\ Types /\ Books /\ BodyView /\ NoPartialRecord

LEMMA RecordInit == InitCallers => RecordInv
  <1> SUFFICES ASSUME InitCallers PROVE RecordInv
    OBVIOUS
  <1>1. /\ call = 0 /\ phase = "idle" /\ issued = 0 /\ durable = {} /\ view = {}
        /\ written = [c \in Calls |-> {}] /\ outcome = [c \in Calls |-> "none"]
        /\ ~native /\ ~inTransaction
    BY DEF InitCallers, InitStore
  <1>2. IdleViewIsDurable /\ BodyView
    BY <1>1 DEF IdleViewIsDurable, BodyView
  <1>3. Types
    <2>1. written \in [Calls -> SUBSET Writes]
      BY <1>1
    <2>2. outcome \in [Calls -> Answers]
      BY <1>1 DEF Answers
    <2> QED
      BY <1>1, <2>1, <2>2, CallersAssumption DEF Types
  <1>4. Books /\ NoPartialRecord
    BY <1>1 DEF Books, NoPartialRecord, Running
  <1> QED
    BY <1>2, <1>3, <1>4 DEF RecordInv

\* How the books stay in order when call c is given the writes ws.
LEMMA BooksUpdate ==
  ASSUME Types, Books, NEW c \in Calls, NEW ws \in SUBSET Of(c), c >= call,
         call' = c, written' = [written EXCEPT ![c] = @ \cup ws],
         outcome' \in [Calls -> Answers], \A d \in Calls \ {c} : outcome'[d] = outcome[d],
         durable' \subseteq Writes, phase' \in {"idle", "body"}, issued' \in Nat,
         \A w \in durable' \ durable : w[1] = c,
         phase' = "body" => inTransaction' /\ outcome'[c] = "none" /\ durable' = durable
                            /\ (c > call \/ phase = "body")
  PROVE  Types' /\ Books'
  <1>0. c \in Int /\ call \in Int /\ c \in 0 .. MaxCalls /\ Calls \subseteq Int
    BY CallersAssumption DEF Types, Calls
  <1>1. Types'
    <2>1. ws \in SUBSET Writes
      BY DEF Of
    <2>2. written' \in [Calls -> SUBSET Writes]
      BY <2>1 DEF Types
    <2> QED
      BY <1>0, <2>2 DEF Types
  <1>2. \A d \in Calls : written'[d] = IF d = c THEN written[d] \cup ws ELSE written[d]
    BY DEF Types
  <1>3. \A d \in Calls : written'[d] \subseteq Of(d)
    BY <1>2 DEF Books
  <1>4. \A d \in Calls : d > c => written'[d] = {} /\ outcome'[d] = "none"
    <2> TAKE d \in Calls
    <2> HAVE d > c
    <2>1. d > call /\ d # c
      BY <1>0
    <2> QED
      BY <1>2, <2>1 DEF Books
  <1>5. \A w \in durable' : w[1] <= c
    <2> TAKE w \in durable'
    <2>1. CASE w \in durable
      <3>1. w[1] <= call /\ w[1] \in Int
        BY <2>1, <1>0 DEF Books, Types, Writes
      <3> QED
        BY <3>1, <1>0
    <2>2. CASE w \notin durable
      BY <2>2, <1>0
    <2> QED
      BY <2>1, <2>2
  <1>6. phase' = "body" => \A w \in durable' : w[1] < c
    <2> HAVE phase' = "body"
    <2> TAKE w \in durable'
    <2>1. w \in durable /\ w[1] <= call /\ w[1] \in Int /\ (phase = "body" => w[1] < call)
      BY <1>0 DEF Books, Types, Writes
    <2> QED
      BY <2>1, <1>0
  <1>7. Books'
    BY <1>3, <1>4, <1>5, <1>6 DEF Books
  <1> QED
    BY <1>1, <1>7

LEMMA RecordNext ==
  ASSUME StopsAtError, RecordInv, [NextCallers]_allVars
  PROVE  RecordInv'
  <1> USE CallersAssumption
  <1>0. IdleViewIsDurable'
    BY IdleNext DEF RecordInv
  <1>1. ASSUME NEW t \in Tables, NEW f \in Fates, SingleStatement(t, f)
        PROVE  RecordInv'
    <2> DEFINE w == <<call + 1, 1, t>>
    <2>1. /\ phase = "idle" /\ phase' = "idle" /\ call' = call + 1 /\ call + 1 \in Calls
          /\ call + 1 > call /\ issued' = issued
          /\ written' = [written EXCEPT ![call + 1] = {w}]
          /\ outcome' = [outcome EXCEPT ![call + 1] = IF f = "done" THEN "ok" ELSE "query_failed"]
      BY <1>1 DEF SingleStatement, Answered, RecordInv, Types, Calls
    <2>2. durable' = IF f = "done" THEN durable \cup {w} ELSE durable
      BY <1>1, <2>1 DEF SingleStatement, Execute, RecordInv, IdleViewIsDurable
    <2>3. w \in Of(call + 1) /\ w \notin durable
      <3>1. w \in Of(call + 1)
        BY <2>1 DEF Of, Writes
      <3>2. ASSUME w \in durable PROVE FALSE
        <4>1. call + 1 <= call /\ call \in Int
          BY <3>2 DEF RecordInv, Types, Books
        <4> QED
          BY <4>1
      <3> QED
        BY <3>1, <3>2
    <2>4. w \in Writes /\ w[1] = call + 1
      BY <2>3 DEF Of
    <2>5. written[call + 1] = {}
      BY <2>1 DEF RecordInv, Books
    <2>6. Types' /\ Books'
      <3>1. written' = [written EXCEPT ![call + 1] = @ \cup {w}]
        BY <2>1, <2>5 DEF RecordInv, Types
      <3>2. /\ outcome' \in [Calls -> Answers]
            /\ \A d \in Calls \ {call + 1} : outcome'[d] = outcome[d]
        BY <2>1 DEF RecordInv, Types, Answers
      <3>3. durable' \subseteq Writes /\ \A v \in durable' \ durable : v[1] = call + 1
        BY <2>2, <2>4 DEF RecordInv, Types
      <3>4. call + 1 >= call /\ issued' \in Nat /\ {w} \in SUBSET Of(call + 1)
        BY <2>1, <2>3 DEF RecordInv, Types
      <3> HIDE DEF w
      <3> QED
        BY <2>1, <3>1, <3>2, <3>3, <3>4, BooksUpdate DEF RecordInv
    <2>7. NoPartialRecord'
      <3> SUFFICES ASSUME NEW c \in Calls
                   PROVE  /\ written'[c] \subseteq durable' \/ written'[c] \cap durable' = {}
                          /\ outcome'[c] = "ok" => written'[c] \subseteq durable'
                          /\ outcome'[c] \in {"transaction_failed", "query_failed"} =>
                               written'[c] \cap durable' = {}
        BY <2>1 DEF NoPartialRecord, Running
      <3>1. CASE c = call + 1
        BY <2>1, <2>2, <2>3, <3>1 DEF RecordInv, Types
      <3>2. CASE c # call + 1
        <4>1. written'[c] = written[c] /\ outcome'[c] = outcome[c]
          BY <2>1, <3>2 DEF RecordInv, Types
        <4>2. w \notin written[c]
          BY <2>4, <3>2 DEF RecordInv, Books, Of
        <4> QED
          BY <2>2, <4>1, <4>2 DEF RecordInv, NoPartialRecord
      <3> QED
        BY <3>1, <3>2
    <2> QED
      BY <1>0, <2>1, <2>6, <2>7 DEF RecordInv, BodyView
  <1>2. CASE StartTransaction
    <2>1. /\ phase = "idle" /\ phase' = "body" /\ call' = call + 1 /\ call + 1 \in Calls
          /\ call + 1 > call /\ UNCHANGED <<durable, view, written, outcome>>
          /\ native' /\ inTransaction' /\ view = durable /\ issued' = 0
      BY <1>2 DEF StartTransaction, Begin, RecordInv, Types, IdleViewIsDurable, Calls
    <2>2. written[call + 1] = {} /\ outcome[call + 1] = "none"
      BY <2>1 DEF RecordInv, Books
    <2>3. Types' /\ Books'
      <3>1. written' = [written EXCEPT ![call + 1] = @ \cup {}]
        BY <2>1, <2>2 DEF RecordInv, Types
      <3>2. {} \in SUBSET Of(call + 1) /\ call + 1 >= call /\ issued' \in Nat
        BY <2>1 DEF RecordInv, Types
      <3>3. outcome' \in [Calls -> Answers] /\ durable' \subseteq Writes
        BY <2>1 DEF RecordInv, Types
      <3> QED
        BY <2>1, <2>2, <3>1, <3>2, <3>3, BooksUpdate DEF RecordInv
    <2>4. BodyView'
      BY <2>1, <2>2 DEF BodyView
    <2>5. NoPartialRecord'
      BY <2>1, <2>2 DEF RecordInv, NoPartialRecord, Running
    <2> QED
      BY <1>0, <2>3, <2>4, <2>5 DEF RecordInv
  <1>3. CASE StartFails
    <2>1. /\ phase = "idle" /\ phase' = "idle" /\ call' = call + 1 /\ call + 1 \in Calls
          /\ call + 1 > call /\ UNCHANGED <<storeVars, written, issued>>
          /\ outcome' = [outcome EXCEPT ![call + 1] = "transaction_failed"]
      BY <1>3 DEF StartFails, Answered, RecordInv, Types, Calls
    <2>2. written[call + 1] = {}
      BY <2>1 DEF RecordInv, Books
    <2>3. Types' /\ Books'
      <3>1. written' = [written EXCEPT ![call + 1] = @ \cup {}]
        BY <2>1, <2>2 DEF RecordInv, Types
      <3>2. {} \in SUBSET Of(call + 1) /\ call + 1 >= call /\ issued' \in Nat
        BY <2>1 DEF RecordInv, Types
      <3>3. /\ outcome' \in [Calls -> Answers] /\ durable' = durable /\ durable' \subseteq Writes
            /\ \A d \in Calls \ {call + 1} : outcome'[d] = outcome[d]
        BY <2>1 DEF RecordInv, Types, Answers, storeVars
      <3> QED
        BY <2>1, <3>1, <3>2, <3>3, BooksUpdate DEF RecordInv
    <2>4. NoPartialRecord'
      <3>1. \A c \in Calls : outcome'[c] = IF c = call + 1 THEN "transaction_failed" ELSE outcome[c]
        BY <2>1 DEF RecordInv, Types
      <3> QED
        BY <2>1, <2>2, <3>1 DEF RecordInv, NoPartialRecord, Running, storeVars
    <2> QED
      BY <1>0, <2>1, <2>3, <2>4 DEF RecordInv, BodyView
  <1>4. ASSUME NEW t \in Tables, NEW f \in Fates, BodyStatement(t, f)
        PROVE  RecordInv'
    <2> DEFINE w == <<call, issued + 1, t>>
    <2>1. /\ phase = "body" /\ phase' = "body" /\ call' = call /\ call \in Calls
          /\ issued \in Nat /\ issued' = issued + 1 /\ issued + 1 \in 1 .. MaxStatements + 1
          /\ ~queryFailed /\ native /\ view = durable \cup written[call]
          /\ written' = [written EXCEPT ![call] = @ \cup {w}]
          /\ outcome' = outcome /\ outcome[call] = "none" /\ inTransaction
          /\ written[call] \cap durable = {}
      BY <1>4 DEF BodyStatement, RecordInv, Types, Books, BodyView
    <2>2. /\ durable' = durable /\ inTransaction' = inTransaction
          /\ f = "done" => view' = view \cup {w} /\ native'
          /\ f # "done" => queryFailed'
      BY <1>4, <2>1 DEF BodyStatement, Execute, Fates
    <2>3. w \in Of(call) /\ w \notin durable
      <3>1. w \in Of(call)
        BY <2>1 DEF Of, Writes
      <3>2. ASSUME w \in durable PROVE FALSE
        <4>1. call < call /\ call \in Int
          BY <2>1, <3>2 DEF RecordInv, Types, Books
        <4> QED
          BY <4>1
      <3> QED
        BY <3>1, <3>2
    <2>4. Types' /\ Books'
      <3>1. {w} \in SUBSET Of(call) /\ call >= call /\ issued' \in Nat
        BY <2>1, <2>3 DEF RecordInv, Types
      <3>2. outcome' \in [Calls -> Answers] /\ durable' \subseteq Writes
        BY <2>1, <2>2 DEF RecordInv, Types
      <3> HIDE DEF w
      <3> QED
        BY <2>1, <2>2, <3>1, <3>2, BooksUpdate DEF RecordInv
    <2>5. \A c \in Calls : written'[c] = IF c = call THEN written[c] \cup {w} ELSE written[c]
      BY <2>1 DEF RecordInv, Types
    <2>6. BodyView'
      BY <2>1, <2>2, <2>3, <2>5 DEF BodyView
    <2>7. NoPartialRecord'
      BY <2>1, <2>2, <2>3, <2>5 DEF RecordInv, NoPartialRecord, Running
    <2> QED
      BY <1>0, <2>4, <2>6, <2>7 DEF RecordInv
  <1>5. ASSUME NEW ok \in BOOLEAN, BodyCommits(ok) PROVE RecordInv'
    <2>1. /\ phase = "body" /\ phase' = "idle" /\ call' = call /\ call \in Calls
          /\ durable' = durable \cup written[call]
          /\ outcome' = [outcome EXCEPT ![call] = "ok"]
          /\ UNCHANGED <<issued, written>>
      BY <1>5 DEF BodyCommits, Commit, Commits, Answered, RecordInv, Books, BodyView
    <2>2. \A c \in Calls : outcome'[c] = IF c = call THEN "ok" ELSE outcome[c]
      BY <2>1 DEF RecordInv, Types
    <2>3. Types' /\ Books'
      <3>1. written' = [written EXCEPT ![call] = @ \cup {}]
        BY <2>1 DEF RecordInv, Types
      <3>2. {} \in SUBSET Of(call) /\ call >= call /\ issued' \in Nat
        BY <2>1 DEF RecordInv, Types
      <3>3. outcome' \in [Calls -> Answers]
        BY <2>1 DEF RecordInv, Types, Answers
      <3>4. durable' \subseteq Writes /\ \A v \in durable' \ durable : v[1] = call
        BY <2>1 DEF RecordInv, Types, Books, Of
      <3> QED
        BY <2>1, <2>2, <3>1, <3>2, <3>3, <3>4, BooksUpdate DEF RecordInv
    <2>4. \A c \in Calls \ {call} : written[c] \cap written[call] = {}
      BY <2>1 DEF RecordInv, Books, Of
    <2>5. NoPartialRecord'
      BY <2>1, <2>2, <2>4 DEF RecordInv, NoPartialRecord, Running
    <2> QED
      BY <1>0, <2>1, <2>3, <2>5 DEF RecordInv, BodyView
  <1>6. CASE BodyRollsBack
    <2>1. /\ phase = "body" /\ phase' = "idle" /\ call' = call /\ call \in Calls
          /\ durable' = durable
          /\ outcome' = [outcome EXCEPT ![call] = "transaction_failed"]
          /\ UNCHANGED <<issued, written>>
          /\ written[call] \cap durable = {}
      BY <1>6 DEF BodyRollsBack, Rollback, Answered, RecordInv, Books, BodyView
    <2>2. \A c \in Calls : outcome'[c] = IF c = call THEN "transaction_failed" ELSE outcome[c]
      BY <2>1 DEF RecordInv, Types
    <2>3. Types' /\ Books'
      <3>1. written' = [written EXCEPT ![call] = @ \cup {}]
        BY <2>1 DEF RecordInv, Types
      <3>2. {} \in SUBSET Of(call) /\ call >= call /\ issued' \in Nat
        BY <2>1 DEF RecordInv, Types
      <3>3. outcome' \in [Calls -> Answers] /\ durable' \subseteq Writes
        BY <2>1 DEF RecordInv, Types, Answers
      <3> QED
        BY <2>1, <2>2, <3>1, <3>2, <3>3, BooksUpdate DEF RecordInv
    <2>4. NoPartialRecord'
      BY <2>1, <2>2 DEF RecordInv, NoPartialRecord, Running
    <2> QED
      BY <1>0, <2>1, <2>3, <2>4 DEF RecordInv, BodyView
  <1>7. CASE Crash
    <2>1. /\ phase' = "idle" /\ durable' = durable
          /\ UNCHANGED <<call, issued, written, outcome>>
      BY <1>7 DEF Crash, CrashStore
    <2> QED
      BY <1>0, <2>1 DEF RecordInv, Types, Books, BodyView, NoPartialRecord, Running
  <1>8. CASE UNCHANGED allVars
    BY <1>0, <1>8
    DEF allVars, storeVars, callerVars, RecordInv, Types, Books, BodyView, NoPartialRecord, Running
  <1> QED
    BY <1>1, <1>2, <1>3, <1>4, <1>5, <1>6, <1>7, <1>8 DEF NextCallers

\* A call that is over left all of its writes or none, and its answer tells which.
THEOREM NoPartialRecordHolds ==
  ASSUME StopsAtError PROVE SpecCallers => []NoPartialRecord
  <1>1. RecordInv /\ [NextCallers]_allVars => RecordInv'
    BY RecordNext
  <1>2. RecordInv => NoPartialRecord
    BY DEF RecordInv
  <1> QED
    BY <1>1, <1>2, RecordInit, PTL DEF SpecCallers

-----------------------------------------------------------------------------
(* Counters.                                                                *)

In(S, t) == {w \in S : w[3] = t}

CountTypes ==
  /\ pending \in [CanonTables -> Nat]
  /\ counts \in [Windows -> [CanonTables -> Nat]]

\* Between calls nothing is pending; in a body that met no failure, what is pending is
\* what it wrote, by its statements 1 to issued.
PendingInv ==
  /\ phase = "idle" => pending = NoWrites
  /\ phase = "body" => \A w \in written[call] : w[2] <= issued
  /\ phase = "body" /\ ~queryFailed =>
       \A t \in CanonTables : pending[t] = Cardinality(In(written[call], t))

FiniteInv ==
  /\ IsFiniteSet(durable) /\ opened \subseteq durable
  /\ \A c \in Calls : IsFiniteSet(written[c])

CountInv == RecordInv /\ CountTypes /\ FiniteInv /\ PendingInv /\ CountersBalance

LEMMA CountAdded ==
  ASSUME NEW S, IsFiniteSet(S), NEW w, w \notin S, NEW t
  PROVE  /\ Cardinality(In(S, t)) \in Nat
         /\ Cardinality(In(S \cup {w}, t)) = Cardinality(In(S, t)) + IF w[3] = t THEN 1 ELSE 0
  <1>1. IsFiniteSet(In(S, t))
    BY FS_Subset DEF In
  <1>2. Cardinality(In(S, t)) \in Nat
    BY <1>1, FS_CardinalityType
  <1>3. CASE w[3] = t
    <2>1. In(S \cup {w}, t) = In(S, t) \cup {w} /\ w \notin In(S, t)
      BY <1>3 DEF In
    <2> QED
      BY <1>1, <1>2, <1>3, <2>1, FS_AddElement
  <1>4. CASE w[3] # t
    <2>1. In(S \cup {w}, t) = In(S, t)
      BY <1>4 DEF In
    <2> QED
      BY <1>2, <1>4, <2>1
  <1> QED
    BY <1>2, <1>3, <1>4

LEMMA CountJoined ==
  ASSUME NEW S, IsFiniteSet(S), NEW T, IsFiniteSet(T), S \cap T = {}, NEW t
  PROVE  Cardinality(In(S \cup T, t)) = Cardinality(In(S, t)) + Cardinality(In(T, t))
  <1>1. IsFiniteSet(In(S, t)) /\ IsFiniteSet(In(T, t))
    BY FS_Subset DEF In
  <1>2. In(S \cup T, t) = In(S, t) \cup In(T, t) /\ In(S, t) \cap In(T, t) = {}
    BY DEF In
  <1>3. Cardinality(In(S, t)) \in Nat /\ Cardinality(In(T, t)) \in Nat
    BY <1>1, FS_CardinalityType
  <1>4. Cardinality(In(S, t) \cup In(T, t)) =
          Cardinality(In(S, t)) + Cardinality(In(T, t)) - Cardinality(In(S, t) \cap In(T, t))
    BY <1>1, FS_Union
  <1>5. Cardinality(In(S, t) \cap In(T, t)) = 0
    BY <1>2, FS_EmptySet
  <1> DEFINE a == Cardinality(In(S, t))
             b == Cardinality(In(T, t))
  <1>6. Cardinality(In(S, t) \cup In(T, t)) = a + b - 0
    BY <1>4, <1>5
  <1>7. a \in Nat /\ b \in Nat
    BY <1>3
  <1> HIDE DEF a, b
  <1>8. a + b - 0 = a + b
    BY <1>7
  <1> USE DEF a, b
  <1> QED
    BY <1>2, <1>6, <1>8

\* What one statement adds to the windows.
LEMMA CountWriteAdds ==
  ASSUME CountTypes, NEW table \in Tables, NEW fate \in Fates, CountWrite(table, fate)
  PROVE  /\ CountTypes'
         /\ \A t \in CanonTables :
              LET one == IF t = table THEN 1 ELSE 0 IN
              /\ counts'["attempted"][t] = counts["attempted"][t] + one
              /\ counts'["failed"][t] = counts["failed"][t] + IF fate = "done" THEN 0 ELSE one
              /\ counts'["committed"][t] =
                   counts["committed"][t] + IF fate = "done" /\ ~inTransaction THEN one ELSE 0
              /\ counts'["rolled_back"][t] = counts["rolled_back"][t]
              /\ pending'[t] = pending[t] + IF fate = "done" /\ inTransaction THEN one ELSE 0
  <1>1. CASE table \notin CanonTables
    BY <1>1 DEF CountWrite, CountTypes, Windows
  <1>2. CASE table \in CanonTables
    <2>1. pending' = [pending EXCEPT ![table] = IF fate = "done" /\ inTransaction THEN @ + 1 ELSE @]
      BY <1>2 DEF CountWrite
    <2>2. pending' \in [CanonTables -> Nat]
      BY <1>2, <2>1 DEF CountTypes
    <2> DEFINE att == [counts["attempted"] EXCEPT ![table] = @ + 1]
               fai == [counts["failed"] EXCEPT ![table] = IF fate = "done" THEN @ ELSE @ + 1]
               com == [counts["committed"] EXCEPT ![table] =
                         IF fate = "done" /\ ~inTransaction THEN @ + 1 ELSE @]
    <2>3. counts' = [[[counts EXCEPT !["attempted"] = att] EXCEPT !["failed"] = fai]
                        EXCEPT !["committed"] = com]
      BY <1>2 DEF CountWrite, CountTypes, Windows
    <2>4. att \in [CanonTables -> Nat] /\ fai \in [CanonTables -> Nat] /\ com \in [CanonTables -> Nat]
      BY <1>2 DEF CountTypes, Windows
    <2> HIDE DEF att, fai, com
    <2>5. /\ counts' \in [Windows -> [CanonTables -> Nat]]
          /\ counts'["attempted"] = att /\ counts'["failed"] = fai /\ counts'["committed"] = com
          /\ counts'["rolled_back"] = counts["rolled_back"]
      BY <2>3, <2>4 DEF CountTypes, Windows
    <2> USE DEF att, fai, com
    <2> QED
      BY <1>2, <2>1, <2>2, <2>5 DEF CountTypes, Windows
  <1> QED
    BY <1>1, <1>2

\* What the end of a transaction moves into a window.
LEMMA FinishMoves ==
  ASSUME CountTypes, NEW window \in {"committed", "rolled_back"}, Finish(window)
  PROVE  /\ CountTypes' /\ pending' = NoWrites
         /\ \A t \in CanonTables :
              /\ counts'[window][t] = counts[window][t] + pending[t]
              /\ \A w \in Windows \ {window} : counts'[w][t] = counts[w][t]
  <1> DEFINE new == [t \in CanonTables |-> counts[window][t] + pending[t]]
  <1>1. new \in [CanonTables -> Nat]
    BY DEF CountTypes, Windows
  <1>2. counts' = [counts EXCEPT ![window] = new] /\ pending' = NoWrites
    BY DEF Finish, CountTypes, Windows
  <1> HIDE DEF new
  <1>3. /\ counts' \in [Windows -> [CanonTables -> Nat]] /\ counts'[window] = new
        /\ \A w \in Windows \ {window} : counts'[w] = counts[w]
    BY <1>1, <1>2 DEF CountTypes, Windows
  <1>4. pending' \in [CanonTables -> Nat]
    BY <1>2 DEF NoWrites
  <1> USE DEF new
  <1> QED
    BY <1>2, <1>3, <1>4 DEF CountTypes

LEMMA CountInit == InitCallers => CountInv
  <1> SUFFICES ASSUME InitCallers PROVE CountInv
    OBVIOUS
  <1>1. /\ phase = "idle" /\ durable = {} /\ opened = {} /\ written = [c \in Calls |-> {}]
        /\ pending = NoWrites /\ counts = NoCounts
    BY DEF InitCallers, InitStore
  <1>2. CountTypes /\ PendingInv
    BY <1>1 DEF CountTypes, PendingInv, NoWrites, NoCounts
  <1>3. FiniteInv
    BY <1>1, FS_EmptySet DEF FiniteInv
  <1>4. CountersBalance
    <2>1. \A t \in CanonTables : Cardinality({w \in durable \ opened : w[3] = t}) = 0
      <3>1. \A t \in CanonTables : {w \in durable \ opened : w[3] = t} = {}
        BY <1>1
      <3> QED
        BY <3>1, FS_EmptySet
    <2>2. \A t \in CanonTables : pending[t] = 0 /\ \A v \in Windows : counts[v][t] = 0
      BY <1>1 DEF NoCounts, NoWrites
    <2>3. "attempted" \in Windows /\ "failed" \in Windows /\ "committed" \in Windows
          /\ "rolled_back" \in Windows
      BY DEF Windows
    <2>4. \A t \in CanonTables :
            /\ counts["attempted"][t] = 0 /\ counts["failed"][t] = 0
            /\ counts["committed"][t] = 0 /\ counts["rolled_back"][t] = 0
      BY <2>2, <2>3
    <2> SUFFICES ASSUME NEW t \in CanonTables
                 PROVE  /\ counts["attempted"][t] = counts["failed"][t] + counts["committed"][t]
                                                    + counts["rolled_back"][t] + pending[t]
                        /\ counts["committed"][t] = Cardinality({w \in durable \ opened : w[3] = t})
      BY DEF CountersBalance
    <2>5. counts["committed"][t] = Cardinality({w \in durable \ opened : w[3] = t})
      BY <2>1, <2>4, Zenon
    <2>6. counts["attempted"][t] = counts["failed"][t] + counts["committed"][t]
                                   + counts["rolled_back"][t] + pending[t]
      BY <2>2, <2>4
    <2> QED
      BY <2>5, <2>6
  <1> QED
    BY <1>2, <1>3, <1>4, RecordInit DEF CountInv

LEMMA CountNext ==
  ASSUME StopsAtError, CountInv, [NextCallers]_allVars
  PROVE  CountInv'
  <1> USE CallersAssumption
  <1>0. RecordInv'
    BY RecordNext DEF CountInv
  <1>1. ASSUME NEW t0 \in Tables, NEW f \in Fates, SingleStatement(t0, f)
        PROVE  CountInv'
    <2> DEFINE w == <<call + 1, 1, t0>>
    <2>1. /\ phase = "idle" /\ phase' = "idle" /\ call + 1 \in Calls /\ opened' = opened
          /\ written' = [written EXCEPT ![call + 1] = {w}]
          /\ ~native /\ ~inTransaction /\ view = durable
          /\ durable' = IF f = "done" THEN durable \cup {w} ELSE durable
          /\ CountWrite(t0, f)
      BY <1>1 DEF SingleStatement, Execute, CountInv, RecordInv, IdleViewIsDurable, Types, Calls
    <2>2. w \notin durable
      <3>1. ASSUME w \in durable PROVE FALSE
        <4>1. call + 1 <= call /\ call \in Int
          BY <3>1 DEF CountInv, RecordInv, Types, Books
        <4> QED
          BY <4>1
      <3> QED
        BY <3>1
    <2>3. /\ CountTypes'
          /\ \A t \in CanonTables :
               LET one == IF t = t0 THEN 1 ELSE 0 IN
               /\ counts'["attempted"][t] = counts["attempted"][t] + one
               /\ counts'["failed"][t] = counts["failed"][t] + IF f = "done" THEN 0 ELSE one
               /\ counts'["committed"][t] = counts["committed"][t] + IF f = "done" THEN one ELSE 0
               /\ counts'["rolled_back"][t] = counts["rolled_back"][t]
               /\ pending'[t] = pending[t]
      <3>1. CountTypes /\ ~inTransaction /\ CountWrite(t0, f)
        BY <2>1 DEF CountInv
      <3>2. \A t \in CanonTables : pending[t] \in Nat
        BY <3>1 DEF CountTypes
      <3> QED
        BY ONLY <3>1, <3>2, CountWriteAdds
    <2>4. pending' = NoWrites
      <3>1. pending = NoWrites
        BY <2>1 DEF CountInv, PendingInv
      <3>2. pending' = [t \in CanonTables |-> pending'[t]]
        BY <2>3 DEF CountTypes
      <3> QED
        BY <2>3, <3>1, <3>2 DEF NoWrites
    <2>5. FiniteInv'
      <3>1. IsFiniteSet(durable')
        BY <2>1, FS_AddElement DEF CountInv, FiniteInv
      <3>2. \A c \in Calls : IsFiniteSet(written'[c])
        <4>1. IsFiniteSet({w})
          BY FS_Singleton
        <4> QED
          BY <2>1, <4>1 DEF CountInv, FiniteInv, RecordInv, Types
      <3> QED
        BY <2>1, <3>1, <3>2 DEF CountInv, FiniteInv
    <2>6. CountersBalance'
      <3> SUFFICES ASSUME NEW t \in CanonTables
                   PROVE  /\ counts'["attempted"][t] = counts'["failed"][t] + counts'["committed"][t]
                                                       + counts'["rolled_back"][t] + pending'[t]
                          /\ counts'["committed"][t] = Cardinality(In(durable' \ opened', t))
        BY DEF CountersBalance, In
      <3> DEFINE one == IF t = t0 THEN 1 ELSE 0
      <3>1. /\ counts["attempted"][t] = counts["failed"][t] + counts["committed"][t]
                                        + counts["rolled_back"][t] + pending[t]
            /\ counts["committed"][t] = Cardinality(In(durable \ opened, t))
            /\ counts["failed"][t] \in Nat /\ counts["committed"][t] \in Nat
            /\ counts["rolled_back"][t] \in Nat /\ pending[t] \in Nat
        BY DEF CountInv, CountersBalance, In, CountTypes, Windows
      <3>2. Cardinality(In(durable' \ opened', t)) =
              Cardinality(In(durable \ opened, t)) + IF f = "done" THEN one ELSE 0
        <4>1. IsFiniteSet(durable \ opened) /\ w \notin durable \ opened
          BY <2>2, FS_Subset DEF CountInv, FiniteInv
        <4>2. CASE f = "done"
          <5>1. durable' \ opened' = (durable \ opened) \cup {w}
            BY <2>1, <2>2, <4>2 DEF CountInv, FiniteInv
          <5>2. w[3] = t <=> t = t0
            OBVIOUS
          <5>3. Cardinality(In((durable \ opened) \cup {w}, t)) =
                  Cardinality(In(durable \ opened, t)) + IF w[3] = t THEN 1 ELSE 0
            <6> HIDE DEF w
            <6> QED
              BY <4>1, CountAdded
          <5>4. (IF w[3] = t THEN 1 ELSE 0) = one
            BY <5>2
          <5>5. Cardinality(In(durable' \ opened', t)) = Cardinality(In(durable \ opened, t)) + one
            BY <5>1, <5>3, <5>4, Zenon
          <5> HIDE DEF one
          <5> QED
            BY <4>2, <5>5
        <4>3. CASE f # "done"
          <5>1. durable' \ opened' = durable \ opened
            BY <2>1, <4>3
          <5>2. Cardinality(In(durable \ opened, t)) \in Nat
            BY <3>1
          <5>3. (IF f = "done" THEN one ELSE 0) = 0
            BY <4>3
          <5>4. Cardinality(In(durable' \ opened', t)) = Cardinality(In(durable \ opened, t))
            BY <5>1, Zenon
          <5>5. Cardinality(In(durable \ opened, t)) + 0 = Cardinality(In(durable \ opened, t))
            BY <5>2
          <5> QED
            BY <5>3, <5>4, <5>5, Zenon
        <4> QED
          BY <4>2, <4>3
      <3>3. one \in Nat
        OBVIOUS
      <3> QED
        BY <2>3, <3>1, <3>2, <3>3
    <2> QED
      BY <1>0, <2>1, <2>3, <2>4, <2>5, <2>6 DEF CountInv, PendingInv
  <1>2. CASE StartTransaction
    <2>1. /\ phase = "idle" /\ phase' = "body" /\ call' = call + 1 /\ call + 1 \in Calls
          /\ UNCHANGED <<durable, written, opened, counts>> /\ pending' = NoWrites
      BY <1>2 DEF StartTransaction, Begin, CountInv, RecordInv, Types, Calls
    <2>2. pending = NoWrites /\ written[call + 1] = {}
      BY <2>1 DEF CountInv, PendingInv, RecordInv, Types, Books
    <2>3. \A t \in CanonTables : Cardinality(In(written'[call'], t)) = 0
      <3>1. \A t \in CanonTables : In(written'[call'], t) = {}
        BY <2>1, <2>2 DEF In
      <3> QED
        BY <3>1, FS_EmptySet
    <2>4. PendingInv'
      BY <2>1, <2>2, <2>3 DEF PendingInv, NoWrites
    <2>5. CountTypes' /\ FiniteInv' /\ CountersBalance'
      BY <2>1, <2>2 DEF CountInv, CountTypes, FiniteInv, CountersBalance
    <2> QED
      BY <1>0, <2>4, <2>5 DEF CountInv
  <1>3. CASE StartFails
    <2>1. phase = "idle" /\ UNCHANGED <<storeVars, phase, written, opened>>
      BY <1>3 DEF StartFails
    <2> QED
      BY <1>0, <2>1 DEF CountInv, CountTypes, FiniteInv, PendingInv, CountersBalance, storeVars
  <1>4. ASSUME NEW t0 \in Tables, NEW f \in Fates, BodyStatement(t0, f)
        PROVE  CountInv'
    <2> DEFINE w == <<call, issued + 1, t0>>
    <2>1. /\ phase = "body" /\ phase' = "body" /\ call' = call /\ call \in Calls
          /\ opened' = opened /\ written' = [written EXCEPT ![call] = @ \cup {w}]
          /\ ~queryFailed /\ native /\ inTransaction /\ durable' = durable
          /\ f # "done" => queryFailed'
          /\ CountWrite(t0, f)
      BY <1>4 DEF BodyStatement, Execute, Fates, CountInv, RecordInv, Types, Books, BodyView
    <2>2. w \notin written[call] /\ issued \in Int
      <3>1. issued \in Nat
        BY DEF CountInv, RecordInv, Types
      <3>2. ASSUME w \in written[call] PROVE FALSE
        <4>1. issued + 1 <= issued
          BY <2>1, <3>2 DEF CountInv, PendingInv
        <4> QED
          BY <3>1, <4>1
      <3> QED
        BY <3>1, <3>2
    <2>3. /\ CountTypes'
          /\ \A t \in CanonTables :
               LET one == IF t = t0 THEN 1 ELSE 0 IN
               /\ counts'["attempted"][t] = counts["attempted"][t] + one
               /\ counts'["failed"][t] = counts["failed"][t] + IF f = "done" THEN 0 ELSE one
               /\ counts'["committed"][t] = counts["committed"][t]
               /\ counts'["rolled_back"][t] = counts["rolled_back"][t]
               /\ pending'[t] = pending[t] + IF f = "done" THEN one ELSE 0
      BY <2>1, CountWriteAdds DEF CountInv, CountTypes, Windows
    <2>4. written'[call] = written[call] \cup {w}
          /\ \A c \in Calls : written'[c] = IF c = call THEN written[c] \cup {w} ELSE written[c]
      BY <2>1 DEF CountInv, RecordInv, Types
    <2>5. FiniteInv'
      <3>1. IsFiniteSet(written[call] \cup {w})
        <4>1. IsFiniteSet(written[call])
          BY <2>1 DEF CountInv, FiniteInv
        <4> QED
          BY <4>1, FS_AddElement
      <3> HIDE DEF w
      <3> QED
        BY <2>1, <2>4, <3>1 DEF CountInv, FiniteInv
    <2>6. PendingInv'
      <3>1. issued' = issued + 1
        BY <1>4 DEF BodyStatement
      <3>2. \A v \in written'[call'] : v[2] <= issued'
        <4> SUFFICES ASSUME NEW v \in written'[call] PROVE v[2] <= issued + 1
          BY <2>1, <3>1
        <4>1. CASE v = w
          BY <4>1, <2>2
        <4>2. CASE v # w
          <5>1. v \in written[call] /\ v[2] <= issued /\ v[2] \in Int
            BY <2>1, <2>4, <4>2 DEF CountInv, PendingInv, RecordInv, Types, Writes
          <5> QED
            BY <2>2, <5>1
        <4> QED
          BY <4>1, <4>2
      <3>3. ASSUME ~queryFailed', NEW t \in CanonTables
            PROVE  pending'[t] = Cardinality(In(written'[call'], t))
        <4>1. f = "done" /\ pending[t] = Cardinality(In(written[call], t))
          BY <2>1, <3>3 DEF CountInv, PendingInv
        <4>2. IsFiniteSet(written[call]) /\ (w[3] = t <=> t = t0)
          BY <2>1 DEF CountInv, FiniteInv
        <4>3. pending'[t] = pending[t] + IF w[3] = t THEN 1 ELSE 0
          BY <2>3, <4>1, <4>2
        <4> HIDE DEF w
        <4> QED
          BY <2>1, <2>2, <2>4, <4>1, <4>2, <4>3, CountAdded
      <3> QED
        BY <2>1, <3>2, <3>3 DEF PendingInv
    <2>7. CountersBalance'
      <3> SUFFICES ASSUME NEW t \in CanonTables
                   PROVE  /\ counts'["attempted"][t] = counts'["failed"][t] + counts'["committed"][t]
                                                       + counts'["rolled_back"][t] + pending'[t]
                          /\ counts'["committed"][t] =
                               Cardinality({v \in durable' \ opened' : v[3] = t})
        BY DEF CountersBalance
      <3> DEFINE one == IF t = t0 THEN 1 ELSE 0
      <3>1. /\ counts["attempted"][t] = counts["failed"][t] + counts["committed"][t]
                                        + counts["rolled_back"][t] + pending[t]
            /\ counts["committed"][t] = Cardinality({v \in durable \ opened : v[3] = t})
            /\ counts["failed"][t] \in Nat /\ counts["committed"][t] \in Nat
            /\ counts["rolled_back"][t] \in Nat /\ pending[t] \in Nat
        BY DEF CountInv, CountersBalance, CountTypes, Windows
      <3>2. one \in Nat
        OBVIOUS
      <3>3. counts'["attempted"][t] = counts'["failed"][t] + counts'["committed"][t]
                                      + counts'["rolled_back"][t] + pending'[t]
        BY <2>3, <3>1, <3>2
      <3>4. durable' \ opened' = durable \ opened
        BY <2>1
      <3> QED
        BY <2>3, <3>1, <3>3, <3>4
    <2> QED
      BY <1>0, <2>3, <2>5, <2>6, <2>7 DEF CountInv
  <1>5. ASSUME NEW ok \in BOOLEAN, BodyCommits(ok) PROVE CountInv'
    <2>1. /\ phase = "body" /\ phase' = "idle" /\ call' = call /\ call \in Calls /\ ~queryFailed
          /\ durable' = durable \cup written[call] /\ written[call] \cap durable = {}
          /\ opened' = opened /\ written' = written /\ Finish("committed")
      BY <1>5 DEF BodyCommits, Commit, Commits, CountInv, RecordInv, Books, BodyView
    <2>2. /\ CountTypes' /\ pending' = NoWrites
          /\ \A t \in CanonTables :
               /\ counts'["committed"][t] = counts["committed"][t] + pending[t]
               /\ counts'["attempted"][t] = counts["attempted"][t]
               /\ counts'["failed"][t] = counts["failed"][t]
               /\ counts'["rolled_back"][t] = counts["rolled_back"][t]
      BY <2>1, FinishMoves DEF CountInv, Windows
    <2>3. FiniteInv'
      BY <2>1, FS_Union DEF CountInv, FiniteInv
    <2>4. CountersBalance'
      <3> SUFFICES ASSUME NEW t \in CanonTables
                   PROVE  /\ counts'["attempted"][t] = counts'["failed"][t] + counts'["committed"][t]
                                                       + counts'["rolled_back"][t] + pending'[t]
                          /\ counts'["committed"][t] = Cardinality(In(durable' \ opened', t))
        BY DEF CountersBalance, In
      <3>1. /\ counts["attempted"][t] = counts["failed"][t] + counts["committed"][t]
                                        + counts["rolled_back"][t] + pending[t]
            /\ counts["committed"][t] = Cardinality(In(durable \ opened, t))
            /\ counts["failed"][t] \in Nat /\ counts["committed"][t] \in Nat
            /\ counts["rolled_back"][t] \in Nat /\ pending[t] \in Nat
            /\ pending[t] = Cardinality(In(written[call], t))
        BY <2>1 DEF CountInv, CountersBalance, In, CountTypes, Windows, PendingInv
      <3>2. durable' \ opened' = (durable \ opened) \cup written[call]
        BY <2>1 DEF CountInv, FiniteInv
      <3>3. IsFiniteSet(durable \ opened) /\ IsFiniteSet(written[call])
            /\ (durable \ opened) \cap written[call] = {}
        BY <2>1, FS_Subset DEF CountInv, FiniteInv
      <3>4. Cardinality(In(durable' \ opened', t)) = counts["committed"][t] + pending[t]
        BY <3>1, <3>2, <3>3, CountJoined
      <3>5. pending'[t] = 0
        BY <2>2 DEF NoWrites
      <3> QED
        BY <2>2, <3>1, <3>4, <3>5
    <2> QED
      BY <1>0, <2>1, <2>2, <2>3, <2>4 DEF CountInv, PendingInv
  <1>6. CASE BodyRollsBack
    <2>1. /\ phase = "body" /\ phase' = "idle" /\ durable' = durable
          /\ opened' = opened /\ written' = written /\ Finish("rolled_back")
      BY <1>6 DEF BodyRollsBack, Rollback
    <2>2. /\ CountTypes' /\ pending' = NoWrites
          /\ \A t \in CanonTables :
               /\ counts'["rolled_back"][t] = counts["rolled_back"][t] + pending[t]
               /\ counts'["attempted"][t] = counts["attempted"][t]
               /\ counts'["failed"][t] = counts["failed"][t]
               /\ counts'["committed"][t] = counts["committed"][t]
      BY <2>1, FinishMoves DEF CountInv, Windows
    <2>3. FiniteInv'
      BY <2>1 DEF CountInv, FiniteInv
    <2>4. CountersBalance'
      <3> SUFFICES ASSUME NEW t \in CanonTables
                   PROVE  /\ counts'["attempted"][t] = counts'["failed"][t] + counts'["committed"][t]
                                                       + counts'["rolled_back"][t] + pending'[t]
                          /\ counts'["committed"][t] =
                               Cardinality({v \in durable \ opened : v[3] = t})
        BY <2>1 DEF CountersBalance
      <3>1. /\ counts["attempted"][t] = counts["failed"][t] + counts["committed"][t]
                                        + counts["rolled_back"][t] + pending[t]
            /\ counts["committed"][t] = Cardinality({v \in durable \ opened : v[3] = t})
            /\ counts["failed"][t] \in Nat /\ counts["committed"][t] \in Nat
            /\ counts["rolled_back"][t] \in Nat /\ pending[t] \in Nat
        BY DEF CountInv, CountersBalance, CountTypes, Windows
      <3>2. pending'[t] = 0
        BY <2>2 DEF NoWrites
      <3> QED
        BY <2>2, <3>1, <3>2
    <2> QED
      BY <1>0, <2>1, <2>2, <2>3, <2>4 DEF CountInv, PendingInv
  <1>7. CASE Crash
    <2>1. /\ phase' = "idle" /\ durable' = durable /\ opened' = durable
          /\ written' = written /\ pending' = NoWrites /\ counts' = NoCounts
      BY <1>7 DEF Crash, CrashStore
    <2>2. CountTypes' /\ PendingInv'
      BY <2>1 DEF CountTypes, PendingInv, NoWrites, NoCounts
    <2>3. FiniteInv'
      BY <2>1 DEF CountInv, FiniteInv
    <2>4. CountersBalance'
      <3>1. \A t \in CanonTables : {w \in durable' \ opened' : w[3] = t} = {}
        BY <2>1
      <3> QED
        BY <2>1, <3>1, FS_EmptySet DEF CountersBalance, NoCounts, NoWrites, Windows
    <2> QED
      BY <1>0, <2>2, <2>3, <2>4 DEF CountInv
  <1>8. CASE UNCHANGED allVars
    BY <1>0, <1>8
    DEF allVars, storeVars, callerVars, CountInv, CountTypes, FiniteInv, PendingInv, CountersBalance
  <1> QED
    BY <1>1, <1>2, <1>3, <1>4, <1>5, <1>6, <1>7, <1>8 DEF NextCallers

\* No write is lost or counted twice between the windows, and "committed" counts exactly
\* what this process made durable.
THEOREM CountersBalanceHolds ==
  ASSUME StopsAtError PROVE SpecCallers => []CountersBalance
  <1>1. CountInv /\ [NextCallers]_allVars => CountInv'
    BY CountNext
  <1>2. CountInv => CountersBalance
    BY DEF CountInv
  <1> QED
    BY <1>1, <1>2, CountInit, PTL DEF SpecCallers

-----------------------------------------------------------------------------
(* CanonLog.                                                                *)

-----------------------------------------------------------------------------
(* What a step does to the tables.                                          *)

CanonType == canon \in [Sectors -> Blueprints \cup {None}]
IdsUnique == \A q, r \in log : q.id = r.id => q = r

\* An intent that was applied: the row is new, and it was made at the revision read.
Appends(e, revision, intent) ==
  /\ canon[e.sector] # None /\ e.target \in TargetsOf[canon[e.sector]]
  /\ \A r \in log : r.id # e.id
  /\ e.expected = revision
  /\ log' = log \cup {Row(e, revision)}
  /\ Accept("mutation", intent, revision + 1)

\* An intent that was already applied.
Repeats(e, intent) ==
  /\ log' = log
  /\ \E r \in log : SameContent(r, e) /\ Accept("mutation", intent, r.applied)

\* A gate that is told to be unlocked.
Tells(g) ==
  /\ log' = log
  /\ \E r \in FirstUnlocks(g.sector, g.target) : AcceptUnlocked(g, r.applied)

LEMMA ApplyCases ==
  ASSUME NEW e, NEW revision, NEW intent, IdsUnique, Apply(e, revision, intent)
  PROVE  Appends(e, revision, intent) \/ Repeats(e, intent)
  <1> DEFINE used == {r \in log : r.id = e.id}
  <1>1. CASE Verdict(e, revision) = "ok"
    <2>1. /\ canon[e.sector] # None /\ e.target \in TargetsOf[canon[e.sector]]
          /\ used = {} /\ ExpectsCurrent(e, revision)
      BY <1>1 DEF Verdict
    <2>2. /\ log' = log \cup {Row(e, revision)}
          /\ Accept("mutation", intent, revision + 1)
      BY <1>1 DEF Apply
    <2> QED
      BY <2>1, <2>2 DEF Appends, ExpectsCurrent
  <1>2. CASE Verdict(e, revision) = "idempotent"
    <2>1. \E r \in used : SameContent(r, e)
      BY <1>2 DEF Verdict
    <2>2. PICK q \in used : SameContent(q, e)
      BY <2>1
    <2>3. PICK r \in log :
            r.id = e.id /\ Accept("mutation", intent, r.applied)
      BY <1>2 DEF Apply
    <2>4. r = q
      BY <2>2, <2>3 DEF IdsUnique
    <2>5. log' = log
      BY <1>2 DEF Apply
    <2> QED
      BY <2>2, <2>3, <2>4, <2>5 DEF Repeats
  <1> QED
    BY <1>1, <1>2 DEF Apply

\* Every step leaves the log, appends to it or repeats an answer.
LEMMA LogStep ==
  ASSUME IdsUnique, Next
  PROVE  \/ log' = log /\ accepted' = accepted
         \/ canon' = canon /\ \E g \in Tried : Tells(g)
         \/ canon' = canon /\ openGates' = openGates
            /\ \E i \in Sent : \E revision \in ReadRevision(i.sector) :
                 Appends(Event(i), revision, i) \/ Repeats(Event(i), i)
         \/ canon' = canon /\ openGates' = openGates
            /\ \E g \in Tried : \E revision \in ReadRevision(g.sector) :
                 Appends(GateEvent(g), revision, GateEvent(g))
                 \/ Repeats(GateEvent(g), GateEvent(g))
  <1>1. ASSUME NEW i \in Sent, ResolveIntent(i)
        PROVE  canon' = canon /\ openGates' = openGates
               /\ \E revision \in ReadRevision(i.sector) :
                    Appends(Event(i), revision, i) \/ Repeats(Event(i), i)
    <2>1. PICK revision \in ReadRevision(i.sector) : Apply(Event(i), revision, i)
      BY <1>1 DEF ResolveIntent
    <2>2. Appends(Event(i), revision, i) \/ Repeats(Event(i), i)
      BY <2>1, ApplyCases
    <2> QED
      BY <1>1, <2>2 DEF ResolveIntent
  <1>2. ASSUME NEW g \in Tried, UnlockGate(g)
        PROVE  /\ canon' = canon /\ openGates' = openGates
               /\ \/ Tells(g)
                  \/ \E revision \in ReadRevision(g.sector) :
                       Appends(GateEvent(g), revision, GateEvent(g))
                       \/ Repeats(GateEvent(g), GateEvent(g))
    <2>1. CASE \E revision \in ReadRevision(g.sector) : Apply(GateEvent(g), revision, GateEvent(g))
      <3>1. PICK revision \in ReadRevision(g.sector) : Apply(GateEvent(g), revision, GateEvent(g))
        BY <2>1
      <3>2. Appends(GateEvent(g), revision, GateEvent(g)) \/ Repeats(GateEvent(g), GateEvent(g))
        BY <3>1, ApplyCases
      <3> QED
        BY <1>2, <3>2 DEF UnlockGate
    <2>2. ASSUME NEW unlock \in ReadUnlock(g.sector, g.target),
                 unlock > 0, AcceptUnlocked(g, unlock), log' = log
          PROVE  Tells(g)
      BY <2>2 DEF ReadUnlock, Tells
    <2> QED
      BY <1>2, <2>1, <2>2 DEF UnlockGate
  <1>3. ASSUME NEW s \in Sectors, NEW b \in Blueprints, Canonicalize(s, b)
        PROVE  log' = log /\ accepted' = accepted
    BY <1>3 DEF Canonicalize
  <1>4. ASSUME NEW g \in Tried, OpenGate(g) PROVE canon' = canon /\ Tells(g)
    BY <1>4 DEF OpenGate, ReadUnlock, Tells
  <1>5. CASE Tick \/ Restart
    BY <1>5 DEF Tick, Restart
  <1> QED
    BY <1>1, <1>2, <1>3, <1>4, <1>5 DEF Next

LEMMA AppendKeepsIds ==
  ASSUME NEW e, NEW revision, NEW intent, IdsUnique, Appends(e, revision, intent)
  PROVE  IdsUnique'
  <1>1. Row(e, revision).id = e.id
    BY DEF Row
  <1> QED
    BY <1>1 DEF Appends, IdsUnique

\* Ids stay unique and no row ever leaves the log.
LEMMA IdsNext == IdsUnique /\ [Next]_vars => IdsUnique' /\ log \subseteq log'
  <1> SUFFICES ASSUME IdsUnique, [Next]_vars PROVE IdsUnique' /\ log \subseteq log'
    OBVIOUS
  <1>1. CASE Next
    <2>1. CASE log' = log
      BY <2>1 DEF IdsUnique
    <2>2. ASSUME NEW e, NEW revision, NEW intent, Appends(e, revision, intent)
          PROVE  IdsUnique' /\ log \subseteq log'
      BY <2>2, AppendKeepsIds DEF Appends
    <2>3. ASSUME NEW e, NEW intent, Repeats(e, intent) PROVE log' = log
      BY <2>3 DEF Repeats
    <2>4. ASSUME NEW g, Tells(g) PROVE log' = log
      BY <2>4 DEF Tells
    <2> QED
      BY <1>1, <2>1, <2>2, <2>3, <2>4, LogStep
  <1>2. CASE UNCHANGED vars
    BY <1>2 DEF vars, IdsUnique
  <1> QED
    BY <1>1, <1>2

-----------------------------------------------------------------------------
(* Open gates.                                                              *)

\* An open gate has a committed unlock.
THEOREM OpenGatesAreUnlockedHolds == Spec => []OpenGatesAreUnlocked
  <1> DEFINE Inv == IdsUnique /\ OpenGatesAreUnlocked
  <1>1. Init => Inv
    BY DEF Init, IdsUnique, OpenGatesAreUnlocked
  <1>2. Inv /\ [Next]_vars => Inv'
    <2> SUFFICES ASSUME Inv, [Next]_vars PROVE Inv'
      OBVIOUS
    <2>1. IdsUnique' /\ log \subseteq log'
      BY IdsNext
    <2>2. \A s : Unlocked(s) \subseteq Unlocked(s)'
      BY <2>1 DEF Unlocked, History
    <2>3. OpenGatesAreUnlocked'
      <3>1. CASE openGates' \subseteq openGates
        BY <2>2, <3>1 DEF OpenGatesAreUnlocked
      <3>2. ASSUME NEW g \in Tried, OpenGate(g) PROVE OpenGatesAreUnlocked'
        <4>1. openGates' = openGates \cup {<<g.sector, g.target>>} /\ g.target \in Unlocked(g.sector)
          BY <3>2 DEF OpenGate, ReadUnlock, FirstUnlocks, Unlocks, Unlocked
        <4> QED
          BY <2>2, <4>1 DEF OpenGatesAreUnlocked
      <3> QED
        BY <3>1, <3>2 DEF Next, vars, Canonicalize, ResolveIntent, UnlockGate, Tick, Restart
    <2> QED
      BY <2>1, <2>3
  <1> QED
    BY <1>1, <1>2, PTL DEF Spec

-----------------------------------------------------------------------------
(* Answers.                                                                 *)

Logged(a) ==
  \E r \in log :
    /\ r.applied = a.revision
    /\ r.sector = a.intent.sector /\ r.target = a.intent.target
    /\ IF a.answer = "mutation" THEN LoggedAsAsked(r, a.intent) ELSE IsUnlock(r)

\* An event says what its intent asks for.
Renders(e, intent) ==
  /\ e.sector = intent.sector /\ e.target = intent.target /\ e.kind = intent.kind
  /\ e.payload = intent.payload /\ e.expected = intent.expected

LEMMA AnswerIsLogged ==
  ASSUME NEW e, NEW revision, NEW intent, Renders(e, intent), AcceptedIsLogged,
         Appends(e, revision, intent) \/ Repeats(e, intent)
  PROVE  AcceptedIsLogged'
  <1>1. log \subseteq log'
    BY DEF Appends, Repeats
  <1>2. \A a \in accepted : Logged(a)'
    BY <1>1 DEF AcceptedIsLogged, Logged
  <1>3. CASE Appends(e, revision, intent)
    <2> DEFINE a == [answer |-> "mutation", intent |-> intent, revision |-> revision + 1]
    <2>1. Row(e, revision) \in log' /\ accepted' = accepted \cup {a}
      BY <1>3 DEF Appends, Accept
    <2>2. Logged(a)'
      BY <2>1 DEF Logged, LoggedAsAsked, Row, Renders
    <2> QED
      BY <1>2, <2>1, <2>2 DEF AcceptedIsLogged, Logged
  <1>4. CASE Repeats(e, intent)
    <2>1. PICK r \in log : SameContent(r, e)
                           /\ Accept("mutation", intent, r.applied)
      BY <1>4 DEF Repeats
    <2>2. /\ r.sector = e.sector /\ r.target = e.target /\ r.kind = e.kind
          /\ r.payload = e.payload /\ r.expected = e.expected
      BY <2>1 DEF SameContent, Content
    <2> DEFINE a == [answer |-> "mutation", intent |-> intent, revision |-> r.applied]
    <2>3. Logged(a)'
      BY <1>1, <2>1, <2>2 DEF Logged, LoggedAsAsked, Renders
    <2> QED
      BY <1>2, <2>1, <2>3 DEF AcceptedIsLogged, Logged, Accept
  <1> QED
    BY <1>3, <1>4

\* The unlock that an answer tells of was committed for that gate.
LEMMA UnlockIsLogged ==
  ASSUME AcceptedIsLogged, NEW g, Tells(g)
  PROVE  AcceptedIsLogged'
  <1>1. PICK r \in FirstUnlocks(g.sector, g.target) : AcceptUnlocked(g, r.applied)
    BY DEF Tells
  <1>2. r \in log /\ r.sector = g.sector /\ r.target = g.target /\ IsUnlock(r)
    BY DEF FirstUnlocks, Unlocks, History
  <1> DEFINE a == [answer |-> "unlocked", intent |-> [sector |-> g.sector, target |-> g.target],
                   revision |-> r.applied]
  <1>3. accepted' = accepted \cup {a} /\ log' = log
    BY <1>1 DEF AcceptUnlocked, Accept, Tells
  <1>4. Logged(a)'
    BY <1>2, <1>3 DEF Logged, IsUnlock
  <1>5. \A b \in accepted : Logged(b)'
    BY <1>3 DEF AcceptedIsLogged, Logged, LoggedAsAsked, IsUnlock
  <1> QED
    BY <1>3, <1>4, <1>5 DEF AcceptedIsLogged, Logged, LoggedAsAsked, IsUnlock

\* Whatever was answered "accepted" is in the log: a mutation as it was asked for, and for
\* "already_unlocked", "opened" and "already_open" an unlock of that gate.
THEOREM AcceptedIsLoggedHolds == Spec => []AcceptedIsLogged
  <1> DEFINE Inv == IdsUnique /\ AcceptedIsLogged
  <1>1. Init => Inv
    BY DEF Init, IdsUnique, AcceptedIsLogged
  <1>2. Inv /\ [Next]_vars => Inv'
    <2> SUFFICES ASSUME Inv, [Next]_vars PROVE Inv'
      OBVIOUS
    <2>1. IdsUnique'
      BY IdsNext
    <2>2. CASE log' = log /\ accepted' = accepted
      BY <2>1, <2>2 DEF AcceptedIsLogged
    <2>6. ASSUME NEW g \in Tried, Tells(g) PROVE AcceptedIsLogged'
      BY <2>6, UnlockIsLogged
    <2>3. ASSUME NEW i \in Sent, NEW revision,
                 Appends(Event(i), revision, i) \/ Repeats(Event(i), i)
          PROVE  AcceptedIsLogged'
      <3>1. Renders(Event(i), i)
        BY DEF Renders, Event
      <3> QED
        BY <2>3, <3>1, AnswerIsLogged
    <2>4. ASSUME NEW g \in Tried, NEW revision,
                 Appends(GateEvent(g), revision, GateEvent(g)) \/ Repeats(GateEvent(g), GateEvent(g))
          PROVE  AcceptedIsLogged'
      <3>1. Renders(GateEvent(g), GateEvent(g))
        BY DEF Renders
      <3> QED
        BY <2>4, <3>1, AnswerIsLogged
    <2>5. CASE UNCHANGED vars
      BY <2>2, <2>5 DEF vars
    <2> QED
      BY <2>1, <2>2, <2>3, <2>4, <2>5, <2>6, LogStep
  <1> QED
    BY <1>1, <1>2, PTL DEF Spec

-----------------------------------------------------------------------------
(* The world wears.                                                         *)

\* A sector keeps its base.
LEMMA CanonNext ==
  ASSUME CanonType, [Next]_vars
  PROVE  CanonType' /\ \A s \in Sectors : canon[s] # None => canon'[s] = canon[s]
  <1>1. ASSUME NEW s0 \in Sectors, NEW b \in Blueprints, Canonicalize(s0, b)
        PROVE  CanonType' /\ \A s \in Sectors : canon[s] # None => canon'[s] = canon[s]
    BY <1>1 DEF Canonicalize, CanonType
  <1>2. CASE canon' = canon
    BY <1>2 DEF CanonType
  <1> QED
    BY <1>1, <1>2 DEF Next, vars, ResolveIntent, UnlockGate, OpenGate, Tick, Restart

\* No step brings a destroyed structure back, locks a gate again or changes a base.
THEOREM WorldOnlyWearsHolds == Spec => WorldOnlyWears
  <1> DEFINE Inv == IdsUnique /\ CanonType
             Wears == \A s \in Sectors : canon[s] # None =>
                        /\ canon'[s] = canon[s]
                        /\ Effective(s)'.standing \subseteq Effective(s).standing
                        /\ Effective(s).unlocked \cap Effective(s)'.standing
                             \subseteq Effective(s)'.unlocked
  <1>1. Init => Inv
    BY DEF Init, IdsUnique, CanonType
  <1>2. Inv /\ [Next]_vars => Inv' /\ [Wears]_vars
    <2> SUFFICES ASSUME Inv, [Next]_vars PROVE Inv' /\ Wears
      OBVIOUS
    <2>1. IdsUnique' /\ log \subseteq log'
      BY IdsNext
    <2>2. CanonType' /\ \A s \in Sectors : canon[s] # None => canon'[s] = canon[s]
      BY CanonNext
    <2>3. ASSUME NEW s \in Sectors, canon[s] # None
          PROVE  /\ Effective(s)'.standing \subseteq Effective(s).standing
                 /\ Effective(s).unlocked \cap Effective(s)'.standing
                      \subseteq Effective(s)'.unlocked
      <3>1. Destroyed(s) \subseteq Destroyed(s)' /\ Unlocked(s) \subseteq Unlocked(s)'
        BY <2>1 DEF Destroyed, Unlocked, History
      <3>2. /\ Effective(s).standing = TargetsOf[canon[s]] \ Destroyed(s)
            /\ Effective(s)'.standing = TargetsOf[canon[s]] \ Destroyed(s)'
            /\ Effective(s).unlocked = Effective(s).standing \cap Unlocked(s)
            /\ Effective(s)'.unlocked = Effective(s)'.standing \cap Unlocked(s)'
        BY <2>2, <2>3 DEF Effective
      <3> QED
        BY <3>1, <3>2
    <2> QED
      BY <2>1, <2>2, <2>3
  <1> QED
    BY <1>1, <1>2, PTL DEF Spec, WorldOnlyWears

-----------------------------------------------------------------------------
(* Histories.                                                               *)

\* The rows of a sector number 1 to their count, in every sector that may have rows.
Numbered(s) ==
  /\ canon[s] = None => History(s) = {}
  /\ {r.applied : r \in History(s)} = 1 .. Cardinality(History(s))
  /\ \A r \in History(s) : r.expected = r.applied - 1 /\ r.target \in TargetsOf[canon[s]]

HistoryInv ==
  /\ IdsUnique /\ CanonType /\ IsFiniteSet(log)
  /\ \A s \in Sectors : Numbered(s)

LEMMA HistoryFinite ==
  ASSUME HistoryInv, NEW s
  PROVE  IsFiniteSet(History(s)) /\ Cardinality(History(s)) \in Nat
  <1>1. History(s) \in SUBSET log
    BY DEF History
  <1> QED
    BY <1>1, FS_Subset, FS_CardinalityType DEF HistoryInv

\* The revision of a sector is the number of its rows.
LEMMA CurrentIsCount ==
  ASSUME HistoryInv, NEW s \in Sectors
  PROVE  CurrentRevision(s) = Cardinality(History(s))
  <1> DEFINE n == Cardinality(History(s))
             S == {0} \cup {r.applied : r \in History(s)}
  <1>1. n \in Nat
    BY HistoryFinite
  <1>2. S = 0 .. n
    <2>1. S = {0} \cup 1 .. n
      BY DEF HistoryInv, Numbered
    <2> HIDE DEF S, n
    <2> QED
      BY <1>1, <2>1
  <1> HIDE DEF n
  <1>3. Max(0 .. n) = n
    <2>1. \A x \in 0 .. n : (\A y \in 0 .. n : x >= y) => x = n
      BY <1>1
    <2>2. \A y \in 0 .. n : n >= y
      BY <1>1
    <2>3. n \in 0 .. n
      BY <1>1
    <2> QED
      BY <2>1, <2>2, <2>3 DEF Max
  <1> USE DEF n
  <1> QED
    BY <1>2, <1>3 DEF CurrentRevision

LEMMA AppendKeepsHistory ==
  ASSUME ~RevisionReadFails, HistoryInv, NEW e, NEW revision \in ReadRevision(e.sector), NEW intent,
         Appends(e, revision, intent), canon' = canon
  PROVE  HistoryInv'
  <1> DEFINE row == Row(e, revision)
  <1>1. IdsUnique' /\ CanonType'
    BY AppendKeepsIds DEF HistoryInv, CanonType
  <1>2. IsFiniteSet(log')
    BY FS_AddElement DEF HistoryInv, Appends
  <1>3. ASSUME NEW s \in Sectors PROVE Numbered(s)'
    <2>1. CASE s # e.sector
      <3>1. History(s)' = History(s)
        BY <2>1 DEF History, Appends, Row
      <3> QED
        BY <3>1 DEF HistoryInv, Numbered
    <2>2. CASE s = e.sector
      <3> DEFINE n == Cardinality(History(s))
      <3>1. n \in Nat /\ IsFiniteSet(History(s))
        BY HistoryFinite
      <3>2. revision = n /\ row.applied = n + 1 /\ row.expected = n /\ row.target = e.target
        BY <2>2, <3>1, CurrentIsCount DEF ReadRevision, Row, Appends
      <3>3. History(s)' = History(s) \cup {row} /\ row \notin History(s)
        BY <2>2 DEF History, Appends, Row
      <3>4. Cardinality(History(s)') = n + 1
        BY <3>1, <3>3, FS_AddElement
      <3>5. {r.applied : r \in History(s)'} = 1 .. n + 1
        <4>1. {r.applied : r \in History(s)'} = {r.applied : r \in History(s)} \cup {n + 1}
          BY <3>2, <3>3
        <4>2. {r.applied : r \in History(s)} = 1 .. n
          BY DEF HistoryInv, Numbered
        <4> HIDE DEF n, row
        <4>3. 1 .. n + 1 = (1 .. n) \cup {n + 1}
          BY <3>1
        <4> QED
          BY <4>1, <4>2, <4>3
      <3>6. \A r \in History(s)' : r.expected = r.applied - 1 /\ r.target \in TargetsOf[canon[s]]
        <4>1. row.expected = row.applied - 1
          BY <3>1, <3>2
        <4> QED
          BY <2>2, <3>2, <3>3, <4>1 DEF HistoryInv, Numbered, Appends
      <3>7. canon[s] # None
        BY <2>2 DEF Appends
      <3> QED
        BY <3>4, <3>5, <3>6, <3>7 DEF Numbered
    <2> QED
      BY <2>1, <2>2
  <1> QED
    BY <1>1, <1>2, <1>3 DEF HistoryInv

\* As long as reads of the revision do not fail, no history ever fails the inspection.
THEOREM HistoriesInspectCleanHolds ==
  ASSUME ~RevisionReadFails PROVE Spec => []HistoriesInspectClean
  <1>1. Init => HistoryInv
    <2> SUFFICES ASSUME Init PROVE HistoryInv
      OBVIOUS
    <2>1. log = {} /\ IdsUnique /\ CanonType /\ IsFiniteSet(log)
      BY FS_EmptySet DEF Init, IdsUnique, CanonType
    <2>2. \A s : History(s) = {} /\ Cardinality(History(s)) = 0
      BY <2>1, FS_EmptySet DEF History
    <2>3. 1 .. 0 = {}
      OBVIOUS
    <2> QED
      BY <2>1, <2>2, <2>3 DEF HistoryInv, Numbered
  <1>2. HistoryInv /\ [Next]_vars => HistoryInv'
    <2> SUFFICES ASSUME HistoryInv, [Next]_vars PROVE HistoryInv'
      OBVIOUS
    <2>0. IdsUnique' /\ CanonType'
      BY IdsNext, CanonNext DEF HistoryInv
    <2>1. CASE log' = log
      <3>1. \A s \in Sectors : canon[s] # None => canon'[s] = canon[s]
        BY CanonNext DEF HistoryInv
      <3>2. \A s : History(s)' = History(s)
        BY <2>1 DEF History
      <3>3. ASSUME NEW s \in Sectors PROVE Numbered(s)'
        <4>1. CASE canon[s] # None
          BY <3>1, <3>2, <4>1 DEF HistoryInv, Numbered
        <4>2. CASE canon[s] = None
          BY <3>2, <4>2 DEF HistoryInv, Numbered
        <4> QED
          BY <4>1, <4>2
      <3> QED
        BY <2>0, <2>1, <3>3 DEF HistoryInv
    <2>2. ASSUME NEW i \in Sent, NEW revision \in ReadRevision(i.sector), canon' = canon,
                 Appends(Event(i), revision, i)
          PROVE  HistoryInv'
      <3>1. Event(i).sector = i.sector
        BY DEF Event
      <3> QED
        BY <2>2, <3>1, AppendKeepsHistory
    <2>3. ASSUME NEW g \in Tried, NEW revision \in ReadRevision(g.sector), canon' = canon,
                 Appends(GateEvent(g), revision, GateEvent(g))
          PROVE  HistoryInv'
      <3>1. GateEvent(g).sector = g.sector
        BY DEF GateEvent
      <3> QED
        BY <2>3, <3>1, AppendKeepsHistory
    <2>4. ASSUME NEW e, NEW intent, Repeats(e, intent) PROVE log' = log
      BY <2>4 DEF Repeats
    <2>5. CASE UNCHANGED vars
      BY <2>1, <2>5 DEF vars
    <2>6. ASSUME NEW g, Tells(g) PROVE log' = log
      BY <2>6 DEF Tells
    <2> QED
      BY <2>1, <2>2, <2>3, <2>4, <2>5, <2>6, LogStep DEF HistoryInv
  <1>3. HistoryInv => HistoriesInspectClean
    BY DEF HistoryInv, Numbered, HistoriesInspectClean, InspectsClean
  <1> QED
    BY <1>1, <1>2, <1>3, PTL DEF Spec
=============================================================================
