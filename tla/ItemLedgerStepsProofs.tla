------------------------- MODULE ItemLedgerStepsProofs -------------------------
(***************************************************************************)
(* Theorems of ItemLedgerSteps for every set of actors, items, addresses,  *)
(* definitions, commands and every maximal revision: executed statement by *)
(* statement, with failures and crashes between them, the ledger behaves   *)
(* like the ledger of whole commands, and tells nobody of a receipt that   *)
(* a restart would not find.                                               *)
(***************************************************************************)
EXTENDS ItemLedgerSteps, SequenceTheorems, TLAPS

-----------------------------------------------------------------------------
(* What is true between any two statements.                                 *)

Tables == {"definitions", "profiles", "instances", "owners", "locations", "properties", "operations"}

\* The tables that a command writes.
Written(c) ==
  CASE c.kind = "define" -> {"definitions"}
    [] c.kind = "craft" ->
         {"profiles", "instances", "owners", "locations", "properties", "operations"}
    [] OTHER -> {"instances", "owners", "locations", "operations"}

\* The ledger after the whole of a command.
Whole(c) ==
  [definitions |-> IF c.kind = "define" THEN [durable.definitions EXCEPT ![c.def] = c.content]
                   ELSE durable.definitions,
   profiles |-> IF c.kind = "craft"
                THEN [durable.profiles EXCEPT ![c.making.profile] = c.making.content]
                ELSE durable.profiles,
   instances |-> IF c.kind = "define" THEN durable.instances
                 ELSE [durable.instances EXCEPT ![c.item] =
                         IF c.kind = "retire" THEN Ledger!RetiredRow(c) ELSE Ledger!Snapshot(c)],
   properties |-> IF c.kind = "craft" THEN [durable.properties EXCEPT ![c.item] = c.making]
                  ELSE durable.properties,
   ownerRev |-> IF c.kind = "define" THEN durable.ownerRev
                ELSE [durable.ownerRev EXCEPT ![OwnerOf[c.addr]] = c.owner + 1],
   locRev |-> IF c.kind = "define" THEN durable.locRev
              ELSE [durable.locRev EXCEPT ![c.addr] = c.loc + 1],
   receipts |-> IF c.kind = "define" THEN durable.receipts
                ELSE [durable.receipts EXCEPT ![Ledger!Key(c)] =
                        [receipt |-> Ledger!Receipt(c), fingerprint |-> Ledger!Fingerprint(c)]]]

\* The ledger while some tables are still to be written.
Partly(c, rest) ==
  LET of(table, old, new) == IF table \in rest THEN old ELSE new IN
  [definitions |-> of("definitions", durable.definitions, Whole(c).definitions),
   profiles |-> of("profiles", durable.profiles, Whole(c).profiles),
   instances |-> of("instances", durable.instances, Whole(c).instances),
   properties |-> of("properties", durable.properties, Whole(c).properties),
   ownerRev |-> of("owners", durable.ownerRev, Whole(c).ownerRev),
   locRev |-> of("locations", durable.locRev, Whole(c).locRev),
   receipts |-> of("operations", durable.receipts, Whole(c).receipts)]

Pending == {todo[i] : i \in 1 .. Len(todo)}

\* What the check decided, by what a restart would find.
Granted(c) ==
  IF c.kind = "define" THEN durable.definitions[c.def] = None ELSE Ledger!Verdict(c) = "commit"

\* The columns that are read and written by their keys.
Rows ==
  /\ durable = [definitions |-> durable.definitions, profiles |-> durable.profiles,
                instances |-> durable.instances, properties |-> durable.properties,
                ownerRev |-> durable.ownerRev, locRev |-> durable.locRev,
                receipts |-> durable.receipts]
  /\ durable.definitions \in [Definitions -> Contents \cup {None}]
  /\ durable.profiles \in [Profiles -> Authored \cup {None}]
  /\ durable.receipts \in [Actors \X Operations -> Ledger!Operation \cup {None}]

\* The statements of a granted command are under way.
Writing ==
  /\ todo \in Seq(Tables) /\ Pending \subseteq Written(command)
  /\ \A i, j \in 1 .. Len(todo) : todo[i] = todo[j] => i = j
  /\ Granted(command)
  /\ view = Partly(command, Pending)
  /\ IsItemCommand(command) => work = Ledger!Answer(command, "transaction_failed", None)

\* The body has returned: what it prepared, and whether it may be committed.
Fails(c) == ~bodyOk /\ \E outcome \in Ledger!Failures(c) : work = Ledger!Answer(c, outcome, None)
Prepares(c) ==
  \/ Fails(c)
  \/ /\ ~bodyOk /\ Ledger!Verdict(c) \notin {"commit", "replay"}
     /\ work = Ledger!Answer(c, Ledger!Verdict(c), None)
  \/ /\ bodyOk /\ Ledger!Verdict(c) = "replay" /\ view = durable
     /\ work = Ledger!Answer(c, "ok", durable.receipts[Ledger!Key(c)].receipt)
  \/ /\ bodyOk /\ Ledger!Verdict(c) = "commit" /\ view = Whole(c)
     /\ work = Ledger!Answer(c, "ok", Ledger!Receipt(c))
Returned ==
  IF IsItemCommand(command) THEN Prepares(command)
  ELSE bodyOk => view = durable \/ (Granted(command) /\ view = Whole(command))

\* SELECTs follow a failed one: the answer is fixed, and nothing has been written.
Rereading == todo \in {<<"read">>, <<"read", "read">>}
ReadsOn == view = durable /\ IsItemCommand(command) /\ Fails(command)

StepInv ==
  /\ Rows
  /\ command \in Sent \cup Registrations \cup {None}
  /\ command = None => view = durable /\ todo = <<>>
  /\ todo # <<>> /\ ~Rereading => native /\ ~queryFailed
  /\ todo = <<"check">> => view = durable /\ ~bodyOk
  /\ Rereading => ReadsOn
  /\ todo # <<>> /\ todo # <<"check">> /\ ~Rereading => Writing
  /\ Finished => Returned

-----------------------------------------------------------------------------
(* Lemmas about commands.                                                   *)

LEMMA CommandFields ==
  ASSUME NEW c \in Sent
  PROVE  /\ c.kind \in {"create", "craft", "retire"} /\ IsItemCommand(c)
         /\ c.actor \in Actors /\ c.op \in Operations /\ c.def \in Definitions /\ c.item \in Items
         /\ c.owner \in 0 .. MaxRevision /\ c.loc \in 0 .. MaxRevision
         /\ c.kind = "craft" => c.making.profile \in Profiles /\ c.making.content \in Authored
         /\ Ledger!Key(c) \in Actors \X Operations
         /\ [c EXCEPT !.tick = None] \in Ledger!Intents
         /\ c # None
  BY LedgerAssumption, AbsentAssumption
     DEF Ledger!Commands, Ledger!CommandsAt, Ledger!Intents, Ledger!Making, Ledger!Revisions,
         Ledger!Key, IsItemCommand

LEMMA RegistrationFields ==
  ASSUME NEW c \in Registrations
  PROVE  /\ c.kind = "define" /\ ~IsItemCommand(c) /\ c.def \in Definitions /\ c.content \in Contents
         /\ c # None
  BY RegistrationAssumption DEF Registrations, IsItemCommand

\* While the connection reads what is durable, it decides as a restart would.
LEMMA SeenIsLedger ==
  ASSUME view = durable, NEW c
  PROVE  /\ Seen!Verdict(c) = Ledger!Verdict(c)
         /\ Seen!Receipt(c) = Ledger!Receipt(c) /\ Seen!Key(c) = Ledger!Key(c)
         /\ Seen!RereadsCreation(c) <=> Ledger!RereadsCreation(c)
  <1>1. Seen!Receipt(c) = Ledger!Receipt(c) /\ Seen!Key(c) = Ledger!Key(c)
    BY DEF Seen!Receipt, Ledger!Receipt, Seen!Key, Ledger!Key
  <1>2. Seen!ProfileConflict(c) <=> Ledger!ProfileConflict(c)
    BY DEF Seen!ProfileConflict, Ledger!ProfileConflict
  <1>3. Seen!Pinned(c) <=> Ledger!Pinned(c)
    BY DEF Seen!Pinned, Ledger!Pinned
  <1>4. Seen!Fingerprint(c) = Ledger!Fingerprint(c)
    BY DEF Seen!Fingerprint, Ledger!Fingerprint
  <1>5. \A i : Seen!Live(i) <=> Ledger!Live(i)
    BY DEF Seen!Live, Ledger!Live
  <1>6. Seen!Readable(c.item) <=> Ledger!Readable(c.item)
    BY <1>5 DEF Seen!Readable, Ledger!Readable
  <1>7. /\ Seen!ReceiptRetained(c) <=> Ledger!ReceiptRetained(c)
        /\ Seen!Retained(c) <=> Ledger!Retained(c)
    BY <1>1, <1>6 DEF Seen!Retained, Ledger!Retained, Seen!ReceiptRetained, Ledger!ReceiptRetained,
                      Seen!CreationRetained, Ledger!CreationRetained
  <1>8. Seen!SnapshotCurrent(c) <=> Ledger!SnapshotCurrent(c)
    BY DEF Seen!SnapshotCurrent, Ledger!SnapshotCurrent, Seen!Snapshot, Ledger!Snapshot
  <1>9. Seen!RevisionsCurrent(c) <=> Ledger!RevisionsCurrent(c)
    BY DEF Seen!RevisionsCurrent, Ledger!RevisionsCurrent, Seen!OwnerOfCommand, Ledger!OwnerOfCommand
  <1>10. Seen!Overflows(c) <=> Ledger!Overflows(c)
    BY DEF Seen!Overflows, Ledger!Overflows
  <1>11. Seen!Occupied(c.addr) <=> Ledger!Occupied(c.addr)
    BY <1>5 DEF Seen!Occupied, Ledger!Occupied
  <1>12. Seen!Verdict(c) = Ledger!Verdict(c)
    BY <1>1, <1>2, <1>3, <1>4, <1>7, <1>8, <1>9, <1>10, <1>11 DEF Seen!Verdict, Ledger!Verdict
  <1>13. Seen!RereadsCreation(c) <=> Ledger!RereadsCreation(c)
    BY <1>7, <1>12 DEF Seen!RereadsCreation, Ledger!RereadsCreation
  <1> QED
    BY <1>1, <1>12, <1>13

LEMMA CommitVerdict ==
  ASSUME NEW c \in Sent, Ledger!Verdict(c) = "commit"
  PROVE  /\ ~Ledger!ProfileConflict(c) /\ Ledger!Pinned(c)
         /\ durable.receipts[Ledger!Key(c)] = None
         /\ c.owner # MaxRevision /\ c.loc # MaxRevision
  BY DEF Ledger!Verdict, Ledger!Overflows

\* The row of canon_item_operations a granted command writes.
LEMMA OperationType ==
  ASSUME Rows, NEW c \in Sent, Ledger!Verdict(c) = "commit"
  PROVE  /\ [receipt |-> Ledger!Receipt(c), fingerprint |-> Ledger!Fingerprint(c)] \in Ledger!Operation
         /\ [receipt |-> Ledger!Receipt(c), fingerprint |-> Ledger!Fingerprint(c)] # None
  <1>1. durable.definitions[c.def] \in Contents
    BY CommandFields, CommitVerdict DEF Rows, Ledger!Pinned
  <1>2. Ledger!Fingerprint(c) \in [intent: Ledger!Intents, definition: Contents]
    BY <1>1, CommandFields DEF Ledger!Fingerprint
  <1>3. c.owner + 1 \in 0 .. MaxRevision /\ c.loc + 1 \in 0 .. MaxRevision
    <2>1. c.owner \in 0 .. MaxRevision /\ c.loc \in 0 .. MaxRevision
      BY CommandFields
    <2>2. c.owner # MaxRevision /\ c.loc # MaxRevision
      BY CommitVerdict
    <2> QED
      BY <2>1, <2>2, LedgerAssumption
  <1>4. Ledger!Receipt(c) \in Ledger!ReceiptRow
    BY <1>3, CommandFields DEF Ledger!Receipt, Ledger!ReceiptRow, Ledger!Revisions
  <1>5. [receipt |-> Ledger!Receipt(c), fingerprint |-> Ledger!Fingerprint(c)] \in Ledger!Operation
    BY <1>2, <1>4 DEF Ledger!Operation
  <1> QED
    BY <1>5, AbsentAssumption

-----------------------------------------------------------------------------
(* The statements of a command.                                             *)

\* A command writes its tables once each.
LEMMA StatementsWritten ==
  ASSUME NEW c \in Sent \cup Registrations
  PROVE  /\ Statements(c) \in Seq(Tables) /\ Statements(c) # <<>> /\ Statements(c) # <<"check">>
         /\ \A i \in 1 .. Len(Statements(c)) : Statements(c)[i] \in Written(c)
         /\ \A i, j \in 1 .. Len(Statements(c)) : Statements(c)[i] = Statements(c)[j] => i = j
         /\ \A table \in Written(c) :
              \/ \E i \in 1 .. Len(Statements(c)) : Statements(c)[i] = table
              \/ /\ table = "profiles" /\ c.kind = "craft"
                 /\ view.profiles[c.making.profile] # None
  <1> DEFINE five == <<"instances", "owners", "locations", "properties", "operations">>
  <1>1. c.kind \in {"define", "create", "craft", "retire"}
    BY CommandFields, RegistrationFields
  <1>2. CASE c.kind = "define"
    <2>1. Statements(c) = <<"definitions">> /\ Written(c) = {"definitions"}
      BY <1>2 DEF Statements, Written
    <2> QED
      BY <2>1 DEF Tables
  <1>3. CASE c.kind \in {"create", "retire"}
    <2>1. /\ Statements(c) = <<"instances", "owners", "locations", "operations">>
          /\ Written(c) = {"instances", "owners", "locations", "operations"}
      BY <1>3 DEF Statements, Written
    <2> QED
      BY <2>1 DEF Tables
  <1>4. CASE c.kind = "craft" /\ view.profiles[c.making.profile] # None
    <2>1. Statements(c) = <<>> \o five
      BY <1>4 DEF Statements
    <2>2. Statements(c) = five
      BY <2>1
    <2>3. Written(c) = {"profiles", "instances", "owners", "locations", "properties", "operations"}
      BY <1>4 DEF Written
    <2> QED
      BY <1>4, <2>2, <2>3 DEF Tables
  <1>5. CASE c.kind = "craft" /\ view.profiles[c.making.profile] = None
    <2> DEFINE one == <<"profiles">>
               six == one \o five
    <2>1. Statements(c) = six
      BY <1>5 DEF Statements
    <2>2. /\ one \in Seq(Tables) /\ Len(one) = 1 /\ one[1] = "profiles"
          /\ five \in Seq(Tables) /\ Len(five) = 5
          /\ five[1] = "instances" /\ five[2] = "owners" /\ five[3] = "locations"
          /\ five[4] = "properties" /\ five[5] = "operations"
      BY DEF Tables
    <2>3. Written(c) = {"profiles", "instances", "owners", "locations", "properties", "operations"}
      BY <1>5 DEF Written
    <2>4. /\ six \in Seq(Tables) /\ Len(six) = 6
          /\ six[1] = "profiles" /\ six[2] = "instances" /\ six[3] = "owners"
          /\ six[4] = "locations" /\ six[5] = "properties" /\ six[6] = "operations"
      <3> HIDE DEF one, five
      <3>1. /\ six \in Seq(Tables) /\ Len(six) = 6
            /\ \A i \in 1 .. 6 : six[i] = IF i <= 1 THEN one[i] ELSE five[i - 1]
        <4>1. /\ six \in Seq(Tables) /\ Len(six) = Len(one) + Len(five)
              /\ \A i \in 1 .. Len(one) + Len(five) :
                   six[i] = IF i <= Len(one) THEN one[i] ELSE five[i - Len(one)]
          BY <2>2, ConcatProperties
        <4> QED
          BY <2>2, <4>1
      <3> QED
        BY <2>2, <3>1
    <2> HIDE DEF six
    <2>5. \A i \in 1 .. Len(six) : i \in {1, 2, 3, 4, 5, 6}
      BY <2>4
    <2>6. \A i, j \in 1 .. Len(six) : six[i] = six[j] => i = j
      BY <2>4, <2>5
    <2>7. six # <<>> /\ six # <<"check">>
      BY <2>4
    <2>8. \A i \in 1 .. Len(six) : six[i] \in Written(c)
      BY <2>3, <2>4, <2>5
    <2>9. \A table \in Written(c) : \E i \in 1 .. Len(six) : six[i] = table
      BY <2>3, <2>4
    <2> QED
      BY <2>1, <2>4, <2>6, <2>7, <2>8, <2>9
  <1> QED
    BY <1>1, <1>2, <1>3, <1>4, <1>5

\* One of them takes its table from what it was to what it will be.
LEMMA AfterWrites ==
  ASSUME Rows, NEW c \in Sent \cup Registrations, NEW rest \in SUBSET Written(c),
         view = Partly(c, rest), NEW table \in rest
  PROVE  After(table, c) = Partly(c, rest \ {table})
  <1>1. c.kind \in {"define", "create", "craft", "retire"}
    BY CommandFields, RegistrationFields
  <1>2. /\ table \in Tables
        /\ table = "definitions" => c.kind = "define"
        /\ table \in {"profiles", "properties"} => c.kind = "craft"
        /\ table \in {"instances", "owners", "locations", "operations"} => c.kind # "define"
        /\ c.kind # "define" => "definitions" \notin rest
    BY <1>1 DEF Written, Tables
  <1>3. view.definitions = durable.definitions \/ c.kind = "define"
    BY <1>2 DEF Partly, Whole
  <1>4. CASE table = "definitions"
    BY <1>2, <1>4 DEF After, Partly, Whole
  <1>5. CASE table = "profiles"
    BY <1>2, <1>5 DEF After, Partly, Whole
  <1>6. CASE table = "instances"
    <2>1. view.instances = durable.instances
      BY <1>6 DEF Partly
    <2>2. Seen!RetiredRow(c) = Ledger!RetiredRow(c) /\ Seen!Snapshot(c) = Ledger!Snapshot(c)
      BY <2>1 DEF Seen!RetiredRow, Ledger!RetiredRow, Seen!Snapshot, Ledger!Snapshot
    <2> QED
      BY <1>2, <1>6, <2>1, <2>2 DEF After, Partly, Whole
  <1>7. CASE table = "owners"
    BY <1>2, <1>7 DEF After, Partly, Whole
  <1>8. CASE table = "locations"
    BY <1>2, <1>8 DEF After, Partly, Whole
  <1>9. CASE table = "properties"
    BY <1>2, <1>9 DEF After, Partly, Whole
  <1>10. CASE table = "operations"
    <2>1. /\ Seen!Fingerprint(c) = Ledger!Fingerprint(c) /\ Seen!Receipt(c) = Ledger!Receipt(c)
          /\ Seen!Key(c) = Ledger!Key(c)
      BY <1>2, <1>3, <1>10 DEF Seen!Fingerprint, Ledger!Fingerprint, Seen!Receipt, Ledger!Receipt,
                               Seen!Key, Ledger!Key
    <2> QED
      BY <1>2, <1>10, <2>1 DEF After, Partly, Whole
  <1> QED
    BY <1>2, <1>4, <1>5, <1>6, <1>7, <1>8, <1>9, <1>10 DEF Tables

\* Before the first statement nothing is written, and the profile that is already
\* there needs none; after the last all is.
LEMMA PartlyBounds ==
  ASSUME Rows, NEW c \in Sent \cup Registrations, Granted(c), NEW rest
  PROVE  /\ rest = {} => Partly(c, rest) = Whole(c)
         /\ /\ rest \subseteq Written(c)
            /\ \A table \in Written(c) \ rest :
                 table = "profiles" /\ c.kind = "craft" /\ durable.profiles[c.making.profile] # None
            => Partly(c, rest) = durable
  <1>1. rest = {} => Partly(c, rest) = Whole(c)
    BY DEF Partly, Whole
  <1>2. ASSUME rest \subseteq Written(c),
               \A table \in Written(c) \ rest :
                 table = "profiles" /\ c.kind = "craft" /\ durable.profiles[c.making.profile] # None
        PROVE  Partly(c, rest) = durable
    <2>1. c.kind \in {"define", "create", "craft", "retire"}
      BY CommandFields, RegistrationFields
    <2>2. "profiles" \notin rest => Whole(c).profiles = durable.profiles
      <3>1. CASE c.kind # "craft"
        BY <3>1 DEF Whole
      <3>2. CASE c.kind = "craft" /\ "profiles" \notin rest
        <4>1. durable.profiles[c.making.profile] # None
          BY <1>2, <3>2 DEF Written
        <4>2. c \in Sent /\ c.making.profile \in Profiles
          BY <3>2, CommandFields, RegistrationFields
        <4>3. durable.profiles[c.making.profile] = c.making.content
          BY <3>2, <4>1, <4>2, CommandFields, CommitVerdict DEF Granted, Ledger!ProfileConflict
        <4> QED
          BY <3>2, <4>2, <4>3 DEF Whole, Rows
      <3> QED
        BY <3>1, <3>2
    <2>3. "definitions" \notin rest => Whole(c).definitions = durable.definitions
      BY <1>2, <2>1 DEF Written, Whole
    <2>4. "instances" \notin rest => Whole(c).instances = durable.instances
      BY <1>2, <2>1 DEF Written, Whole
    <2>5. "properties" \notin rest => Whole(c).properties = durable.properties
      BY <1>2, <2>1 DEF Written, Whole
    <2>6. "owners" \notin rest => Whole(c).ownerRev = durable.ownerRev
      BY <1>2, <2>1 DEF Written, Whole
    <2>7. "locations" \notin rest => Whole(c).locRev = durable.locRev
      BY <1>2, <2>1 DEF Written, Whole
    <2>8. "operations" \notin rest => Whole(c).receipts = durable.receipts
      BY <1>2, <2>1 DEF Written, Whole
    <2> QED
      BY <2>2, <2>3, <2>4, <2>5, <2>6, <2>7, <2>8 DEF Partly, Rows
  <1> QED
    BY <1>1, <1>2

\* Whole commands keep the tables' types.
LEMMA WholeRows ==
  ASSUME Rows, NEW c \in Sent \cup Registrations, Granted(c), durable' = Whole(c)
  PROVE  /\ Rows'
         /\ c \in Sent => /\ durable'.receipts[Ledger!Key(c)] # None
                          /\ durable'.receipts[Ledger!Key(c)].receipt = Ledger!Receipt(c)
         /\ c \in Registrations => durable'.receipts = durable.receipts
  <1>1. CASE c \in Registrations
    <2>1. c.kind = "define" /\ c.def \in Definitions /\ c.content \in Contents
      BY <1>1, RegistrationFields
    <2>2. c \notin Sent
      BY <2>1, CommandFields
    <2>3. Rows'
      BY <2>1 DEF Rows, Whole
    <2> QED
      BY <2>1, <2>2, <2>3 DEF Whole
  <1>2. CASE c \in Sent
    <2> DEFINE row == [receipt |-> Ledger!Receipt(c), fingerprint |-> Ledger!Fingerprint(c)]
    <2>1. c.kind # "define" /\ Ledger!Verdict(c) = "commit"
      BY <1>2, CommandFields DEF Granted
    <2>2. row \in Ledger!Operation /\ row # None /\ row.receipt = Ledger!Receipt(c)
      BY <1>2, <2>1, OperationType
    <2>3. durable'.receipts = [durable.receipts EXCEPT ![Ledger!Key(c)] = row]
      BY <2>1 DEF Whole
    <2>4. Ledger!Key(c) \in Actors \X Operations
      BY <1>2, CommandFields
    <2> HIDE DEF row
    <2>5. /\ durable'.receipts \in [Actors \X Operations -> Ledger!Operation \cup {None}]
          /\ durable'.receipts[Ledger!Key(c)] = row
      BY <2>2, <2>3, <2>4 DEF Rows
    <2>6. durable'.definitions = durable.definitions
      BY <2>1 DEF Whole
    <2>7. durable'.profiles \in [Profiles -> Authored \cup {None}]
      <3>1. CASE c.kind = "craft"
        <4>1. c.making.content \in Authored
          BY <1>2, <3>1, CommandFields
        <4>2. durable'.profiles = [durable.profiles EXCEPT ![c.making.profile] = c.making.content]
          BY <3>1 DEF Whole
        <4> QED
          BY <4>1, <4>2 DEF Rows
      <3>2. CASE c.kind # "craft"
        BY <3>2 DEF Whole, Rows
      <3> QED
        BY <3>1, <3>2
    <2>8. durable' = [definitions |-> durable'.definitions, profiles |-> durable'.profiles,
                      instances |-> durable'.instances, properties |-> durable'.properties,
                      ownerRev |-> durable'.ownerRev, locRev |-> durable'.locRev,
                      receipts |-> durable'.receipts]
      BY DEF Whole
    <2>9. Rows'
      BY <2>5, <2>6, <2>7, <2>8 DEF Rows
    <2>10. c \notin Registrations
      BY <2>1, RegistrationFields
    <2> QED
      BY <2>2, <2>5, <2>9, <2>10
  <1> QED
    BY <1>1, <1>2

\* What was decided stays decided while nothing is committed.
LEMMA DurableKept ==
  ASSUME durable' = durable, NEW c
  PROVE  /\ Ledger!Verdict(c)' = Ledger!Verdict(c) /\ Granted(c)' = Granted(c)
         /\ Ledger!Failures(c)' = Ledger!Failures(c)
         /\ Whole(c)' = Whole(c) /\ Rows' = Rows
         /\ \A rest : Partly(c, rest)' = Partly(c, rest)
  <1>1. Ledger!ProfileConflict(c)' <=> Ledger!ProfileConflict(c)
    BY DEF Ledger!ProfileConflict
  <1>2. Ledger!Pinned(c)' <=> Ledger!Pinned(c)
    BY DEF Ledger!Pinned
  <1>3. Ledger!Fingerprint(c)' = Ledger!Fingerprint(c)
    BY DEF Ledger!Fingerprint
  <1>4. \A i : Ledger!Live(i)' <=> Ledger!Live(i)
    BY DEF Ledger!Live
  <1>5. Ledger!Readable(c.item)' <=> Ledger!Readable(c.item)
    BY <1>4 DEF Ledger!Readable
  <1>6. /\ Ledger!ReceiptRetained(c)' <=> Ledger!ReceiptRetained(c)
        /\ Ledger!Retained(c)' <=> Ledger!Retained(c)
    BY <1>5 DEF Ledger!Retained, Ledger!ReceiptRetained, Ledger!CreationRetained
  <1>7. Ledger!SnapshotCurrent(c)' <=> Ledger!SnapshotCurrent(c)
    BY DEF Ledger!SnapshotCurrent
  <1>8. Ledger!RevisionsCurrent(c)' <=> Ledger!RevisionsCurrent(c)
    BY DEF Ledger!RevisionsCurrent
  <1>9. Ledger!Occupied(c.addr)' <=> Ledger!Occupied(c.addr)
    BY <1>4 DEF Ledger!Occupied
  <1>10. Ledger!Verdict(c)' = Ledger!Verdict(c)
    BY <1>1, <1>2, <1>3, <1>6, <1>7, <1>8, <1>9 DEF Ledger!Verdict
  <1>11. Ledger!RetiredRow(c)' = Ledger!RetiredRow(c)
    BY DEF Ledger!RetiredRow
  <1>12. Whole(c)' = Whole(c)
    BY <1>3, <1>11 DEF Whole
  <1>13. \A rest : Partly(c, rest)' = Partly(c, rest)
    BY <1>12 DEF Partly
  <1>14. Granted(c)' = Granted(c) /\ Rows' = Rows
    BY <1>10 DEF Granted, Rows
  <1>15. Ledger!Failures(c)' = Ledger!Failures(c)
    <2>1. Ledger!RereadsCreation(c)' <=> Ledger!RereadsCreation(c)
      BY <1>6, <1>10 DEF Ledger!RereadsCreation
    <2> QED
      BY <2>1 DEF Ledger!Failures
  <1> QED
    BY <1>10, <1>12, <1>13, <1>14, <1>15

-----------------------------------------------------------------------------
(* The steps that commit nothing.                                           *)

LEMMA NotRereading ==
  /\ <<>> \notin {<<"read">>, <<"read", "read">>}
  /\ <<"check">> \notin {<<"read">>, <<"read", "read">>} \cup {<<>>}
  /\ \A s \in Seq(Tables) : s \notin {<<"read">>, <<"read", "read">>, <<"check">>}
  <1>1. ASSUME NEW s \in Seq(Tables) PROVE s \notin {<<"read">>, <<"read", "read">>, <<"check">>}
    <2>1. s # <<>> => s[1] \in Tables
      OBVIOUS
    <2> QED
      BY <2>1 DEF Tables
  <1> QED
    BY <1>1

LEMMA StepInit == Init => StepInv /\ AcknowledgedIsDurable /\ Ledger!Init
  <1> SUFFICES ASSUME Init PROVE StepInv /\ AcknowledgedIsDurable /\ Ledger!Init
    OBVIOUS
  <1>1. /\ durable = EmptyLedger /\ view = EmptyLedger /\ command = None /\ todo = <<>> /\ reply = None
    BY DEF Init, InitStore
  <1>2. Rows
    BY <1>1 DEF EmptyLedger, Rows
  <1>3. <<>> # <<"check">> /\ ~Rereading
    BY <1>1 DEF Rereading
  <1>4. StepInv
    BY <1>1, <1>2, <1>3 DEF StepInv, Finished
  <1>5. Ledger!Init
    BY <1>1 DEF EmptyLedger, Ledger!Init, Ledger!Keys
  <1> QED
    BY <1>1, <1>4, <1>5 DEF AcknowledgedIsDurable

LEMMA StartStep ==
  ASSUME StepInv, NEW c \in Sent \cup Registrations, Start(c)
  PROVE  StepInv' /\ UNCHANGED <<durable, reply>>
  <1>1. /\ command = None /\ command' = c /\ todo' = <<"check">> /\ bodyOk' = FALSE
        /\ durable' = durable /\ view' = view /\ native' = TRUE /\ queryFailed' = FALSE /\ reply' = reply
    BY DEF Start, Begin
  <1>2. Rows' /\ view = durable
    BY <1>1, DurableKept DEF StepInv
  <1>3. c # None /\ <<"check">> # <<>> /\ ~Rereading'
    BY <1>1, CommandFields, RegistrationFields DEF Rereading
  <1> QED
    BY <1>1, <1>2, <1>3 DEF StepInv, Finished

\* A check that succeeded, by what the connection read.
LEMMA CheckStep ==
  ASSUME StepInv, Check
  PROVE  StepInv' /\ UNCHANGED <<durable, reply>>
  <1> PICK c : c = command
    OBVIOUS
  <1>1. /\ todo = <<"check">> /\ todo # <<>>
        /\ durable' = durable /\ view' = view /\ native' /\ ~queryFailed'
        /\ todo' = IF Decision(c) = "commit" THEN Statements(c) ELSE <<>>
        /\ bodyOk' = (Decision(c) = "replay") /\ work' = Prepared(c)
        /\ command' = c /\ reply' = reply
    <2>1. todo = <<"check">> /\ todo # <<>> /\ native /\ ~queryFailed
      BY NotRereading DEF Check, StepInv, Rereading
    <2> QED
      BY <2>1 DEF Check, Execute
  <1>2. Rows /\ Rows' /\ view = durable /\ native /\ ~queryFailed /\ c \in Sent \cup Registrations
    <2>1. ~Rereading
      BY <1>1, NotRereading DEF Rereading
    <2>2. c # None
      BY <1>1 DEF StepInv
    <2>3. Rows /\ view = durable /\ native /\ ~queryFailed /\ c \in Sent \cup Registrations
      BY <1>1, <2>1, <2>2 DEF StepInv
    <2> QED
      BY <1>1, <2>3, DurableKept
  <1>3. c # None
    BY <1>2, CommandFields, RegistrationFields
  <1>4. Decision(c) = "commit" <=> Granted(c)
    BY <1>2, CommandFields, RegistrationFields, SeenIsLedger
       DEF Decision, Granted, IsItemCommand, Registered
  <1>5. CASE Granted(c)
    <2>1. todo' = Statements(c)
      BY <1>1, <1>4, <1>5
    <2>2. /\ todo' \in Seq(Tables) /\ todo' # <<>> /\ todo' # <<"check">>
          /\ \A i \in 1 .. Len(todo') : todo'[i] \in Written(c)
          /\ \A i, j \in 1 .. Len(todo') : todo'[i] = todo'[j] => i = j
          /\ \A table \in Written(c) :
               \/ \E i \in 1 .. Len(todo') : todo'[i] = table
               \/ table = "profiles" /\ c.kind = "craft" /\ durable.profiles[c.making.profile] # None
      BY <1>2, <2>1, StatementsWritten
    <2>3. Pending' \subseteq Written(c)
      BY <2>2 DEF Pending
    <2>4. Partly(c, Pending') = durable
      <3> DEFINE rest == Pending'
      <3>1. \A table \in Written(c) \ rest :
              table = "profiles" /\ c.kind = "craft" /\ durable.profiles[c.making.profile] # None
        BY <2>2 DEF Pending
      <3> HIDE DEF rest
      <3>2. rest \subseteq Written(c)
        BY <2>3 DEF rest
      <3>3. Partly(c, rest) = durable
        BY <1>2, <1>5, <3>1, <3>2, PartlyBounds
      <3> QED
        BY <3>3 DEF rest
    <2>5. Granted(c)' /\ \A rest : Partly(c, rest)' = Partly(c, rest)
      BY <1>1, <1>5, DurableKept
    <2>6. IsItemCommand(c) => work' = Ledger!Answer(c, "transaction_failed", None)
      BY <1>1, <1>2, <1>4, <1>5 DEF Prepared, Seen!Answer, Ledger!Answer, Seen!Key, Ledger!Key
    <2>7. Writing'
      BY <1>1, <1>2, <2>2, <2>3, <2>4, <2>5, <2>6 DEF Writing, Granted, IsItemCommand, Ledger!Answer
    <2>8. ~Rereading'
      BY <2>2, NotRereading DEF Rereading
    <2> QED
      BY <1>1, <1>2, <1>3, <2>2, <2>7, <2>8 DEF StepInv, Finished
  <1>6. CASE ~Granted(c)
    <2>1. todo' = <<>> /\ <<>> # <<"check">>
      BY <1>1, <1>4, <1>6
    <2>2. Returned'
      <3>1. CASE IsItemCommand(c)
        <4>1. Decision(c) = Ledger!Verdict(c)
          BY <1>2, <3>1, SeenIsLedger DEF Decision, IsItemCommand
        <4>2. Ledger!Verdict(c) # "commit"
          BY <1>4, <1>6, <4>1
        <4>3. CASE Ledger!Verdict(c) = "replay"
          <5>1. bodyOk' /\ work' = Ledger!Answer(c, "ok", durable.receipts[Ledger!Key(c)].receipt)
            BY <1>1, <1>2, <3>1, <4>1, <4>3
               DEF Prepared, Seen!Answer, Ledger!Answer, Seen!Key, Ledger!Key
          <5> QED
            BY <1>1, <1>2, <3>1, <4>3, <5>1, DurableKept DEF Returned, Prepares, IsItemCommand, Ledger!Answer
        <4>4. CASE Ledger!Verdict(c) # "replay"
          <5>1. ~bodyOk' /\ work' = Ledger!Answer(c, Ledger!Verdict(c), None)
            BY <1>1, <3>1, <4>1, <4>2, <4>4
               DEF Prepared, Seen!Answer, Ledger!Answer, Seen!Key, Ledger!Key
          <5>2. Ledger!Verdict(c)' = Ledger!Verdict(c)
            BY <1>1, DurableKept
          <5> QED
            BY <1>1, <3>1, <4>2, <4>4, <5>1, <5>2 DEF Returned, Prepares, IsItemCommand, Ledger!Answer
        <4> QED
          BY <4>3, <4>4
      <3>2. CASE ~IsItemCommand(c)
        BY <1>1, <1>2, <3>2 DEF Returned, IsItemCommand
      <3> QED
        BY <3>1, <3>2
    <2>3. ~Rereading'
      BY <2>1 DEF Rereading
    <2> QED
      BY <1>1, <1>2, <1>3, <2>1, <2>2, <2>3 DEF StepInv, Finished
  <1> QED
    BY <1>1, <1>5, <1>6

\* A SELECT that failed fixes an answer that the ledger may give for it.
LEMMA CheckFailsStep ==
  ASSUME StepInv, NEW fate \in Fates, CheckFails(fate)
  PROVE  StepInv' /\ UNCHANGED <<durable, reply>>
  <1> PICK c : c = command
    OBVIOUS
  <1>1. /\ todo = <<"check">> /\ view = durable /\ ~bodyOk /\ Rows
        /\ c \in Sent \cup Registrations \cup {None}
        /\ todo # <<>> /\ native
    BY NotRereading DEF CheckFails, StepInv, Rereading
  <1>2. /\ durable' = durable /\ view' = durable /\ ~bodyOk' /\ command' = c /\ reply' = reply
    BY <1>1 DEF CheckFails, Execute
  <1>3. Rows' /\ Ledger!Failures(c)' = Ledger!Failures(c)
    BY <1>1, <1>2, DurableKept
  <1>4. /\ todo' \in {<<>>, <<"read">>, <<"read", "read">>}
        /\ todo' # <<>> => IsItemCommand(c)
        /\ IsItemCommand(c) => \E outcome \in Ledger!Failures(c) : work' = Seen!Answer(c, outcome, None)
    <2>1. CASE FailsWith("query_failed") /\ todo' = <<>>
      BY <2>1 DEF FailsWith, Ledger!Failures
    <2>2. CASE ReadsRevisions(command) /\ FailsWith("query_failed") /\ todo' = <<"read">>
      BY <2>2 DEF FailsWith, Ledger!Failures, ReadsRevisions
    <2>3. CASE /\ IsItemCommand(command) /\ Seen!RereadsCreation(command)
               /\ FailsWith("corrupt_record") /\ todo' \in {<<>>, <<"read", "read">>}
      <3>1. "corrupt_record" \in Ledger!Failures(c)
        BY <1>1, <2>3, SeenIsLedger DEF Ledger!Failures
      <3> QED
        BY <2>3, <3>1 DEF FailsWith
    <2> QED
      BY <2>1, <2>2, <2>3 DEF CheckFails
  <1>5. IsItemCommand(c) => Fails(c)'
    <2>1. \A outcome : Seen!Answer(c, outcome, None) = Ledger!Answer(c, outcome, None)
      BY DEF Seen!Answer, Ledger!Answer, Seen!Key, Ledger!Key
    <2>2. IsItemCommand(c) => \E outcome \in Ledger!Failures(c)' : work' = Ledger!Answer(c, outcome, None)
      BY <1>3, <1>4, <2>1
    <2> QED
      BY <1>2, <2>2 DEF Fails, Ledger!Answer, Ledger!Key
  <1>6. Returned'
    BY <1>2, <1>5 DEF Returned, Prepares, IsItemCommand, Fails
  <1>7. Rereading' => ReadsOn'
    BY <1>2, <1>4, <1>5, NotRereading DEF Rereading, ReadsOn, IsItemCommand, Fails
  <1>8. command' = None => todo' = <<>>
    <2>1. c # None
      BY <1>1 DEF StepInv
    <2> QED
      BY <1>2, <2>1
  <1>9. todo' # <<"check">> /\ (todo' # <<>> => Rereading')
    BY <1>4, NotRereading DEF Rereading
  <1> QED
    BY <1>1, <1>2, <1>3, <1>6, <1>7, <1>8, <1>9 DEF StepInv, Finished

\* The SELECTs after it change nothing, in a transaction or out of one.
LEMMA RereadStep ==
  ASSUME StepInv, NEW fate \in Fates, Reread(fate)
  PROVE  StepInv' /\ UNCHANGED <<durable, reply>>
  <1> PICK c : c = command
    OBVIOUS
  <1>1. Rereading
    <2>1. todo # <<>> /\ Head(todo) = "read"
      BY DEF Reread
    <2>2. Head(<<"check">>) = "check"
      OBVIOUS
    <2>3. Writing => todo \in Seq(Tables)
      BY DEF Writing
    <2>4. ASSUME todo \in Seq(Tables) PROVE FALSE
      <3>1. Head(todo) \in Tables
        BY <2>1, <2>4
      <3> QED
        BY <2>1, <3>1 DEF Tables
    <2> QED
      BY <2>1, <2>2, <2>3, <2>4 DEF StepInv
  <1>2. /\ Rows /\ view = durable /\ IsItemCommand(c) /\ Fails(c)
        /\ c \in Sent \cup Registrations \cup {None} /\ c # None
    <2>1. c # None
      BY <1>1, NotRereading DEF StepInv, Rereading
    <2> QED
      BY <1>1, <2>1 DEF StepInv, ReadsOn
  <1>3. /\ durable' = durable /\ view' = durable /\ command' = c /\ reply' = reply
        /\ work' = work /\ bodyOk' = bodyOk
    BY <1>2 DEF Reread, Execute
  <1>4. todo' \in {<<>>, <<"read">>}
    <2>1. todo' = Rest(fate)
      BY DEF Reread
    <2>2. Tail(<<"read">>) = <<>> /\ Tail(<<"read", "read">>) = <<"read">>
      OBVIOUS
    <2> QED
      BY <1>1, <2>1, <2>2 DEF Rest, Rereading
  <1>5. Rows' /\ Ledger!Failures(c)' = Ledger!Failures(c)
    BY <1>2, <1>3, DurableKept
  <1>6. Fails(c)'
    BY <1>2, <1>3, <1>5 DEF Fails, Ledger!Answer, Ledger!Key
  <1>7. Returned' /\ ReadsOn'
    BY <1>2, <1>3, <1>6 DEF Returned, Prepares, IsItemCommand, Fails, ReadsOn
  <1>8. todo' # <<"check">> /\ (todo' # <<>> => Rereading')
    BY <1>4, NotRereading DEF Rereading
  <1> QED
    BY <1>2, <1>3, <1>5, <1>7, <1>8 DEF StepInv, Finished

\* The statement just executed is no longer pending, and no other one is lost.
LEMMA OneLessPending ==
  ASSUME todo \in Seq(Tables), todo # <<>>, todo' = Tail(todo),
         \A i, j \in 1 .. Len(todo) : todo[i] = todo[j] => i = j
  PROVE  /\ todo' \in Seq(Tables) /\ todo' # <<"check">> /\ Head(todo) \in Pending
         /\ \A i, j \in 1 .. Len(todo') : todo'[i] = todo'[j] => i = j
         /\ Pending' = Pending \ {Head(todo)}
         /\ todo' = <<>> <=> Len(todo) = 1
         /\ todo' = <<>> => Pending' = {}
  <1> PICK s : s = todo
    OBVIOUS
  <1> DEFINE t == Tail(s)
  <1>1. s \in Seq(Tables) /\ s # <<>> /\ todo' = t /\ Head(todo) = Head(s)
    OBVIOUS
  <1>2. Len(s) \in Nat /\ Len(s) # 0
    BY <1>1
  <1>3. Head(s) = s[1]
    BY <1>1
  <1>4. t \in Seq(Tables) /\ Len(t) = Len(s) - 1 /\ \A i \in 1 .. Len(t) : t[i] = s[i + 1]
    BY <1>1, HeadTailProperties
  <1> HIDE DEF t
  <1>5. t # <<"check">>
    <2>1. t = <<"check">> => t[1] \in Tables
      BY <1>4
    <2> QED
      BY <2>1 DEF Tables
  <1>6. \A i, j \in 1 .. Len(t) : t[i] = t[j] => i = j
    <2> SUFFICES ASSUME NEW i \in 1 .. Len(t), NEW j \in 1 .. Len(t), t[i] = t[j] PROVE i = j
      OBVIOUS
    <2>1. i + 1 \in 1 .. Len(s) /\ j + 1 \in 1 .. Len(s)
      BY <1>2, <1>4
    <2>2. s[i + 1] = s[j + 1]
      BY <1>4
    <2>3. i + 1 = j + 1
      BY <2>1, <2>2
    <2> QED
      BY <2>3
  <1>7. {t[i] : i \in 1 .. Len(t)} = {s[i] : i \in 1 .. Len(s)} \ {s[1]}
    <2>1. ASSUME NEW i \in 1 .. Len(t) PROVE t[i] \in {s[j] : j \in 1 .. Len(s)} \ {s[1]}
      <3>1. i + 1 \in 1 .. Len(s) /\ 1 \in 1 .. Len(s) /\ i + 1 # 1
        BY <1>2, <1>4
      <3>2. t[i] = s[i + 1] /\ s[i + 1] # s[1]
        BY <1>4, <3>1
      <3> QED
        BY <3>1, <3>2
    <2>2. ASSUME NEW i \in 1 .. Len(s), s[i] # s[1] PROVE s[i] \in {t[j] : j \in 1 .. Len(t)}
      <3>1. i # 1
        BY <2>2
      <3>2. i - 1 \in 1 .. Len(t) /\ (i - 1) + 1 = i
        BY <1>2, <1>4, <3>1
      <3>3. t[i - 1] = s[i]
        BY <1>4, <3>2
      <3> QED
        BY <3>2, <3>3
    <2>3. {t[i] : i \in 1 .. Len(t)} \subseteq {s[i] : i \in 1 .. Len(s)} \ {s[1]}
      BY <2>1
    <2>4. {s[i] : i \in 1 .. Len(s)} \ {s[1]} \subseteq {t[i] : i \in 1 .. Len(t)}
      <3> SUFFICES ASSUME NEW x \in {s[i] : i \in 1 .. Len(s)}, x # s[1]
                   PROVE  x \in {t[i] : i \in 1 .. Len(t)}
        OBVIOUS
      <3>1. PICK i \in 1 .. Len(s) : x = s[i]
        OBVIOUS
      <3> QED
        BY <2>2, <3>1
    <2> QED
      BY <2>3, <2>4
  <1>8. t = <<>> <=> Len(s) = 1
    BY <1>2, <1>4
  <1>9. s[1] \in {s[i] : i \in 1 .. Len(s)}
    BY <1>2
  <1>10. t = <<>> => {t[i] : i \in 1 .. Len(t)} = {}
    OBVIOUS
  <1>11. Pending = {s[i] : i \in 1 .. Len(s)} /\ Pending' = {t[i] : i \in 1 .. Len(t)}
    BY <1>1 DEF Pending
  <1>12. Pending' = Pending \ {Head(todo)} /\ Head(todo) \in Pending
    BY <1>1, <1>3, <1>7, <1>9, <1>11
  <1>13. todo' = <<>> => Pending' = {}
    BY <1>1, <1>10, <1>11
  <1>14. todo' = <<>> <=> Len(todo) = 1
    BY <1>1, <1>8
  <1>15. \A i, j \in 1 .. Len(todo') : todo'[i] = todo'[j] => i = j
    BY <1>1, <1>6
  <1>16. todo' \in Seq(Tables) /\ todo' # <<"check">>
    BY <1>1, <1>4, <1>5
  <1> QED
    BY <1>12, <1>13, <1>14, <1>15, <1>16

LEMMA WriteIsWriting ==
  ASSUME StepInv, NEW fate, Write(fate)
  PROVE  /\ todo # <<>> /\ native /\ ~queryFailed /\ Writing
         /\ command \in Sent \cup Registrations
  <1>1. todo # <<>> /\ Head(todo) \notin {"check", "read"}
    BY DEF Write
  <1>2. todo # <<"check">> /\ ~Rereading
    BY <1>1 DEF Rereading
  <1> QED
    BY <1>1, <1>2 DEF StepInv

\* A statement that took effect.
LEMMA WriteDone ==
  ASSUME StepInv, Write("done")
  PROVE  StepInv' /\ UNCHANGED <<durable, reply>>
  <1> PICK c : c = command
    OBVIOUS
  <1> PICK table : table = Head(todo)
    OBVIOUS
  <1>1. /\ Rows /\ todo # <<>> /\ native /\ ~queryFailed /\ Writing
        /\ c \in Sent \cup Registrations
    BY WriteIsWriting DEF StepInv
  <1>2. /\ durable' = durable /\ view' = After(table, c) /\ native' /\ ~queryFailed'
        /\ todo' = Tail(todo) /\ bodyOk' = (Len(todo) = 1)
        /\ work' = IF bodyOk' /\ IsItemCommand(c) THEN Seen!Answer(c, "ok", Seen!Receipt(c)) ELSE work
        /\ command' = c /\ reply' = reply
    BY <1>1 DEF Write, Execute, Rest
  <1>3. /\ todo \in Seq(Tables) /\ Pending \subseteq Written(c)
        /\ \A i, j \in 1 .. Len(todo) : todo[i] = todo[j] => i = j
        /\ Granted(c) /\ view = Partly(c, Pending)
        /\ IsItemCommand(c) => work = Ledger!Answer(c, "transaction_failed", None)
    BY <1>1 DEF Writing
  <1>4. /\ todo' \in Seq(Tables) /\ todo' # <<"check">> /\ table \in Pending
        /\ \A i, j \in 1 .. Len(todo') : todo'[i] = todo'[j] => i = j
        /\ Pending' = Pending \ {table}
        /\ todo' = <<>> <=> Len(todo) = 1
        /\ todo' = <<>> => Pending' = {}
    BY <1>1, <1>2, <1>3, OneLessPending
  <1>5. view' = Partly(c, Pending')
    BY <1>1, <1>2, <1>3, <1>4, AfterWrites
  <1>6. c # None
    BY <1>1, CommandFields, RegistrationFields
  <1>7. /\ Rows' /\ Granted(c)' /\ Whole(c)' = Whole(c)
        /\ \A rest : Partly(c, rest)' = Partly(c, rest)
    BY <1>1, <1>2, <1>3, DurableKept
  <1>10. ~Rereading'
    BY <1>4, NotRereading DEF Rereading
  <1>8. CASE todo' # <<>>
    <2>1. work' = work
      BY <1>2, <1>4, <1>8
    <2>2. IsItemCommand(c) => work' = Ledger!Answer(c, "transaction_failed", None)
      BY <1>3, <2>1
    <2>3. Pending' \subseteq Written(c)
      BY <1>3, <1>4
    <2>4. view' = Partly(c, Pending)'
      <3> PICK rest : rest = Pending'
        OBVIOUS
      <3>1. view' = Partly(c, rest)'
        BY <1>5, <1>7
      <3> QED
        BY <3>1 DEF Partly
    <2>5. Writing'
      BY <1>2, <1>4, <1>7, <2>2, <2>3, <2>4
         DEF Writing, IsItemCommand, Written, Ledger!Answer, Ledger!Key, Granted, Partly
    <2> QED
      BY <1>1, <1>2, <1>4, <1>6, <1>7, <1>8, <1>10, <2>5 DEF StepInv, Finished
  <1>9. CASE todo' = <<>>
    <2>1. bodyOk' /\ view' = Whole(c)
      BY <1>1, <1>2, <1>3, <1>4, <1>5, <1>9, PartlyBounds
    <2>2. view' = Whole(c)'
      BY <1>7, <2>1
    <2>3. CASE IsItemCommand(c)
      <3>1. Seen!Answer(c, "ok", Seen!Receipt(c)) = Ledger!Answer(c, "ok", Ledger!Receipt(c))
        BY DEF Seen!Answer, Ledger!Answer, Seen!Key, Ledger!Key, Seen!Receipt, Ledger!Receipt
      <3>2. work' = Ledger!Answer(c, "ok", Ledger!Receipt(c))
        BY <1>2, <2>1, <2>3, <3>1
      <3>3. Ledger!Verdict(c)' = "commit"
        BY <1>7, <2>3 DEF Granted, IsItemCommand
      <3>4. Prepares(c)'
        BY <2>1, <2>2, <3>2, <3>3 DEF Prepares, Ledger!Answer, Ledger!Key, Ledger!Receipt
      <3> QED
        BY <1>1, <1>2, <1>4, <1>6, <1>7, <1>9, <1>10, <2>3, <3>4
           DEF StepInv, Finished, Returned, IsItemCommand, Prepares
    <2>4. CASE ~IsItemCommand(c)
      <3>1. Returned'
        BY <1>2, <1>7, <2>2, <2>4 DEF Returned, IsItemCommand, Granted, Whole
      <3> QED
        BY <1>1, <1>2, <1>4, <1>6, <1>7, <1>9, <1>10, <3>1 DEF StepInv, Finished
    <2> QED
      BY <2>3, <2>4
  <1> QED
    BY <1>2, <1>8, <1>9

\* A statement that failed ends the body.
LEMMA WriteFails ==
  ASSUME StepInv, NEW fate \in Fates, fate # "done", Write(fate)
  PROVE  StepInv' /\ UNCHANGED <<durable, reply>>
  <1> PICK c : c = command
    OBVIOUS
  <1>1. /\ Rows /\ native /\ Writing /\ c \in Sent \cup Registrations
    BY WriteIsWriting DEF StepInv
  <1>2. /\ durable' = durable /\ todo' = <<>> /\ ~bodyOk' /\ command' = c
        /\ reply' = reply /\ todo' # <<"check">> /\ work' = work
    BY <1>1 DEF Write, Execute, Rest
  <1>3. Rows'
    BY <1>1, <1>2, DurableKept
  <1>4. IsItemCommand(c) => work' = Ledger!Answer(c, "transaction_failed", None)
    BY <1>1, <1>2 DEF Writing
  <1>5. Returned'
    <2>1. IsItemCommand(c) => Prepares(command)'
      BY <1>2, <1>4 DEF Prepares, Fails, Ledger!Answer, Ledger!Key, Ledger!Failures
    <2> QED
      BY <1>2, <2>1 DEF Returned, IsItemCommand
  <1>6. c # None /\ ~Rereading'
    BY <1>1, <1>2, CommandFields, RegistrationFields DEF Rereading
  <1> QED
    BY <1>1, <1>2, <1>3, <1>5, <1>6 DEF StepInv, Finished

-----------------------------------------------------------------------------
(* The steps that end a command, and what the caller learns.                *)

\* A step of the ledger of whole commands, or one its callers do not see.
LedgerStep == [Ledger!Next]_<<durable, reply>>

\* A body that returned true is committed whole, or had nothing to commit.
LEMMA CommitStep ==
  ASSUME StepInv, AcknowledgedIsDurable, CommitCommand
  PROVE  StepInv' /\ AcknowledgedIsDurable' /\ LedgerStep
  <1> PICK c : c = command
    OBVIOUS
  <1>1. /\ Rows /\ Returned /\ bodyOk /\ c \in Sent \cup Registrations
    BY DEF CommitCommand, Commit, Commits, Finished, StepInv
  <1>2. /\ durable' = view /\ view' = view /\ todo' = <<>> /\ command' = None /\ todo' # <<"check">>
        /\ reply' = IF IsItemCommand(c) THEN work ELSE reply
    BY DEF CommitCommand, Commit, Finished
  <1>3. view = durable => Rows'
    BY <1>1, <1>2, DurableKept
  <1>4. Granted(c) /\ view = Whole(c) => Rows'
    BY <1>1, <1>2, WholeRows
  <1>5. Rows' => StepInv'
    BY <1>2 DEF StepInv, Finished, Rereading
  <1>6. CASE IsItemCommand(c) /\ Ledger!Verdict(c) = "replay" /\ view = durable
             /\ work = Ledger!Answer(c, "ok", durable.receipts[Ledger!Key(c)].receipt)
    <2>1. c \in Sent
      BY <1>1, <1>6, RegistrationFields
    <2>2. Ledger!Replay(c)
      BY <1>2, <1>6 DEF Ledger!Replay, Ledger!db
    <2>3. durable.receipts[Ledger!Key(c)] # None
      BY <1>6 DEF Ledger!Verdict
    <2>4. AcknowledgedIsDurable'
      BY <1>2, <1>6, <2>3 DEF AcknowledgedIsDurable, Ledger!Answer
    <2> QED
      BY <1>3, <1>5, <1>6, <2>1, <2>2, <2>4 DEF LedgerStep, Ledger!Next
  <1>7. CASE IsItemCommand(c) /\ Ledger!Verdict(c) = "commit" /\ view = Whole(c)
             /\ work = Ledger!Answer(c, "ok", Ledger!Receipt(c))
    <2>1. c \in Sent /\ Granted(c)
      BY <1>1, <1>7, RegistrationFields DEF IsItemCommand, Granted
    <2>2. c.kind \in {"create", "craft", "retire"}
      BY <2>1, CommandFields
    <2>3. durable' = Whole(c) /\ reply' = Ledger!Answer(c, "ok", Ledger!Receipt(c))
      BY <1>2, <1>7
    <2>4. Ledger!Record(c) /\ UNCHANGED durable.definitions
      BY <2>2, <2>3 DEF Ledger!Record, Ledger!OwnerOfCommand, Whole
    <2>5. ASSUME c.kind = "retire" PROVE LedgerStep
      <3>1. Ledger!Retire(c)
        BY <1>7, <2>3, <2>4, <2>5 DEF Ledger!Retire, Whole
      <3> QED
        BY <2>1, <3>1 DEF LedgerStep, Ledger!Next
    <2>6. ASSUME c.kind \in {"create", "craft"} PROVE LedgerStep
      <3>1. Ledger!Create(c)
        BY <1>7, <2>3, <2>4, <2>6 DEF Ledger!Create, Whole
      <3> QED
        BY <2>1, <3>1 DEF LedgerStep, Ledger!Next
    <2>7. /\ durable'.receipts[Ledger!Key(c)] # None
          /\ durable'.receipts[Ledger!Key(c)].receipt = Ledger!Receipt(c)
      BY <1>1, <2>1, <2>3, WholeRows
    <2>8. AcknowledgedIsDurable'
      BY <2>3, <2>7 DEF AcknowledgedIsDurable, Ledger!Answer
    <2> QED
      BY <1>4, <1>5, <1>7, <2>1, <2>2, <2>5, <2>6, <2>8
  <1>8. CASE ~IsItemCommand(c) /\ view = durable
    <2>1. durable' = durable /\ reply' = reply
      BY <1>2, <1>8
    <2> QED
      BY <1>3, <1>5, <1>8, <2>1 DEF LedgerStep, AcknowledgedIsDurable
  <1>9. CASE ~IsItemCommand(c) /\ Granted(c) /\ view = Whole(c)
    <2>1. c \in Registrations /\ c.kind = "define"
      BY <1>1, <1>9, CommandFields, RegistrationFields
    <2>2. durable' = Whole(c) /\ reply' = reply
      BY <1>2, <1>9
    <2>3. c.def \in Definitions /\ c.content \in Contents
      BY <2>1, RegistrationFields
    <2>4. Ledger!RegisterDefinition(c.def, c.content)
      BY <1>9, <2>1, <2>2 DEF Ledger!RegisterDefinition, Whole, Granted
    <2>5. durable'.receipts = durable.receipts
      BY <2>1, <2>2 DEF Whole
    <2>6. AcknowledgedIsDurable'
      BY <2>2, <2>5 DEF AcknowledgedIsDurable
    <2> QED
      BY <1>4, <1>5, <1>9, <2>3, <2>4, <2>6 DEF LedgerStep, Ledger!Next
  <1> QED
    BY <1>1, <1>6, <1>7, <1>8, <1>9 DEF Returned, Prepares, Fails

\* A refused or failed command leaves every table and tells its caller so.
LEMMA UndoStep ==
  ASSUME StepInv, AcknowledgedIsDurable, UndoCommand
  PROVE  StepInv' /\ AcknowledgedIsDurable' /\ LedgerStep
  <1> PICK c : c = command
    OBVIOUS
  <1>1. /\ Rows /\ Returned /\ c \in Sent \cup Registrations
    BY DEF UndoCommand, Finished, StepInv
  <1>2. /\ durable' = durable /\ view' = durable /\ todo' = <<>> /\ command' = None
        /\ todo' # <<"check">> /\ reply' = IF IsItemCommand(c) THEN Unsettled(c) ELSE reply
    BY DEF UndoCommand, Rollback, Finished
  <1>3. Rows'
    BY <1>1, <1>2, DurableKept
  <1>4. StepInv'
    BY <1>2, <1>3 DEF StepInv, Finished, Rereading
  <1>5. CASE IsItemCommand(c)
    <2>1. c \in Sent
      BY <1>1, <1>5, RegistrationFields
    <2>2. Seen!Answer(c, "transaction_failed", None) = Ledger!Answer(c, "transaction_failed", None)
      BY DEF Seen!Answer, Ledger!Answer, Seen!Key, Ledger!Key
    <2>3. \/ \E outcome \in Ledger!Failures(c) : reply' = Ledger!Answer(c, outcome, None)
          \/ /\ Ledger!Verdict(c) \notin {"commit", "replay"}
             /\ reply' = Ledger!Answer(c, Ledger!Verdict(c), None)
      <3>1. CASE work.outcome = "ok"
        BY <1>2, <1>5, <2>2, <3>1 DEF Unsettled, Ledger!Failures
      <3>2. CASE work.outcome # "ok"
        BY <1>1, <1>2, <1>5, <3>2 DEF Unsettled, Returned, Prepares, Fails, Ledger!Answer
      <3> QED
        BY <3>1, <3>2
    <2>4. Ledger!Fail(c) \/ Ledger!Refuse(c)
      BY <1>2, <2>3 DEF Ledger!Fail, Ledger!Refuse, Ledger!db
    <2>5. Ledger!Verdict(c) # "ok"
      BY DEF Ledger!Verdict
    <2>6. AcknowledgedIsDurable'
      BY <2>3, <2>5 DEF AcknowledgedIsDurable, Ledger!Answer, Ledger!Failures
    <2> QED
      BY <1>4, <2>1, <2>4, <2>6 DEF LedgerStep, Ledger!Next
  <1>6. CASE ~IsItemCommand(c)
    BY <1>2, <1>4, <1>6 DEF AcknowledgedIsDurable, LedgerStep
  <1> QED
    BY <1>5, <1>6

\* A BEGIN that failed wrote nothing.
LEMMA StartFailsStep ==
  ASSUME StepInv, AcknowledgedIsDurable, NEW c \in Sent \cup Registrations, StartFails(c)
  PROVE  StepInv' /\ AcknowledgedIsDurable' /\ LedgerStep
  <1>1. /\ durable' = durable /\ view' = view /\ native' = native /\ queryFailed' = queryFailed
        /\ command' = command /\ todo' = todo /\ work' = work /\ bodyOk' = bodyOk
        /\ command = None
        /\ reply' = IF IsItemCommand(c) THEN Seen!Answer(c, "transaction_failed", None) ELSE reply
    BY DEF StartFails, storeVars
  <1>2. Rows'
    BY <1>1, DurableKept DEF StepInv
  <1>3. StepInv'
    BY <1>1, <1>2 DEF StepInv, Finished, Rereading, ReadsOn, Fails
  <1>4. CASE IsItemCommand(c)
    <2>1. c \in Sent
      BY <1>4, RegistrationFields
    <2>2. reply' = Ledger!Answer(c, "transaction_failed", None)
      BY <1>1, <1>4 DEF Seen!Answer, Ledger!Answer, Seen!Key, Ledger!Key
    <2>3. Ledger!Fail(c)
      BY <1>1, <2>2 DEF Ledger!Fail, Ledger!Failures, Ledger!db
    <2>4. AcknowledgedIsDurable'
      BY <2>2 DEF AcknowledgedIsDurable, Ledger!Answer
    <2> QED
      BY <1>3, <2>1, <2>3, <2>4 DEF LedgerStep, Ledger!Next
  <1>5. CASE ~IsItemCommand(c)
    BY <1>1, <1>3, <1>5 DEF AcknowledgedIsDurable, LedgerStep
  <1> QED
    BY <1>4, <1>5

\* A restart finds what was durable, and the answer is gone.
LEMMA CrashStep ==
  ASSUME StepInv, Crash
  PROVE  StepInv' /\ AcknowledgedIsDurable' /\ LedgerStep
  <1>1. /\ durable' = durable /\ view' = durable /\ todo' = <<>> /\ command' = None
        /\ todo' # <<"check">> /\ reply' = None
    BY DEF Crash, CrashStore
  <1>2. Rows'
    BY <1>1, DurableKept DEF StepInv
  <1>3. StepInv'
    BY <1>1, <1>2 DEF StepInv, Finished, Rereading
  <1>4. LedgerStep
    <2>1. CASE reply = None
      BY <1>1, <2>1 DEF LedgerStep
    <2>2. CASE reply # None
      <3>1. Ledger!Restart
        BY <1>1, <2>2 DEF Ledger!Restart, Ledger!db
      <3> QED
        BY <3>1 DEF LedgerStep, Ledger!Next
    <2> QED
      BY <2>1, <2>2
  <1> QED
    BY <1>1, <1>3, <1>4 DEF AcknowledgedIsDurable

-----------------------------------------------------------------------------
(* The theorems.                                                            *)

LEMMA EveryStep ==
  ASSUME StepInv, AcknowledgedIsDurable, [Next]_vars
  PROVE  StepInv' /\ AcknowledgedIsDurable' /\ LedgerStep
  <1>1. UNCHANGED <<durable, reply>> => AcknowledgedIsDurable' /\ LedgerStep
    BY DEF AcknowledgedIsDurable, LedgerStep
  <1>2. CASE \E c \in Sent \cup Registrations : Start(c)
    BY <1>1, <1>2, StartStep
  <1>3. CASE \E c \in Sent \cup Registrations : StartFails(c)
    BY <1>3, StartFailsStep
  <1>4. CASE Check
    BY <1>1, <1>4, CheckStep
  <1>5. CASE \E fate \in Fates : CheckFails(fate)
    BY <1>1, <1>5, CheckFailsStep
  <1>11. CASE \E fate \in Fates : Reread(fate)
    BY <1>1, <1>11, RereadStep
  <1>6. CASE \E fate \in Fates : Write(fate)
    BY <1>1, <1>6, WriteDone, WriteFails
  <1>7. CASE CommitCommand
    BY <1>7, CommitStep
  <1>8. CASE UndoCommand
    BY <1>8, UndoStep
  <1>9. CASE Crash
    BY <1>9, CrashStep
  <1>10. CASE UNCHANGED vars
    <2>1. /\ durable' = durable /\ view' = view /\ native' = native /\ queryFailed' = queryFailed
          /\ command' = command /\ todo' = todo /\ work' = work /\ bodyOk' = bodyOk /\ reply' = reply
      BY <1>10 DEF vars, storeVars
    <2>2. Rows' /\ (Writing => Writing') /\ (Returned => Returned') /\ (ReadsOn => ReadsOn')
      <3> PICK c : c = command
        OBVIOUS
      <3>1. /\ Rows' /\ Ledger!Verdict(c)' = Ledger!Verdict(c) /\ Granted(c)' = Granted(c)
            /\ Ledger!Failures(c)' = Ledger!Failures(c)
            /\ Whole(c)' = Whole(c) /\ \A rest : Partly(c, rest)' = Partly(c, rest)
        BY <2>1, DurableKept DEF StepInv
      <3>2. Pending' = Pending
        BY <2>1 DEF Pending
      <3>3. Writing => Writing'
        BY <2>1, <3>1, <3>2 DEF Writing, Granted, Partly, IsItemCommand, Written, Ledger!Answer, Ledger!Key
      <3>4. (Prepares(c) => Prepares(c)') /\ (ReadsOn => ReadsOn')
        BY <2>1, <3>1 DEF Prepares, Fails, ReadsOn, IsItemCommand, Ledger!Answer, Ledger!Key, Ledger!Receipt
      <3>5. Returned => Returned'
        BY <2>1, <3>1, <3>4 DEF Returned, IsItemCommand, Granted, Whole, Prepares
      <3> QED
        BY <3>1, <3>3, <3>4, <3>5
    <2>3. StepInv'
      BY <2>1, <2>2 DEF StepInv, Finished, Rereading
    <2> QED
      BY <1>1, <2>1, <2>3
  <1> QED
    BY <1>2, <1>3, <1>4, <1>5, <1>6, <1>7, <1>8, <1>9, <1>10, <1>11 DEF Next

\* Between any two statements, what the connection reads is what a restart would find
\* with the statements of the current command that took effect, whatever failed before
\* (sqlite_store.gd: transaction).
THEOREM StepsKeepTheLedger == Spec => [](StepInv /\ AcknowledgedIsDurable)
  <1>1. Init => StepInv /\ AcknowledgedIsDurable
    BY StepInit
  <1>2. StepInv /\ AcknowledgedIsDurable /\ [Next]_vars => (StepInv /\ AcknowledgedIsDurable)'
    BY EveryStep
  <1> QED
    BY <1>1, <1>2, PTL DEF Spec

\* A caller told "ok" by create_instance, create_instance_with_properties or
\* retire_instance is told of a receipt that a process started after any crash finds.
THEOREM AcknowledgedIsDurableHolds == Spec => []AcknowledgedIsDurable
  BY StepsKeepTheLedger, PTL

\* Statement by statement, with failing statements, BEGINs and COMMITs and with crashes,
\* the repository does what the ledger of whole commands does: each command takes
\* effect at its COMMIT, entirely, or not at all.
THEOREM ImplementsLedgerHolds == Spec => ImplementsLedger
  <1>1. Init => Ledger!Init
    BY StepInit
  <1>2. StepInv /\ AcknowledgedIsDurable /\ [Next]_vars => LedgerStep
    BY EveryStep
  <1>3. Spec => Ledger!Init /\ [][Ledger!Next]_<<durable, reply>>
    BY <1>1, <1>2, StepsKeepTheLedger, PTL DEF Spec, LedgerStep
  <1> QED
    BY <1>3 DEF ImplementsLedger
=============================================================================
