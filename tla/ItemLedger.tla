------------------------------ MODULE ItemLedger ------------------------------
(***************************************************************************)
(* The typed item ledger (src/server/item_ledger_repository.gd, ADR 0015)  *)
(* at the granularity its callers see: one committed SQLite transaction    *)
(* per command.  ItemLedgerSteps refines it to single SQL statements,      *)
(* statement errors and crashes.                                           *)
(*                                                                         *)
(* A caller may send any command at any time, with any expected revisions: *)
(* late, repeated and reordered commands need no network of their own.     *)
(*                                                                         *)
(* A definition named X_Fault is X with one plausible bug.  Nothing uses   *)
(* it: it records which slip in the code the properties below would catch. *)
(***************************************************************************)
EXTENDS Integers

CONSTANTS
  Actors,       \* actor_character_id values
  Operations,   \* operation_id values: with an actor, the idempotency key
  Items,        \* instance_id values (GUIDs)
  Definitions,  \* (definition_id, definition_revision) pairs
  Contents,     \* what a definition may say
  Owners,       \* (owner_kind, owner_id) pairs
  Addresses,    \* equipped slots and loot positions
  OwnerOf,      \* the owner an address belongs to
  Fits,         \* the <<content, address>> pairs ItemInstance accepts
  Profiles,     \* (profile_id, profile_revision) pairs
  Authored,     \* authored profile contents
  Inputs,       \* creation inputs a profile derives properties from
  Reasons,      \* terminal reasons
  Ticks,        \* acquisition server_tick values
  MaxRevision,  \* 9223372036854775807 in the code
  Sent,         \* the commands callers may send, out of all well-formed ones
  None          \* an absent row, a NULL column, no answer yet

ASSUME OwnerOfAssumption == OwnerOf \in [Addresses -> Owners]
ASSUME MaxRevisionAssumption == MaxRevision \in Nat
ASSUME FitsAssumption == Fits \subseteq Contents \X Addresses

VARIABLES
  definitions,  \* canon_item_definitions
  profiles,     \* canon_item_creation_profiles
  instances,    \* canon_item_instances
  properties,   \* canon_item_creation_properties
  ownerRev,     \* canon_item_owners: 0 stands for no row
  locRev,       \* canon_item_locations: 0 stands for no row
  receipts,     \* canon_item_operations
  reply         \* the answer to the last item command

db == <<definitions, profiles, instances, properties, ownerRev, locRev, receipts>>
vars == <<db, reply>>

-----------------------------------------------------------------------------
(* Rows and commands.                                                       *)

Revisions == 0 .. MaxRevision
Keys == Actors \X Operations

\* The derived creation properties: the profile pin and what was derived from.
Making == [profile: Profiles, content: Authored, inputs: Inputs]

\* A command.  "craft" is create_instance_with_properties.  def, addr, acq and
\* tick describe the snapshot the caller sends: acq is acquisition.operation_id.
CommandsAt(ticks) ==
  [kind: {"create"}, actor: Actors, op: Operations, item: Items, def: Definitions,
   addr: Addresses, acq: Operations, tick: ticks, owner: Revisions, loc: Revisions,
   making: {None}, reason: {None}]
  \cup
  [kind: {"craft"}, actor: Actors, op: Operations, item: Items, def: Definitions,
   addr: Addresses, acq: Operations, tick: ticks, owner: Revisions, loc: Revisions,
   making: Making, reason: {None}]
  \cup
  [kind: {"retire"}, actor: Actors, op: Operations, item: Items, def: Definitions,
   addr: Addresses, acq: Operations, tick: ticks, owner: Revisions, loc: Revisions,
   making: {None}, reason: Reasons]
Commands == CommandsAt(Ticks)

\* What a fingerprint keeps of a command: all but the acquisition tick.
Intents == CommandsAt({None})

ASSUME SentAssumption == Sent \subseteq Commands

Instance ==
  [def: Definitions, acq: Operations, tick: Ticks, rev: {0, 1},
   addr: Addresses \cup {None}, terminal: Reasons \cup {None}]

\* A row of canon_item_operations: the receipt and what its fingerprint pins.
ReceiptRow ==
  [kind: {"create", "retire"}, item: Items, rev: {0, 1},
   owner: Revisions, loc: Revisions]

Operation ==
  [receipt: ReceiptRow,
   fingerprint: [intent: Intents, definition: Contents]]

\* None is not a value of any column.
ASSUME NoneAssumption ==
  /\ None \notin Contents /\ None \notin Authored /\ None \notin Reasons
  /\ None \notin Addresses
  /\ None \notin Instance /\ None \notin Operation /\ None \notin Making

Key(c) == <<c.actor, c.op>>
OwnerOfCommand(c) == OwnerOf[c.addr]

\* The active row a creation writes and a retirement expects to find.
Snapshot(c) ==
  [def |-> c.def, acq |-> c.acq, tick |-> c.tick, rev |-> 0,
   addr |-> c.addr, terminal |-> None]

\* What the hash pins: the whole intent and the pinned definition, but not the
\* acquisition tick, so that a retry at a later tick is the same intent.
Fingerprint_KeepsTick(c) == [intent |-> c, definition |-> definitions[c.def]]
Fingerprint_DropsRevisions(c) ==
  [intent |-> [c EXCEPT !.tick = None, !.owner = 0, !.loc = 0],
   definition |-> definitions[c.def]]
Fingerprint(c) ==
  [intent |-> [c EXCEPT !.tick = None], definition |-> definitions[c.def]]

\* The receipt a command earns, a function of the intent alone.
Receipt(c) ==
  [kind |-> IF c.kind = "retire" THEN "retire" ELSE "create",
   item |-> c.item,
   rev |-> IF c.kind = "retire" THEN 1 ELSE 0,
   owner |-> c.owner + 1,
   loc |-> c.loc + 1]

-----------------------------------------------------------------------------
(* The checks, in the order the code makes them.                            *)

Live(i) == instances[i] # None /\ instances[i].terminal = None

Occupied_Never(a) == FALSE
Occupied(a) == \E i \in Items : Live(i) /\ instances[i].addr = a

ProfileConflict(c) ==
  /\ c.kind = "craft"
  /\ profiles[c.making.profile] \notin {None, c.making.content}

Pinned(c) == definitions[c.def] # None /\ <<definitions[c.def], c.addr>> \in Fits

RevisionsCurrent_OwnerOnly(c) == ownerRev[OwnerOfCommand(c)] = c.owner
RevisionsCurrent(c) ==
  ownerRev[OwnerOfCommand(c)] = c.owner /\ locRev[c.addr] = c.loc

\* get_instance and get_creation_properties read rows back through their pins.
Readable(i) ==
  /\ definitions[instances[i].def] # None
  /\ Live(i) => <<definitions[instances[i].def], instances[i].addr>> \in Fits
  /\ properties[i] # None =>
       profiles[properties[i].profile] = properties[i].content

\* A replay must find its receipt, and for "craft" also the identity and the
\* properties it committed, unchanged by the item's later life.
ReceiptRetained(c) == receipts[Key(c)].receipt = Receipt(c)
CreationRetained(c) ==
  /\ instances[c.item] # None
  /\ Readable(c.item)
  /\ instances[c.item].def = c.def
  /\ instances[c.item].acq = c.acq
  /\ properties[c.item] = c.making
Retained(c) == ReceiptRetained(c) /\ (c.kind = "craft" => CreationRetained(c))

SnapshotCurrent_AnyLive(c) == Live(c.item)
SnapshotCurrent(c) == instances[c.item] = Snapshot(c)

Overflows_Never(c) == FALSE
Overflows(c) == c.owner = MaxRevision \/ c.loc = MaxRevision

\* "commit" and "replay" end in COMMIT, every other verdict in ROLLBACK.
Verdict(c) ==
  LET committed == receipts[Key(c)] IN
  IF ProfileConflict(c) THEN "profile_conflict"
  ELSE IF ~Pinned(c) THEN "unpinned_definition"
  ELSE IF c.kind # "retire" /\ c.acq # c.op THEN "invalid_creation"
  ELSE IF committed # None /\ committed.fingerprint # Fingerprint(c)
       THEN "operation_conflict"
  ELSE IF committed # None
       THEN IF Retained(c) THEN "replay" ELSE "corrupt_record"
  ELSE IF c.kind # "retire" /\ instances[c.item] # None THEN "identity_exists"
  ELSE IF c.kind = "retire" /\ instances[c.item] = None THEN "not_found"
  ELSE IF c.kind = "retire" /\ ~SnapshotCurrent(c) THEN "stale_instance"
  ELSE IF ~RevisionsCurrent(c) THEN "stale_revision"
  ELSE IF Overflows(c) THEN "revision_overflow"
  ELSE IF c.kind # "retire" /\ Occupied(c.addr) THEN "location_occupied"
  ELSE "commit"

Answer(c, outcome, receipt) ==
  [key |-> Key(c), outcome |-> outcome, receipt |-> receipt]

-----------------------------------------------------------------------------
(* Commands.                                                                *)

RegisterDefinition_Overwrites(d, content) ==
  /\ definitions' = [definitions EXCEPT ![d] = content]
  /\ UNCHANGED <<profiles, instances, properties, ownerRev, locRev, receipts, reply>>

\* register_definition: the first content wins; the same content again is "ok",
\* another one "definition_conflict", and neither changes a row.
RegisterDefinition(d, content) ==
  /\ definitions[d] = None
  /\ definitions' = [definitions EXCEPT ![d] = content]
  /\ UNCHANGED <<profiles, instances, properties, ownerRev, locRev, receipts, reply>>

\* The statements a committed command executes on the revision tables and the
\* receipt table.
Record_ForgetsLocation(c) ==
  /\ ownerRev' = [ownerRev EXCEPT ![OwnerOfCommand(c)] = c.owner + 1]
  /\ UNCHANGED locRev
  /\ receipts' = [receipts EXCEPT ![Key(c)] =
       [receipt |-> Receipt(c), fingerprint |-> Fingerprint(c)]]
  /\ reply' = Answer(c, "ok", Receipt(c))
Record(c) ==
  /\ ownerRev' = [ownerRev EXCEPT ![OwnerOfCommand(c)] = c.owner + 1]
  /\ locRev' = [locRev EXCEPT ![c.addr] = c.loc + 1]
  /\ receipts' = [receipts EXCEPT ![Key(c)] =
       [receipt |-> Receipt(c), fingerprint |-> Fingerprint(c)]]
  /\ reply' = Answer(c, "ok", Receipt(c))

\* create_instance and create_instance_with_properties.
Create(c) ==
  /\ c.kind \in {"create", "craft"}
  /\ Verdict(c) = "commit"
  /\ instances' = [instances EXCEPT ![c.item] = Snapshot(c)]
  /\ profiles' = IF c.kind = "craft"
                 THEN [profiles EXCEPT ![c.making.profile] = c.making.content]
                 ELSE profiles
  /\ properties' = IF c.kind = "craft"
                   THEN [properties EXCEPT ![c.item] = c.making]
                   ELSE properties
  /\ Record(c)
  /\ UNCHANGED definitions

\* The row retire_instance leaves: a tombstone with no owner and no address.
RetiredRow_Deleted(c) == None
RetiredRow(c) ==
  LET row == instances[c.item] IN
  [def |-> row.def, acq |-> row.acq, tick |-> row.tick,
   rev |-> 1, addr |-> None, terminal |-> c.reason]

Retire(c) ==
  /\ c.kind = "retire"
  /\ Verdict(c) = "commit"
  /\ instances' = [instances EXCEPT ![c.item] = RetiredRow(c)]
  /\ Record(c)
  /\ UNCHANGED <<definitions, profiles, properties>>

\* A committed command sent again gets the retained receipt.
Replay(c) ==
  /\ Verdict(c) = "replay"
  /\ reply' = Answer(c, "ok", receipts[Key(c)].receipt)
  /\ UNCHANGED db

Refuse(c) ==
  /\ Verdict(c) \notin {"commit", "replay"}
  /\ reply' = Answer(c, Verdict(c), None)
  /\ UNCHANGED db

\* A "craft" that finds its receipt reads the creation back.
RereadsCreation(c) ==
  c.kind = "craft" /\ Verdict(c) \in {"replay", "corrupt_record"} /\ ReceiptRetained(c)

\* A statement, BEGIN or COMMIT failed: the whole command is undone.  A creation that
\* cannot be read back is answered like one that does not match.
Failures(c) ==
  {"transaction_failed", "query_failed"}
    \cup {outcome \in {"corrupt_record"} : RereadsCreation(c)}
Fail(c) ==
  /\ \E outcome \in Failures(c) : reply' = Answer(c, outcome, None)
  /\ UNCHANGED db

\* The process ends and starts again: the answer, if any, never arrived.
Restart ==
  /\ reply # None
  /\ reply' = None
  /\ UNCHANGED db

Init ==
  /\ definitions = [d \in Definitions |-> None]
  /\ profiles = [p \in Profiles |-> None]
  /\ instances = [i \in Items |-> None]
  /\ properties = [i \in Items |-> None]
  /\ ownerRev = [o \in Owners |-> 0]
  /\ locRev = [a \in Addresses |-> 0]
  /\ receipts = [k \in Keys |-> None]
  /\ reply = None

Next ==
  \/ \E d \in Definitions, content \in Contents : RegisterDefinition(d, content)
  \/ \E c \in Sent : Create(c)
  \/ \E c \in Sent : Retire(c)
  \/ \E c \in Sent : Replay(c)
  \/ \E c \in Sent : Refuse(c)
  \/ \E c \in Sent : Fail(c)
  \/ Restart

Spec == Init /\ [][Next]_vars

-----------------------------------------------------------------------------
(* Properties.                                                              *)

Outcomes ==
  {"ok", "transaction_failed", "query_failed", "profile_conflict", "unpinned_definition",
   "invalid_creation", "operation_conflict", "corrupt_record", "identity_exists",
   "not_found", "stale_instance", "stale_revision", "revision_overflow",
   "location_occupied"}

\* Every table row and every answer has the shape the schema gives it.
TypeOK ==
  /\ definitions \in [Definitions -> Contents \cup {None}]
  /\ profiles \in [Profiles -> Authored \cup {None}]
  /\ instances \in [Items -> Instance \cup {None}]
  /\ properties \in [Items -> Making \cup {None}]
  /\ ownerRev \in [Owners -> Revisions]
  /\ locRev \in [Addresses -> Revisions]
  /\ receipts \in [Keys -> Operation \cup {None}]
  /\ reply \in [key: Keys, outcome: Outcomes, receipt: ReceiptRow \cup {None}]
               \cup {None}

Committed == {k \in Keys : receipts[k] # None}
Intent(k) == receipts[k].fingerprint.intent

\* Two active items never share an equipped slot or a loot position, whatever
\* commands raced for it.
OneItemPerAddress ==
  \A i, j \in Items :
    Live(i) /\ Live(j) /\ instances[i].addr = instances[j].addr => i = j

\* The receipts of an owner carry the revisions 1..n once each, n being the
\* owner's current revision, and so do those of an address: the ledger is one
\* serial history per owner and per address, without a gap or a fork.
SerialHistories ==
  /\ \A o \in Owners :
       LET ks == {k \in Committed : OwnerOf[Intent(k).addr] = o} IN
       /\ {receipts[k].receipt.owner : k \in ks} = 1 .. ownerRev[o]
       /\ \A k, m \in ks : receipts[k].receipt.owner = receipts[m].receipt.owner => k = m
  /\ \A a \in Addresses :
       LET ks == {k \in Committed : Intent(k).addr = a} IN
       /\ {receipts[k].receipt.loc : k \in ks} = 1 .. locRev[a]
       /\ \A k, m \in ks : receipts[k].receipt.loc = receipts[m].receipt.loc => k = m

\* The ledger is serial in this way, also where the revisions reach the last one that a
\* receipt, a command and a column can carry (item_ledger_repository.gd:538-539): no
\* command is committed beyond it.
LedgerSerial ==
  /\ SerialHistories
  /\ \A k \in Committed :
       receipts[k].receipt.owner <= MaxRevision /\ receipts[k].receipt.loc <= MaxRevision

\* The history of an address alternates: odd revisions put an item there, the
\* next even one retires that very item, and the address is occupied exactly
\* while its revision is odd.
AddressAlternates ==
  /\ \A a \in Addresses : Occupied(a) <=> locRev[a] % 2 = 1
  /\ \A k \in Committed : receipts[k].receipt.kind = "create" <=> receipts[k].receipt.loc % 2 = 1
  /\ \A k \in Committed : receipts[k].receipt.kind = "retire" =>
       \E m \in Committed :
         /\ receipts[m].receipt.kind = "create"
         /\ receipts[m].receipt.item = receipts[k].receipt.item
         /\ Intent(m).addr = Intent(k).addr
         /\ receipts[m].receipt.loc + 1 = receipts[k].receipt.loc

\* Rows and receipts tell one story: an item has a row exactly when one receipt
\* created it, and a tombstone exactly when one receipt retired it.
RowsMatchReceipts ==
  \A i \in Items :
    LET of(kind) == {k \in Committed : receipts[k].receipt.item = i
                                     /\ receipts[k].receipt.kind = kind}
    IN /\ instances[i] # None <=> \E k \in of("create") : of("create") = {k}
       /\ instances[i] = None => of("retire") = {}
       /\ instances[i] # None =>
            (instances[i].terminal # None <=> \E k \in of("retire") : of("retire") = {k})

\* A committed command that is sent again, at whatever tick, is answered with
\* its retained receipt, however the item, its revisions and the authored
\* tables moved on since: never a conflict and never "corrupt_record".
RetriesReplay ==
  \A k \in Committed : \A t \in Ticks : Verdict([Intent(k) EXCEPT !.tick = t]) = "replay"

\* No step changes or removes a receipt or a pinned row, moves a revision back,
\* alters an item's identity, or gives a retired item a life again.
LedgerAppendOnly ==
  [][ /\ \A k \in Keys : receipts[k] # None => receipts'[k] = receipts[k]
      /\ \A d \in Definitions : definitions[d] # None => definitions'[d] = definitions[d]
      /\ \A p \in Profiles : profiles[p] # None => profiles'[p] = profiles[p]
      /\ \A o \in Owners : ownerRev'[o] >= ownerRev[o]
      /\ \A a \in Addresses : locRev'[a] >= locRev[a]
      /\ \A i \in Items : instances[i] # None =>
           /\ instances'[i] # None
           /\ instances'[i].def = instances[i].def
           /\ instances'[i].acq = instances[i].acq
           /\ ~Live(i) => instances'[i] = instances[i] ]_vars
=============================================================================
