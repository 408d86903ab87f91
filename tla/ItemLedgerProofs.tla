--------------------------- MODULE ItemLedgerProofs ---------------------------
(***************************************************************************)
(* Theorems of ItemLedger for every set of actors, items, addresses,       *)
(* definitions, commands and every maximal revision.                       *)
(***************************************************************************)
EXTENDS ItemLedger, TLAPS

-----------------------------------------------------------------------------
(* Lemmas about commands and verdicts.                                      *)

\* The fields of a command are what the code validated them to be.
LEMMA CommandFields ==
  ASSUME NEW c \in Commands
  PROVE  /\ c.kind \in {"create", "craft", "retire"}
         /\ c.actor \in Actors /\ c.op \in Operations /\ c.item \in Items
         /\ c.def \in Definitions /\ c.addr \in Addresses /\ c.acq \in Operations
         /\ c.tick \in Ticks /\ c.owner \in Revisions /\ c.loc \in Revisions
         /\ c.kind = "craft" => c.making \in Making
         /\ c.kind = "retire" => c.reason \in Reasons
         /\ Key(c) \in Keys
         /\ OwnerOfCommand(c) \in Owners
  BY OwnerOfAssumption DEF Commands, CommandsAt, Key, Keys, OwnerOfCommand

\* A fingerprint keeps an intent.
LEMMA IntentOfCommand ==
  ASSUME NEW c \in Commands
  PROVE  /\ [c EXCEPT !.tick = None] \in Intents
         /\ [c EXCEPT !.tick = None].addr = c.addr
  BY DEF Commands, CommandsAt, Intents

\* What the checks before a commit established.
LEMMA CommitVerdict ==
  ASSUME NEW c, Verdict(c) = "commit"
  PROVE  /\ ~ProfileConflict(c)
         /\ Pinned(c)
         /\ receipts[Key(c)] = None
         /\ c.kind # "retire" => instances[c.item] = None /\ ~Occupied(c.addr)
         /\ c.kind = "retire" => SnapshotCurrent(c)
         /\ RevisionsCurrent(c)
         /\ c.owner # MaxRevision /\ c.loc # MaxRevision
  BY DEF Verdict, Overflows

\* The next revision stays in range: the overflow check comes before it.
LEMMA NextRevision ==
  ASSUME NEW c \in Commands, c.owner # MaxRevision, c.loc # MaxRevision
  PROVE  c.owner + 1 \in Revisions /\ c.loc + 1 \in Revisions
  BY CommandFields, MaxRevisionAssumption DEF Revisions

-----------------------------------------------------------------------------
(* Types.                                                                   *)

\* The row a creation writes.
LEMMA SnapshotType ==
  ASSUME NEW c \in Commands
  PROVE  Snapshot(c) \in Instance
  BY CommandFields DEF Snapshot, Instance

\* The tombstone a retirement leaves.
LEMMA RetiredRowType ==
  ASSUME NEW c \in Commands, c.kind = "retire", SnapshotCurrent(c)
  PROVE  /\ RetiredRow(c) \in Instance
         /\ RetiredRow(c).terminal = c.reason /\ RetiredRow(c).addr = None
  <1>1. RetiredRow(c) = [def |-> c.def, acq |-> c.acq, tick |-> c.tick, rev |-> 1,
                         addr |-> None, terminal |-> c.reason]
    BY DEF RetiredRow, SnapshotCurrent, Snapshot
  <1> QED
    BY <1>1, CommandFields DEF Instance

\* The receipt row a commit writes.
LEMMA ReceiptType ==
  ASSUME NEW c \in Commands, c.owner # MaxRevision, c.loc # MaxRevision
  PROVE  Receipt(c) \in ReceiptRow
  BY CommandFields, NextRevision DEF Receipt, ReceiptRow

LEMMA OperationType ==
  ASSUME NEW c \in Commands, c.owner # MaxRevision, c.loc # MaxRevision,
         TypeOK, Pinned(c)
  PROVE  [receipt |-> Receipt(c), fingerprint |-> Fingerprint(c)] \in Operation
  <1>1. definitions[c.def] \in Contents
    BY CommandFields DEF TypeOK, Pinned
  <1>2. Fingerprint(c) \in [intent: Intents, definition: Contents]
    BY <1>1, IntentOfCommand DEF Fingerprint
  <1> QED
    BY <1>2, ReceiptType DEF Operation

\* What a committed command leaves in the revision and receipt tables.
LEMMA RecordTypes ==
  ASSUME NEW c \in Commands, TypeOK, Verdict(c) = "commit", Record(c)
  PROVE  /\ ownerRev' \in [Owners -> Revisions]
         /\ locRev' \in [Addresses -> Revisions]
         /\ receipts' \in [Keys -> Operation \cup {None}]
         /\ reply' \in [key: Keys, outcome: Outcomes, receipt: ReceiptRow \cup {None}]
  <1>1. /\ Pinned(c) /\ c.owner # MaxRevision /\ c.loc # MaxRevision
    BY CommitVerdict
  <1>2. /\ Key(c) \in Keys /\ OwnerOfCommand(c) \in Owners /\ c.addr \in Addresses
    BY CommandFields
  <1>3. c.owner + 1 \in Revisions /\ c.loc + 1 \in Revisions
    BY <1>1, NextRevision
  <1>4. [receipt |-> Receipt(c), fingerprint |-> Fingerprint(c)] \in Operation
    BY <1>1, OperationType
  <1>5. Receipt(c) \in ReceiptRow
    BY <1>1, ReceiptType
  <1>6. ownerRev' \in [Owners -> Revisions] /\ locRev' \in [Addresses -> Revisions]
    BY <1>2, <1>3 DEF TypeOK, Record
  <1>7. receipts' \in [Keys -> Operation \cup {None}]
    BY <1>2, <1>4 DEF TypeOK, Record
  <1>8. reply' \in [key: Keys, outcome: Outcomes, receipt: ReceiptRow \cup {None}]
    BY <1>2, <1>5 DEF Record, Answer, Outcomes
  <1> QED
    BY <1>6, <1>7, <1>8

\* Every verdict is an outcome callers know, or ends in COMMIT.
LEMMA VerdictOutcome ==
  ASSUME NEW c, Verdict(c) \notin {"commit", "replay"}
  PROVE  Verdict(c) \in Outcomes
  BY DEF Verdict, Outcomes

LEMMA TypeInit == Init => TypeOK
  BY MaxRevisionAssumption DEF Init, TypeOK, Revisions

LEMMA TypeNext == TypeOK /\ [Next]_vars => TypeOK'
  <1> SUFFICES ASSUME TypeOK, [Next]_vars PROVE TypeOK'
    OBVIOUS
  <1>1. ASSUME NEW d \in Definitions, NEW content \in Contents,
               RegisterDefinition(d, content)
        PROVE  TypeOK'
    BY <1>1 DEF RegisterDefinition, TypeOK
  <1>2. ASSUME NEW c \in Sent, Create(c) PROVE TypeOK'
    <2>1. c \in Commands /\ Verdict(c) = "commit" /\ Record(c)
      BY <1>2, SentAssumption DEF Create
    <2>2. c.item \in Items /\ (c.kind = "craft" => c.making \in Making)
      BY <2>1, CommandFields
    <2>3. instances' \in [Items -> Instance \cup {None}]
      BY <1>2, <2>1, <2>2, SnapshotType DEF Create, TypeOK
    <2>4. profiles' \in [Profiles -> Authored \cup {None}]
      <3>1. c.kind = "craft" => c.making.profile \in Profiles /\ c.making.content \in Authored
        BY <2>2 DEF Making
      <3> QED
        BY <1>2, <3>1 DEF Create, TypeOK
    <2>5. properties' \in [Items -> Making \cup {None}]
      BY <1>2, <2>2 DEF Create, TypeOK
    <2> QED
      BY <1>2, <2>1, <2>3, <2>4, <2>5, RecordTypes DEF Create, TypeOK
  <1>3. ASSUME NEW c \in Sent, Retire(c) PROVE TypeOK'
    <2>1. c \in Commands /\ Verdict(c) = "commit" /\ Record(c) /\ c.kind = "retire"
      BY <1>3, SentAssumption DEF Retire
    <2>2. c.item \in Items /\ SnapshotCurrent(c)
      BY <2>1, CommandFields, CommitVerdict
    <2>3. instances' \in [Items -> Instance \cup {None}]
      BY <1>3, <2>1, <2>2, RetiredRowType DEF Retire, TypeOK
    <2> QED
      BY <1>3, <2>1, <2>3, RecordTypes DEF Retire, TypeOK
  <1>4. ASSUME NEW c \in Sent, Replay(c) PROVE TypeOK'
    <2>1. c \in Commands /\ Key(c) \in Keys
      BY SentAssumption, CommandFields
    <2>2. receipts[Key(c)] # None
      BY <1>4 DEF Replay, Verdict
    <2>3. receipts[Key(c)].receipt \in ReceiptRow
      BY <2>1, <2>2 DEF TypeOK, Operation
    <2>4. reply' \in [key: Keys, outcome: Outcomes, receipt: ReceiptRow \cup {None}]
      BY <1>4, <2>1, <2>3 DEF Replay, Answer, Outcomes
    <2> QED
      BY <1>4, <2>4 DEF Replay, TypeOK, db
  <1>5. ASSUME NEW c \in Sent, Refuse(c) PROVE TypeOK'
    <2>1. Key(c) \in Keys
      BY SentAssumption, CommandFields
    <2>2. reply' \in [key: Keys, outcome: Outcomes, receipt: ReceiptRow \cup {None}]
      BY <1>5, <2>1, VerdictOutcome DEF Refuse, Answer
    <2> QED
      BY <1>5, <2>2 DEF Refuse, TypeOK, db
  <1>6. ASSUME NEW c \in Sent, Fail(c) PROVE TypeOK'
    <2>1. Key(c) \in Keys
      BY SentAssumption, CommandFields
    <2>2. reply' \in [key: Keys, outcome: Outcomes, receipt: ReceiptRow \cup {None}]
      BY <1>6, <2>1 DEF Fail, Failures, Answer, Outcomes
    <2> QED
      BY <1>6, <2>2 DEF Fail, TypeOK, db
  <1>7. CASE Restart
    BY <1>7 DEF Restart, TypeOK, db
  <1>8. CASE UNCHANGED vars
    BY <1>8 DEF TypeOK, vars, db
  <1> QED
    BY <1>1, <1>2, <1>3, <1>4, <1>5, <1>6, <1>7, <1>8 DEF Next

\* Every reachable table row and every answer has the shape of its schema.
THEOREM TypeCorrect == Spec => []TypeOK
  BY TypeInit, TypeNext, PTL DEF Spec

-----------------------------------------------------------------------------
(* Addresses.                                                               *)

\* A creation puts its item at its address and leaves the others alone.
LEMMA CreateRows ==
  ASSUME NEW c \in Commands, TypeOK, Create(c)
  PROVE  /\ c.item \in Items /\ ~Live(c.item)
         /\ Live(c.item)' /\ instances'[c.item].addr = c.addr
         /\ \A i \in Items \ {c.item} : instances'[i] = instances[i]
  <1>1. c.item \in Items /\ instances[c.item] = None
    BY CommandFields, CommitVerdict DEF Create
  <1>2. instances' = [instances EXCEPT ![c.item] = Snapshot(c)]
    BY DEF Create
  <1>3. Snapshot(c) # None /\ Snapshot(c).terminal = None /\ Snapshot(c).addr = c.addr
    BY SnapshotType, NoneAssumption DEF Snapshot
  <1> QED
    BY <1>1, <1>2, <1>3 DEF TypeOK, Live

\* A retirement takes its item from its address and leaves the others alone.
LEMMA RetireRows ==
  ASSUME NEW c \in Commands, TypeOK, Retire(c)
  PROVE  /\ c.item \in Items /\ Live(c.item) /\ instances[c.item].addr = c.addr
         /\ ~Live(c.item)' /\ instances'[c.item] = RetiredRow(c)
         /\ \A i \in Items \ {c.item} : instances'[i] = instances[i]
  <1>1. c.item \in Items /\ SnapshotCurrent(c) /\ c.reason \in Reasons
    BY CommandFields, CommitVerdict DEF Retire
  <1>2. Live(c.item) /\ instances[c.item].addr = c.addr
    BY <1>1, SnapshotType, NoneAssumption DEF SnapshotCurrent, Snapshot, Live
  <1>3. instances' = [instances EXCEPT ![c.item] = RetiredRow(c)]
    BY DEF Retire
  <1>4. RetiredRow(c).terminal # None
    BY <1>1, RetiredRowType, NoneAssumption DEF Retire
  <1> QED
    BY <1>1, <1>2, <1>3, <1>4 DEF TypeOK, Live

\* Steps that are neither leave every item row.
LEMMA OtherRows ==
  ASSUME [Next]_vars, \A c \in Sent : ~Create(c) /\ ~Retire(c)
  PROVE  UNCHANGED <<instances, locRev, ownerRev, receipts>>
  BY DEF Next, RegisterDefinition, Replay, Refuse, Fail, Restart, vars, db

LEMMA OneItemNext == TypeOK /\ OneItemPerAddress /\ [Next]_vars => OneItemPerAddress'
  <1> SUFFICES ASSUME TypeOK, OneItemPerAddress, [Next]_vars PROVE OneItemPerAddress'
    OBVIOUS
  <1>1. ASSUME NEW c \in Sent, Create(c) PROVE OneItemPerAddress'
    <2>1. c \in Commands /\ ~Occupied(c.addr)
      BY <1>1, SentAssumption, CommitVerdict DEF Create
    <2>2. \A i \in Items \ {c.item} : Live(i)' => Live(i) /\ instances'[i] = instances[i]
      BY <1>1, <2>1, CreateRows DEF Live
    <2>3. \A i \in Items \ {c.item} : Live(i)' => instances'[i].addr # c.addr
      BY <2>1, <2>2 DEF Occupied
    <2> QED
      BY <1>1, <2>1, <2>2, <2>3, CreateRows DEF OneItemPerAddress
  <1>2. ASSUME NEW c \in Sent, Retire(c) PROVE OneItemPerAddress'
    <2>1. c \in Commands
      BY SentAssumption
    <2>2. \A i \in Items : Live(i)' => Live(i) /\ instances'[i] = instances[i]
      BY <1>2, <2>1, RetireRows DEF Live
    <2> QED
      BY <2>2 DEF OneItemPerAddress
  <1>3. CASE \A c \in Sent : ~Create(c) /\ ~Retire(c)
    BY <1>3, OtherRows DEF OneItemPerAddress, Live
  <1> QED
    BY <1>1, <1>2, <1>3

\* Two active items never share an equipped slot or a loot position.
THEOREM OneItemPerAddressHolds == Spec => []OneItemPerAddress
  <1>1. Init => OneItemPerAddress
    BY DEF Init, OneItemPerAddress, Live
  <1> QED
    BY <1>1, TypeCorrect, OneItemNext, PTL DEF Spec

-----------------------------------------------------------------------------
(* Receipts and revisions.                                                  *)

Commits(c) == (Create(c) \/ Retire(c))

\* A commit adds one receipt under a free key.
LEMMA CommitReceipt ==
  ASSUME NEW c \in Commands, TypeOK, Commits(c)
  PROVE  /\ Key(c) \in Keys \ Committed
         /\ Committed' = Committed \cup {Key(c)}
         /\ receipts'[Key(c)].receipt = Receipt(c)
         /\ Intent(Key(c))' = [c EXCEPT !.tick = None]
         /\ Intent(Key(c))'.addr = c.addr
         /\ \A k \in Keys \ {Key(c)} : receipts'[k] = receipts[k]
  <1>1. Record(c) /\ Verdict(c) = "commit"
    BY DEF Commits, Create, Retire
  <1>2. Key(c) \in Keys /\ receipts[Key(c)] = None
    BY <1>1, CommandFields, CommitVerdict
  <1>3. receipts' = [receipts EXCEPT ![Key(c)] =
                       [receipt |-> Receipt(c), fingerprint |-> Fingerprint(c)]]
    BY <1>1 DEF Record
  <1>4. [receipt |-> Receipt(c), fingerprint |-> Fingerprint(c)] # None
    BY <1>1, CommitVerdict, OperationType, NoneAssumption
  <1>5. receipts'[Key(c)] = [receipt |-> Receipt(c), fingerprint |-> Fingerprint(c)]
    BY <1>2, <1>3 DEF TypeOK
  <1>6. \A k \in Keys \ {Key(c)} : receipts'[k] = receipts[k]
    BY <1>3 DEF TypeOK
  <1>7. Committed' = Committed \cup {Key(c)} /\ Key(c) \notin Committed
    BY <1>2, <1>4, <1>5, <1>6 DEF Committed
  <1>8. Intent(Key(c))' = [c EXCEPT !.tick = None]
    BY <1>5 DEF Intent, Fingerprint
  <1> QED
    BY <1>2, <1>5, <1>6, <1>7, <1>8, IntentOfCommand

\* A commit moves the two revisions it was asked for by one, and no other.
LEMMA CommitRevisions ==
  ASSUME NEW c \in Commands, TypeOK, Commits(c)
  PROVE  /\ c.addr \in Addresses /\ OwnerOfCommand(c) \in Owners
         /\ ownerRev[OwnerOfCommand(c)] = c.owner /\ locRev[c.addr] = c.loc
         /\ ownerRev'[OwnerOfCommand(c)] = c.owner + 1 /\ locRev'[c.addr] = c.loc + 1
         /\ \A o \in Owners \ {OwnerOfCommand(c)} : ownerRev'[o] = ownerRev[o]
         /\ \A a \in Addresses \ {c.addr} : locRev'[a] = locRev[a]
         /\ c.owner \in Nat /\ c.loc \in Nat
  <1>1. Record(c) /\ RevisionsCurrent(c)
    BY CommitVerdict DEF Commits, Create, Retire
  <1>2. /\ ownerRev' = [ownerRev EXCEPT ![OwnerOfCommand(c)] = c.owner + 1]
        /\ locRev' = [locRev EXCEPT ![c.addr] = c.loc + 1]
    BY <1>1 DEF Record
  <1>3. c.owner \in Nat /\ c.loc \in Nat
    BY CommandFields, MaxRevisionAssumption DEF Revisions
  <1> QED
    BY <1>1, <1>2, <1>3, CommandFields DEF TypeOK, RevisionsCurrent

\* One more receipt, numbered n + 1, keeps a numbering 1..n gapless and unique.
LEMMA Numbering ==
  ASSUME NEW S, NEW k, k \notin S, NEW f, NEW g, NEW n \in Nat,
         {f[s] : s \in S} = 1 .. n,
         \A s, t \in S : f[s] = f[t] => s = t,
         \A s \in S : g[s] = f[s],
         g[k] = n + 1
  PROVE  /\ {g[s] : s \in S \cup {k}} = 1 .. n + 1
         /\ \A s, t \in S \cup {k} : g[s] = g[t] => s = t
  <1>1. \A s \in S : g[s] \in 1 .. n /\ g[s] # n + 1
    OBVIOUS
  <1>2. {g[s] : s \in S \cup {k}} = {f[s] : s \in S} \cup {n + 1}
    OBVIOUS
  <1>3. 1 .. n + 1 = (1 .. n) \cup {n + 1}
    OBVIOUS
  <1> QED
    BY <1>1, <1>2, <1>3

OwnerReceipts(o) == {k \in Committed : OwnerOf[Intent(k).addr] = o}
AddressReceipts(a) == {k \in Committed : Intent(k).addr = a}

LEMMA SerialCommit ==
  ASSUME NEW c \in Commands, TypeOK, Commits(c), SerialHistories
  PROVE  SerialHistories'
  <1> DEFINE k0 == Key(c)
             o0 == OwnerOfCommand(c)
  <1>1. /\ \A k \in Committed : receipts'[k] = receipts[k] /\ Intent(k)' = Intent(k)
        /\ k0 \notin Committed /\ Committed' = Committed \cup {k0}
        /\ Intent(k0)'.addr = c.addr
    <2>1. /\ k0 \notin Committed /\ Committed' = Committed \cup {k0}
          /\ Intent(k0)'.addr = c.addr
          /\ \A k \in Keys \ {k0} : receipts'[k] = receipts[k]
      BY CommitReceipt
    <2>2. \A k \in Committed : k \in Keys \ {k0}
      BY <2>1 DEF Committed
    <2> QED
      BY <2>1, <2>2 DEF Intent
  <1>2. receipts'[k0].receipt.owner = c.owner + 1 /\ receipts'[k0].receipt.loc = c.loc + 1
    <2>1. receipts'[k0].receipt = Receipt(c)
      BY CommitReceipt
    <2> QED
      BY <2>1 DEF Receipt
  <1>3. ASSUME NEW o \in Owners
        PROVE  /\ {receipts'[k].receipt.owner : k \in OwnerReceipts(o)'} = 1 .. ownerRev'[o]
               /\ \A k, m \in OwnerReceipts(o)' :
                    receipts'[k].receipt.owner = receipts'[m].receipt.owner => k = m
    <2>1. /\ {receipts[k].receipt.owner : k \in OwnerReceipts(o)} = 1 .. ownerRev[o]
          /\ \A k, m \in OwnerReceipts(o) :
               receipts[k].receipt.owner = receipts[m].receipt.owner => k = m
      BY DEF SerialHistories, OwnerReceipts
    <2>2. CASE o # o0
      <3>1. OwnerReceipts(o)' = OwnerReceipts(o)
        BY <1>1, <2>2 DEF OwnerReceipts, OwnerOfCommand
      <3>2. ownerRev'[o] = ownerRev[o]
        BY <2>2, CommitRevisions
      <3>3. \A k \in OwnerReceipts(o) : receipts'[k] = receipts[k]
        BY <1>1 DEF OwnerReceipts
      <3> QED
        BY <2>1, <3>1, <3>2, <3>3
    <2>3. CASE o = o0
      <3> DEFINE S == OwnerReceipts(o)
                 f == [k \in Keys |-> receipts[k].receipt.owner]
                 g == [k \in Keys |-> receipts'[k].receipt.owner]
      <3>1. OwnerReceipts(o)' = S \cup {k0} /\ k0 \notin S
        BY <1>1, <2>3 DEF OwnerReceipts, OwnerOfCommand
      <3>2. ownerRev[o] = c.owner /\ ownerRev'[o] = c.owner + 1 /\ c.owner \in Nat
        BY <2>3, CommitRevisions
      <3>3. S \subseteq Keys /\ k0 \in Keys
        BY CommitReceipt DEF OwnerReceipts, Committed
      <3>4. {f[k] : k \in S} = 1 .. c.owner
        BY <2>1, <3>2, <3>3
      <3>5. \A k, m \in S : f[k] = f[m] => k = m
        BY <2>1, <3>3
      <3>6. \A k \in S : g[k] = f[k]
        BY <1>1, <3>3 DEF OwnerReceipts
      <3>7. g[k0] = c.owner + 1
        BY <1>2, <3>3
      <3>8. /\ {g[k] : k \in S \cup {k0}} = 1 .. c.owner + 1
            /\ \A k, m \in S \cup {k0} : g[k] = g[m] => k = m
        <4> HIDE DEF S, f, g, k0
        <4> QED
          BY <3>1, <3>2, <3>4, <3>5, <3>6, <3>7, Numbering
      <3>9. \A k \in S \cup {k0} : g[k] = receipts'[k].receipt.owner
        BY <3>3
      <3> QED
        <4> HIDE DEF S, g, k0
        <4> QED
          BY <3>1, <3>2, <3>8, <3>9
    <2> QED
      BY <2>2, <2>3
  <1>4. ASSUME NEW a \in Addresses
        PROVE  /\ {receipts'[k].receipt.loc : k \in AddressReceipts(a)'} = 1 .. locRev'[a]
               /\ \A k, m \in AddressReceipts(a)' :
                    receipts'[k].receipt.loc = receipts'[m].receipt.loc => k = m
    <2>1. /\ {receipts[k].receipt.loc : k \in AddressReceipts(a)} = 1 .. locRev[a]
          /\ \A k, m \in AddressReceipts(a) :
               receipts[k].receipt.loc = receipts[m].receipt.loc => k = m
      BY DEF SerialHistories, AddressReceipts
    <2>2. CASE a # c.addr
      <3>1. AddressReceipts(a)' = AddressReceipts(a)
        BY <1>1, <2>2 DEF AddressReceipts
      <3>2. locRev'[a] = locRev[a]
        BY <2>2, CommitRevisions
      <3>3. \A k \in AddressReceipts(a) : receipts'[k] = receipts[k]
        BY <1>1 DEF AddressReceipts
      <3> QED
        BY <2>1, <3>1, <3>2, <3>3
    <2>3. CASE a = c.addr
      <3> DEFINE S == AddressReceipts(a)
                 f == [k \in Keys |-> receipts[k].receipt.loc]
                 g == [k \in Keys |-> receipts'[k].receipt.loc]
      <3>1. AddressReceipts(a)' = S \cup {k0} /\ k0 \notin S
        BY <1>1, <2>3 DEF AddressReceipts
      <3>2. locRev[a] = c.loc /\ locRev'[a] = c.loc + 1 /\ c.loc \in Nat
        BY <2>3, CommitRevisions
      <3>3. S \subseteq Keys /\ k0 \in Keys
        BY CommitReceipt DEF AddressReceipts, Committed
      <3>4. {f[k] : k \in S} = 1 .. c.loc
        BY <2>1, <3>2, <3>3
      <3>5. \A k, m \in S : f[k] = f[m] => k = m
        BY <2>1, <3>3
      <3>6. \A k \in S : g[k] = f[k]
        BY <1>1, <3>3 DEF AddressReceipts
      <3>7. g[k0] = c.loc + 1
        BY <1>2, <3>3
      <3>8. /\ {g[k] : k \in S \cup {k0}} = 1 .. c.loc + 1
            /\ \A k, m \in S \cup {k0} : g[k] = g[m] => k = m
        <4> HIDE DEF S, f, g, k0
        <4> QED
          BY <3>1, <3>2, <3>4, <3>5, <3>6, <3>7, Numbering
      <3>9. \A k \in S \cup {k0} : g[k] = receipts'[k].receipt.loc
        BY <3>3
      <3> QED
        <4> HIDE DEF S, g, k0
        <4> QED
          BY <3>1, <3>2, <3>8, <3>9
    <2> QED
      BY <2>2, <2>3
  <1> QED
    BY <1>3, <1>4 DEF SerialHistories, OwnerReceipts, AddressReceipts

LEMMA SerialNext == TypeOK /\ SerialHistories /\ [Next]_vars => SerialHistories'
  <1> SUFFICES ASSUME TypeOK, SerialHistories, [Next]_vars PROVE SerialHistories'
    OBVIOUS
  <1>1. ASSUME NEW c \in Sent, Commits(c) PROVE SerialHistories'
    BY <1>1, SentAssumption, SerialCommit
  <1>2. CASE \A c \in Sent : ~Commits(c)
    BY <1>2, OtherRows DEF Commits, SerialHistories, Committed, Intent
  <1> QED
    BY <1>1, <1>2

\* The receipts of every owner and of every address number its revisions from 1
\* on, each once, without a gap, and none beyond the last revision.
THEOREM LedgerSerialHolds == Spec => []LedgerSerial
  <1>1. Init => SerialHistories
    <2> SUFFICES ASSUME Init PROVE SerialHistories
      OBVIOUS
    <2>1. Committed = {}
      BY DEF Init, Committed
    <2>2. \A o \in Owners : ownerRev[o] = 0
      BY DEF Init
    <2>3. \A a \in Addresses : locRev[a] = 0
      BY DEF Init
    <2> QED
      BY <2>1, <2>2, <2>3 DEF SerialHistories
  <1>2. TypeOK /\ SerialHistories => LedgerSerial
    BY MaxRevisionAssumption DEF TypeOK, LedgerSerial, Committed, Operation, ReceiptRow, Revisions
  <1> QED
    BY <1>1, <1>2, TypeCorrect, SerialNext, PTL DEF Spec

-----------------------------------------------------------------------------
(* Append-only history.                                                     *)

\* A commit changes no receipt, no pinned row and no identity, and moves no
\* revision back.
LEMMA AppendOnlyCommit ==
  ASSUME NEW c \in Commands, TypeOK, Commits(c)
  PROVE  /\ \A k \in Keys : receipts[k] # None => receipts'[k] = receipts[k]
         /\ \A o \in Owners : ownerRev'[o] >= ownerRev[o]
         /\ \A a \in Addresses : locRev'[a] >= locRev[a]
  <1>1. \A k \in Keys : receipts[k] # None => receipts'[k] = receipts[k]
    BY CommitReceipt DEF Committed
  <1>2. ownerRev \in [Owners -> Nat] /\ locRev \in [Addresses -> Nat]
    BY MaxRevisionAssumption DEF TypeOK, Revisions
  <1>3. ASSUME NEW o \in Owners PROVE ownerRev'[o] >= ownerRev[o]
    BY <1>2, CommitRevisions
  <1>4. ASSUME NEW a \in Addresses PROVE locRev'[a] >= locRev[a]
    BY <1>2, CommitRevisions
  <1> QED
    BY <1>1, <1>3, <1>4

AppendOnlyStep ==
  /\ \A k \in Keys : receipts[k] # None => receipts'[k] = receipts[k]
  /\ \A d \in Definitions : definitions[d] # None => definitions'[d] = definitions[d]
  /\ \A p \in Profiles : profiles[p] # None => profiles'[p] = profiles[p]
  /\ \A o \in Owners : ownerRev'[o] >= ownerRev[o]
  /\ \A a \in Addresses : locRev'[a] >= locRev[a]
  /\ \A i \in Items : instances[i] # None =>
       /\ instances'[i] # None
       /\ instances'[i].def = instances[i].def
       /\ instances'[i].acq = instances[i].acq
       /\ ~Live(i) => instances'[i] = instances[i]

LEMMA AppendOnlyNext == TypeOK /\ [Next]_vars => AppendOnlyStep
  <1> SUFFICES ASSUME TypeOK, [Next]_vars PROVE AppendOnlyStep
    OBVIOUS
  <1>1. ASSUME NEW c \in Sent, Create(c) PROVE AppendOnlyStep
    <2>1. c \in Commands /\ Commits(c) /\ instances[c.item] = None
      BY <1>1, SentAssumption, CommitVerdict DEF Commits, Create
    <2>2. \A i \in Items : instances[i] # None => instances'[i] = instances[i]
      BY <1>1, <2>1, CreateRows
    <2>3. \A p \in Profiles : profiles[p] # None => profiles'[p] = profiles[p]
      <3>1. c.kind = "craft" => profiles[c.making.profile] \in {None, c.making.content}
        BY <1>1, CommitVerdict DEF Create, ProfileConflict
      <3> QED
        BY <1>1, <3>1 DEF Create, TypeOK
    <2> QED
      BY <1>1, <2>1, <2>2, <2>3, AppendOnlyCommit DEF AppendOnlyStep, Create
  <1>2. ASSUME NEW c \in Sent, Retire(c) PROVE AppendOnlyStep
    <2>1. c \in Commands /\ Commits(c)
      BY <1>2, SentAssumption DEF Commits
    <2>2. /\ c.item \in Items /\ Live(c.item) /\ instances'[c.item] = RetiredRow(c)
          /\ \A i \in Items \ {c.item} : instances'[i] = instances[i]
      BY <1>2, <2>1, RetireRows
    <2>3. RetiredRow(c) # None
      BY <1>2, <2>1, CommitVerdict, RetiredRowType, NoneAssumption DEF Retire
    <2>4. RetiredRow(c).def = instances[c.item].def /\ RetiredRow(c).acq = instances[c.item].acq
      BY DEF RetiredRow
    <2> QED
      BY <1>2, <2>1, <2>2, <2>3, <2>4, AppendOnlyCommit DEF AppendOnlyStep, Retire
  <1>3. ASSUME NEW d \in Definitions, NEW content \in Contents,
               RegisterDefinition(d, content)
        PROVE  AppendOnlyStep
    <2>1. \A o \in Owners : ownerRev[o] >= ownerRev[o]
      BY MaxRevisionAssumption DEF TypeOK, Revisions
    <2>2. \A a \in Addresses : locRev[a] >= locRev[a]
      BY MaxRevisionAssumption DEF TypeOK, Revisions
    <2> QED
      BY <1>3, <2>1, <2>2 DEF RegisterDefinition, AppendOnlyStep, TypeOK
  <1>4. CASE UNCHANGED db
    <2>1. \A o \in Owners : ownerRev[o] >= ownerRev[o]
      BY MaxRevisionAssumption DEF TypeOK, Revisions
    <2>2. \A a \in Addresses : locRev[a] >= locRev[a]
      BY MaxRevisionAssumption DEF TypeOK, Revisions
    <2> QED
      BY <1>4, <2>1, <2>2 DEF db, AppendOnlyStep
  <1> QED
    BY <1>1, <1>2, <1>3, <1>4 DEF Next, Replay, Refuse, Fail, Restart, vars

\* No step ever changes or removes a receipt or a pinned row, moves a revision
\* back, alters an item's identity or revives a retired item.
THEOREM LedgerAppendOnlyHolds == Spec => LedgerAppendOnly
  <1>1. TypeOK /\ [Next]_vars => [AppendOnlyStep]_vars
    BY AppendOnlyNext
  <1>2. Spec => [][AppendOnlyStep]_vars
    BY <1>1, TypeCorrect, PTL DEF Spec
  <1> QED
    BY <1>2 DEF LedgerAppendOnly, AppendOnlyStep

-----------------------------------------------------------------------------
(* The life of an address.                                                  *)

\* Whoever is at an address was put there by the last receipt of the address.
LiveIsLatest ==
  \A i \in Items : Live(i) =>
    /\ instances[i].addr \in Addresses
    /\ \E k \in Committed :
         /\ receipts[k].receipt.kind = "create"
         /\ receipts[k].receipt.item = i
         /\ Intent(k).addr = instances[i].addr
         /\ receipts[k].receipt.loc = locRev[instances[i].addr]

AddressInv == OneItemPerAddress /\ AddressAlternates /\ LiveIsLatest

LEMMA Parity ==
  ASSUME NEW n \in Nat
  PROVE  /\ n % 2 = 1 <=> (n + 1) % 2 # 1
         /\ 0 % 2 # 1
  OBVIOUS

\* The part of AddressAlternates that a commit of c establishes for its own
\* receipt carries over to all receipts.
LEMMA CommitKeepsReceipts ==
  ASSUME NEW c \in Commands, TypeOK, AddressInv, Commits(c),
         Receipt(c).kind = "create" <=> (c.loc + 1) % 2 = 1,
         Receipt(c).kind = "retire" =>
           \E m \in Committed :
             /\ receipts[m].receipt.kind = "create"
             /\ receipts[m].receipt.item = c.item
             /\ Intent(m).addr = c.addr
             /\ receipts[m].receipt.loc = c.loc
  PROVE  /\ \A k \in Committed' :
              receipts'[k].receipt.kind = "create" <=> receipts'[k].receipt.loc % 2 = 1
         /\ \A k \in Committed' : receipts'[k].receipt.kind = "retire" =>
              \E m \in Committed' :
                /\ receipts'[m].receipt.kind = "create"
                /\ receipts'[m].receipt.item = receipts'[k].receipt.item
                /\ Intent(m)'.addr = Intent(k)'.addr
                /\ receipts'[m].receipt.loc + 1 = receipts'[k].receipt.loc
  <1> DEFINE k0 == Key(c)
  <1>1. /\ k0 \notin Committed /\ Committed' = Committed \cup {k0}
        /\ Intent(k0)'.addr = c.addr
        /\ receipts'[k0].receipt = Receipt(c)
    BY CommitReceipt
  <1>2. \A k \in Committed : receipts'[k] = receipts[k] /\ Intent(k)' = Intent(k)
    <2>1. \A k \in Committed : k \in Keys \ {k0}
      BY <1>1 DEF Committed
    <2> QED
      BY <2>1, CommitReceipt DEF Intent
  <1>3. Receipt(c).loc = c.loc + 1 /\ Receipt(c).item = c.item
    BY DEF Receipt
  <1>4. AddressAlternates
    BY DEF AddressInv
  <1>5. ASSUME NEW k \in Committed'
        PROVE  receipts'[k].receipt.kind = "create" <=> receipts'[k].receipt.loc % 2 = 1
    <2>1. CASE k = k0
      BY <2>1, <1>1, <1>3
    <2>2. CASE k \in Committed
      BY <2>2, <1>2, <1>4 DEF AddressAlternates
    <2> QED
      BY <1>1, <2>1, <2>2
  <1>6. ASSUME NEW k \in Committed', receipts'[k].receipt.kind = "retire"
        PROVE  \E m \in Committed' :
                 /\ receipts'[m].receipt.kind = "create"
                 /\ receipts'[m].receipt.item = receipts'[k].receipt.item
                 /\ Intent(m)'.addr = Intent(k)'.addr
                 /\ receipts'[m].receipt.loc + 1 = receipts'[k].receipt.loc
    <2>1. CASE k = k0
      <3>1. PICK m \in Committed :
              /\ receipts[m].receipt.kind = "create"
              /\ receipts[m].receipt.item = c.item
              /\ Intent(m).addr = c.addr
              /\ receipts[m].receipt.loc = c.loc
        BY <1>1, <1>6, <2>1
      <3>2. m \in Committed' /\ receipts'[m] = receipts[m] /\ Intent(m)' = Intent(m)
        BY <1>1, <1>2
      <3> QED
        BY <1>1, <1>3, <2>1, <3>1, <3>2
    <2>2. CASE k \in Committed
      <3>1. receipts'[k] = receipts[k] /\ Intent(k)' = Intent(k)
        BY <1>2, <2>2
      <3>2. PICK m \in Committed :
              /\ receipts[m].receipt.kind = "create"
              /\ receipts[m].receipt.item = receipts[k].receipt.item
              /\ Intent(m).addr = Intent(k).addr
              /\ receipts[m].receipt.loc + 1 = receipts[k].receipt.loc
        BY <1>4, <1>6, <2>2, <3>1 DEF AddressAlternates
      <3>3. m \in Committed' /\ receipts'[m] = receipts[m] /\ Intent(m)' = Intent(m)
        BY <1>1, <1>2
      <3> QED
        BY <3>1, <3>2, <3>3
    <2> QED
      BY <1>1, <2>1, <2>2
  <1> QED
    BY <1>5, <1>6

LEMMA AddressCreate ==
  ASSUME NEW c \in Commands, TypeOK, AddressInv, Create(c)
  PROVE  AddressAlternates' /\ LiveIsLatest'
  <1> DEFINE k0 == Key(c)
  <1>1. Commits(c) /\ c.kind # "retire" /\ ~Occupied(c.addr)
    BY CommitVerdict DEF Commits, Create
  <1>2. /\ c.item \in Items /\ ~Live(c.item)
        /\ Live(c.item)' /\ instances'[c.item].addr = c.addr
        /\ \A i \in Items \ {c.item} : instances'[i] = instances[i]
    BY CreateRows
  <1>3. /\ c.addr \in Addresses /\ locRev[c.addr] = c.loc /\ locRev'[c.addr] = c.loc + 1
        /\ \A a \in Addresses \ {c.addr} : locRev'[a] = locRev[a]
        /\ c.loc \in Nat
    BY <1>1, CommitRevisions
  <1>4. (c.loc + 1) % 2 = 1
    BY <1>1, <1>3, Parity DEF AddressInv, AddressAlternates
  <1>5. ASSUME NEW a \in Addresses PROVE Occupied(a)' <=> locRev'[a] % 2 = 1
    <2>1. CASE a = c.addr
      BY <1>2, <1>3, <1>4, <2>1 DEF Occupied
    <2>2. CASE a # c.addr
      <3>1. Occupied(a)' <=> Occupied(a)
        BY <1>2, <2>2 DEF Occupied, Live
      <3> QED
        BY <1>3, <2>2, <3>1 DEF AddressInv, AddressAlternates
    <2> QED
      BY <2>1, <2>2
  <1>6. Receipt(c).kind = "create"
    BY <1>1 DEF Receipt
  <1>7. AddressAlternates'
    BY <1>1, <1>4, <1>5, <1>6, CommitKeepsReceipts DEF AddressAlternates
  <1>8. ASSUME NEW i \in Items, Live(i)'
        PROVE  /\ instances'[i].addr \in Addresses
               /\ \E k \in Committed' :
                    /\ receipts'[k].receipt.kind = "create"
                    /\ receipts'[k].receipt.item = i
                    /\ Intent(k)'.addr = instances'[i].addr
                    /\ receipts'[k].receipt.loc = locRev'[instances'[i].addr]
    <2>1. /\ k0 \notin Committed /\ Committed' = Committed \cup {k0}
          /\ Intent(k0)'.addr = c.addr
          /\ receipts'[k0].receipt = Receipt(c)
          /\ \A k \in Keys \ {k0} : receipts'[k] = receipts[k]
      BY <1>1, CommitReceipt
    <2>2. Receipt(c).loc = c.loc + 1 /\ Receipt(c).item = c.item
      BY DEF Receipt
    <2>3. CASE i = c.item
      BY <1>2, <1>3, <1>6, <2>1, <2>2, <2>3
    <2>4. CASE i # c.item
      <3>1. instances'[i] = instances[i] /\ Live(i)
        BY <1>2, <1>8, <2>4 DEF Live
      <3>2. PICK k \in Committed :
              /\ receipts[k].receipt.kind = "create"
              /\ receipts[k].receipt.item = i
              /\ Intent(k).addr = instances[i].addr
              /\ receipts[k].receipt.loc = locRev[instances[i].addr]
        BY <3>1 DEF AddressInv, LiveIsLatest
      <3>3. instances[i].addr \in Addresses \ {c.addr}
        BY <1>1, <3>1 DEF AddressInv, LiveIsLatest, Occupied
      <3>4. receipts'[k] = receipts[k] /\ Intent(k)' = Intent(k) /\ k \in Committed'
        BY <2>1 DEF Committed, Intent
      <3> QED
        BY <1>3, <3>1, <3>2, <3>3, <3>4
    <2> QED
      BY <2>3, <2>4
  <1> QED
    BY <1>7, <1>8 DEF LiveIsLatest

LEMMA AddressRetire ==
  ASSUME NEW c \in Commands, TypeOK, AddressInv, Retire(c)
  PROVE  AddressAlternates' /\ LiveIsLatest'
  <1> DEFINE k0 == Key(c)
  <1>1. Commits(c) /\ c.kind = "retire"
    BY DEF Commits, Retire
  <1>2. /\ c.item \in Items /\ Live(c.item) /\ instances[c.item].addr = c.addr
        /\ ~Live(c.item)'
        /\ \A i \in Items \ {c.item} : instances'[i] = instances[i]
    BY RetireRows
  <1>3. /\ c.addr \in Addresses /\ locRev[c.addr] = c.loc /\ locRev'[c.addr] = c.loc + 1
        /\ \A a \in Addresses \ {c.addr} : locRev'[a] = locRev[a]
        /\ c.loc \in Nat
    BY <1>1, CommitRevisions
  <1>4. (c.loc + 1) % 2 # 1
    <2>1. Occupied(c.addr)
      BY <1>2 DEF Occupied
    <2> QED
      BY <1>3, <2>1, Parity DEF AddressInv, AddressAlternates
  <1>5. \A i \in Items : Live(i)' =>
          /\ Live(i) /\ instances'[i] = instances[i] /\ instances[i].addr # c.addr
    BY <1>2 DEF Live, AddressInv, OneItemPerAddress
  <1>6. ASSUME NEW a \in Addresses PROVE Occupied(a)' <=> locRev'[a] % 2 = 1
    <2>1. CASE a = c.addr
      BY <1>3, <1>4, <1>5, <2>1 DEF Occupied
    <2>2. CASE a # c.addr
      <3>1. Occupied(a)' <=> Occupied(a)
        BY <1>2, <2>2 DEF Occupied, Live
      <3> QED
        BY <1>3, <2>2, <3>1 DEF AddressInv, AddressAlternates
    <2> QED
      BY <2>1, <2>2
  <1>7. Receipt(c).kind = "retire"
    BY <1>1 DEF Receipt
  <1>8. \E m \in Committed :
          /\ receipts[m].receipt.kind = "create"
          /\ receipts[m].receipt.item = c.item
          /\ Intent(m).addr = c.addr
          /\ receipts[m].receipt.loc = c.loc
    BY <1>2, <1>3 DEF AddressInv, LiveIsLatest
  <1>9. AddressAlternates'
    BY <1>1, <1>4, <1>6, <1>7, <1>8, CommitKeepsReceipts DEF AddressAlternates
  <1>10. ASSUME NEW i \in Items, Live(i)'
         PROVE  /\ instances'[i].addr \in Addresses
                /\ \E k \in Committed' :
                     /\ receipts'[k].receipt.kind = "create"
                     /\ receipts'[k].receipt.item = i
                     /\ Intent(k)'.addr = instances'[i].addr
                     /\ receipts'[k].receipt.loc = locRev'[instances'[i].addr]
    <2>1. /\ Live(i) /\ instances'[i] = instances[i]
          /\ instances[i].addr \in Addresses \ {c.addr}
      BY <1>5, <1>10 DEF AddressInv, LiveIsLatest
    <2>2. PICK k \in Committed :
            /\ receipts[k].receipt.kind = "create"
            /\ receipts[k].receipt.item = i
            /\ Intent(k).addr = instances[i].addr
            /\ receipts[k].receipt.loc = locRev[instances[i].addr]
      BY <2>1 DEF AddressInv, LiveIsLatest
    <2>3. receipts'[k] = receipts[k] /\ Intent(k)' = Intent(k) /\ k \in Committed'
      BY <1>1, CommitReceipt DEF Committed, Intent
    <2> QED
      BY <1>3, <2>1, <2>2, <2>3
  <1> QED
    BY <1>9, <1>10 DEF LiveIsLatest

LEMMA AddressNext == TypeOK /\ AddressInv /\ [Next]_vars => AddressInv'
  <1> SUFFICES ASSUME TypeOK, AddressInv, [Next]_vars PROVE AddressInv'
    OBVIOUS
  <1>1. OneItemPerAddress'
    BY OneItemNext DEF AddressInv
  <1>2. ASSUME NEW c \in Sent, Create(c) PROVE AddressInv'
    BY <1>1, <1>2, SentAssumption, AddressCreate DEF AddressInv
  <1>3. ASSUME NEW c \in Sent, Retire(c) PROVE AddressInv'
    BY <1>1, <1>3, SentAssumption, AddressRetire DEF AddressInv
  <1>4. CASE \A c \in Sent : ~Create(c) /\ ~Retire(c)
    <2>1. UNCHANGED <<instances, locRev, receipts>>
      BY <1>4, OtherRows
    <2> QED
      BY <1>1, <2>1
      DEF AddressInv, AddressAlternates, LiveIsLatest, Occupied, Live, Committed, Intent
  <1> QED
    BY <1>2, <1>3, <1>4

LEMMA AddressInit == Init => AddressInv
  <1> SUFFICES ASSUME Init PROVE AddressInv
    OBVIOUS
  <1>1. Committed = {} /\ \A i \in Items : ~Live(i)
    BY DEF Init, Committed, Live
  <1>2. \A a \in Addresses : ~Occupied(a) /\ locRev[a] % 2 # 1
    BY <1>1, Parity DEF Init, Occupied
  <1> QED
    BY <1>1, <1>2 DEF AddressInv, AddressAlternates, LiveIsLatest, OneItemPerAddress

\* Odd revisions of an address put an item there and the next even one retires
\* that item; the address is occupied exactly while its revision is odd.
THEOREM AddressAlternatesHolds == Spec => []AddressAlternates
  <1>1. AddressInv => AddressAlternates
    BY DEF AddressInv
  <1> QED
    BY <1>1, TypeCorrect, AddressInit, AddressNext, PTL DEF Spec

-----------------------------------------------------------------------------
(* Rows and receipts.                                                       *)

ReceiptsOf(i, kind) ==
  {k \in Committed : receipts[k].receipt.item = i /\ receipts[k].receipt.kind = kind}

\* RowsMatchReceipts leaves open that an item without a row has several receipts; with
\* that excluded it is inductive.
RowFits(i) ==
  /\ instances[i] = None => ReceiptsOf(i, "create") = {} /\ ReceiptsOf(i, "retire") = {}
  /\ instances[i] # None => \E k : ReceiptsOf(i, "create") = {k}
  /\ instances[i] # None /\ Live(i) => ReceiptsOf(i, "retire") = {}
  /\ instances[i] # None /\ ~Live(i) => \E k : ReceiptsOf(i, "retire") = {k}

RowsInv == \A i \in Items : RowFits(i)

\* A commit adds its receipt to those of its item and kind, and to no others.
LEMMA CommitReceiptsOf ==
  ASSUME NEW c \in Commands, TypeOK, Commits(c), NEW i, NEW kind
  PROVE  ReceiptsOf(i, kind)' =
           IF i = c.item /\ kind = Receipt(c).kind
             THEN ReceiptsOf(i, kind) \cup {Key(c)} ELSE ReceiptsOf(i, kind)
  <1>1. /\ Key(c) \notin Committed /\ Committed' = Committed \cup {Key(c)}
        /\ receipts'[Key(c)].receipt = Receipt(c)
        /\ \A k \in Committed : receipts'[k] = receipts[k]
    BY CommitReceipt DEF Committed
  <1>2. Receipt(c).item = c.item
    BY DEF Receipt
  <1> QED
    BY <1>1, <1>2 DEF ReceiptsOf

LEMMA RowsNext == TypeOK /\ RowsInv /\ [Next]_vars => RowsInv'
  <1> SUFFICES ASSUME TypeOK, RowsInv, [Next]_vars PROVE RowsInv'
    OBVIOUS
  <1>1. ASSUME NEW c \in Sent, Create(c) PROVE RowsInv'
    <2>1. c \in Commands /\ Commits(c) /\ c.kind # "retire" /\ instances[c.item] = None
      BY <1>1, SentAssumption, CommitVerdict DEF Commits, Create
    <2>2. Receipt(c).kind = "create"
      BY <2>1 DEF Receipt
    <2>3. /\ c.item \in Items /\ Live(c.item)'
          /\ \A i \in Items \ {c.item} : instances'[i] = instances[i]
      BY <1>1, <2>1, CreateRows
    <2>4. ASSUME NEW i \in Items, i # c.item
          PROVE  /\ instances'[i] = instances[i] /\ (Live(i)' <=> Live(i))
                 /\ ReceiptsOf(i, "create")' = ReceiptsOf(i, "create")
                 /\ ReceiptsOf(i, "retire")' = ReceiptsOf(i, "retire")
      BY <2>1, <2>3, <2>4, CommitReceiptsOf DEF Live
    <2>5. /\ ReceiptsOf(c.item, "create")' = {Key(c)}
          /\ ReceiptsOf(c.item, "retire")' = {}
      BY <2>1, <2>2, <2>3, CommitReceiptsOf DEF RowsInv, RowFits
    <2>6. instances'[c.item] # None
      BY <2>3 DEF Live
    <2>7. ASSUME NEW i \in Items, i # c.item PROVE RowFits(i)'
      BY <2>4, <2>7 DEF RowsInv, RowFits
    <2>8. RowFits(c.item)'
      BY <2>3, <2>5, <2>6 DEF RowFits
    <2> QED
      BY <2>7, <2>8 DEF RowsInv
  <1>2. ASSUME NEW c \in Sent, Retire(c) PROVE RowsInv'
    <2>1. c \in Commands /\ Commits(c) /\ c.kind = "retire"
      BY <1>2, SentAssumption DEF Commits, Retire
    <2>2. Receipt(c).kind = "retire"
      BY <2>1 DEF Receipt
    <2>3. /\ c.item \in Items /\ Live(c.item) /\ ~Live(c.item)'
          /\ instances'[c.item] = RetiredRow(c)
          /\ \A i \in Items \ {c.item} : instances'[i] = instances[i]
      BY <1>2, <2>1, RetireRows
    <2>4. ASSUME NEW i \in Items, i # c.item
          PROVE  /\ instances'[i] = instances[i] /\ (Live(i)' <=> Live(i))
                 /\ ReceiptsOf(i, "create")' = ReceiptsOf(i, "create")
                 /\ ReceiptsOf(i, "retire")' = ReceiptsOf(i, "retire")
      BY <2>1, <2>3, <2>4, CommitReceiptsOf DEF Live
    <2>5. /\ ReceiptsOf(c.item, "retire")' = {Key(c)}
          /\ ReceiptsOf(c.item, "create")' = ReceiptsOf(c.item, "create")
      BY <2>1, <2>2, <2>3, CommitReceiptsOf DEF RowsInv, RowFits, Live
    <2>6. RetiredRow(c) # None
      BY <1>2, <2>1, CommitVerdict, RetiredRowType, NoneAssumption DEF Retire
    <2>7. ASSUME NEW i \in Items, i # c.item PROVE RowFits(i)'
      BY <2>4, <2>7 DEF RowsInv, RowFits
    <2>8. \E k : ReceiptsOf(c.item, "create") = {k}
      BY <2>3 DEF RowsInv, RowFits, Live
    <2>9. RowFits(c.item)'
      BY <2>3, <2>5, <2>6, <2>8 DEF RowFits
    <2> QED
      BY <2>7, <2>9 DEF RowsInv
  <1>3. CASE \A c \in Sent : ~Create(c) /\ ~Retire(c)
    <2>1. UNCHANGED <<instances, receipts>>
      BY <1>3, OtherRows
    <2>2. \A i, kind : ReceiptsOf(i, kind)' = ReceiptsOf(i, kind)
      BY <2>1 DEF ReceiptsOf, Committed
    <2>3. \A i : Live(i)' <=> Live(i)
      BY <2>1 DEF Live
    <2> QED
      BY <2>1, <2>2, <2>3 DEF RowsInv, RowFits
  <1> QED
    BY <1>1, <1>2, <1>3

\* An item has a row exactly when one receipt created it, and is a tombstone exactly when
\* one receipt retired it.
THEOREM RowsMatchReceiptsHolds == Spec => []RowsMatchReceipts
  <1>1. Init => RowsInv
    BY DEF Init, RowsInv, RowFits, ReceiptsOf, Committed
  <1>2. RowsInv => RowsMatchReceipts
    <2> SUFFICES ASSUME RowsInv, NEW i \in Items
                 PROVE  /\ instances[i] # None <=>
                             \E k \in ReceiptsOf(i, "create") : ReceiptsOf(i, "create") = {k}
                        /\ instances[i] = None => ReceiptsOf(i, "retire") = {}
                        /\ instances[i] # None =>
                             (instances[i].terminal # None <=>
                                \E k \in ReceiptsOf(i, "retire") : ReceiptsOf(i, "retire") = {k})
      BY DEF RowsMatchReceipts, ReceiptsOf
    <2> QED
      BY DEF RowsInv, RowFits, Live
  <1> QED
    BY <1>1, <1>2, TypeCorrect, RowsNext, PTL DEF Spec

-----------------------------------------------------------------------------
(* Replays.                                                                 *)

\* What a replay will find of a committed intent: its own key and receipt, the definition it
\* was checked against and, of a crafted item, identity, properties and profile.
Kept(k) ==
  LET c == Intent(k) IN
  /\ Key(c) = k /\ c.tick = None
  /\ c.def \in Definitions /\ c.item \in Items
  /\ receipts[k].receipt = Receipt(c)
  /\ definitions[c.def] # None /\ <<definitions[c.def], c.addr>> \in Fits
  /\ receipts[k].fingerprint.definition = definitions[c.def]
  /\ c.kind # "retire" => c.acq = c.op
  /\ c.kind = "craft" =>
       /\ c.making \in Making
       /\ profiles[c.making.profile] = c.making.content
       /\ instances[c.item] # None
       /\ instances[c.item].def = c.def /\ instances[c.item].acq = c.acq
       /\ Live(c.item) => instances[c.item].addr = c.addr
       /\ properties[c.item] = c.making

ReplayInv == \A k \in Committed : Kept(k)

\* A step keeps what replays look at, as long as the item's row is not replaced by another
\* live one and its properties stay.
LEMMA KeptStep ==
  ASSUME TypeOK, AppendOnlyStep, NEW k \in Committed, Kept(k),
         \A i \in Items : instances[i] # None =>
           /\ Live(i)' => Live(i) /\ instances'[i] = instances[i]
           /\ properties'[i] = properties[i]
  PROVE  Kept(k)'
  <1>1. k \in Keys /\ receipts[k] # None /\ receipts'[k] = receipts[k] /\ Intent(k)' = Intent(k)
    BY DEF AppendOnlyStep, Committed, Intent
  <1> DEFINE c == Intent(k)
  <1>2. /\ Key(c) = k /\ c.tick = None /\ c.def \in Definitions /\ c.item \in Items
        /\ receipts'[k].receipt = Receipt(c)
        /\ c.kind # "retire" => c.acq = c.op
    BY <1>1 DEF Kept
  <1>3. /\ definitions'[c.def] = definitions[c.def] /\ definitions[c.def] # None
        /\ <<definitions[c.def], c.addr>> \in Fits
        /\ receipts[k].fingerprint.definition = definitions[c.def]
    BY DEF Kept, AppendOnlyStep
  <1>4. ASSUME c.kind = "craft"
        PROVE  /\ c.making \in Making
               /\ profiles'[c.making.profile] = c.making.content
               /\ instances'[c.item] # None
               /\ instances'[c.item].def = c.def /\ instances'[c.item].acq = c.acq
               /\ Live(c.item)' => instances'[c.item].addr = c.addr
               /\ properties'[c.item] = c.making
    <2>1. /\ c.making \in Making /\ c.item \in Items
          /\ profiles[c.making.profile] = c.making.content
          /\ instances[c.item] # None
          /\ instances[c.item].def = c.def /\ instances[c.item].acq = c.acq
          /\ Live(c.item) => instances[c.item].addr = c.addr
          /\ properties[c.item] = c.making
      BY <1>4 DEF Kept
    <2>2. /\ c.making.profile \in Profiles /\ c.making.content \in Authored
      BY <2>1 DEF Making
    <2>3. profiles'[c.making.profile] = c.making.content
      BY <2>1, <2>2, NoneAssumption DEF AppendOnlyStep
    <2>4. /\ instances'[c.item] # None
          /\ instances'[c.item].def = c.def /\ instances'[c.item].acq = c.acq
      BY <2>1 DEF AppendOnlyStep
    <2>5. Live(c.item)' => instances'[c.item].addr = c.addr
      BY <1>1, <2>1 DEF Live
    <2> QED
      BY <2>1, <2>3, <2>4, <2>5
  <1>5. Key(c)' = Key(c) /\ Receipt(c)' = Receipt(c)
    BY <1>1 DEF Key, Receipt
  <1> QED
    BY <1>1, <1>2, <1>3, <1>4, <1>5 DEF Kept, Live

\* A commit establishes it for the key it takes.
LEMMA KeptCommit ==
  ASSUME NEW c \in Commands, TypeOK, Commits(c)
  PROVE  Kept(Key(c))'
  <1> DEFINE k0 == Key(c)
             e == Intent(k0)'
  <1>1. /\ Key(c) \in Keys /\ receipts'[k0].receipt = Receipt(c)
        /\ e = [c EXCEPT !.tick = None]
    BY CommitReceipt
  <1>2. /\ e.kind = c.kind /\ e.actor = c.actor /\ e.op = c.op /\ e.item = c.item
        /\ e.def = c.def /\ e.addr = c.addr /\ e.acq = c.acq /\ e.tick = None
        /\ e.owner = c.owner /\ e.loc = c.loc /\ e.making = c.making
    BY <1>1 DEF Commands, CommandsAt
  <1>3. Key(e) = k0 /\ Receipt(e) = Receipt(c)
    BY <1>2 DEF Key, Receipt
  <1>4. Record(c) /\ Verdict(c) = "commit" /\ Pinned(c) /\ definitions' = definitions
    BY CommitVerdict DEF Commits, Create, Retire
  <1>5. c.kind # "retire" => c.acq = c.op
    BY <1>4 DEF Verdict
  <1>6. receipts'[k0].fingerprint.definition = definitions[c.def]
    BY <1>1, <1>4 DEF Record, TypeOK, Fingerprint
  <1>7. ASSUME c.kind = "craft"
        PROVE  /\ c.making \in Making
               /\ profiles'[c.making.profile] = c.making.content
               /\ instances'[c.item] = Snapshot(c) /\ instances'[c.item] # None
               /\ properties'[c.item] = c.making
    <2>1. Create(c) /\ c.item \in Items /\ c.making \in Making
      BY <1>7, CommandFields DEF Commits, Retire
    <2>2. c.making.profile \in Profiles
      BY <2>1 DEF Making
    <2>3. profiles'[c.making.profile] = c.making.content
      BY <1>7, <2>1, <2>2 DEF Create, TypeOK
    <2>4. instances'[c.item] = Snapshot(c) /\ properties'[c.item] = c.making
      BY <1>7, <2>1 DEF Create, TypeOK
    <2> QED
      BY <2>1, <2>3, <2>4, SnapshotType, NoneAssumption
  <1>8. c.def \in Definitions /\ c.item \in Items
    BY CommandFields
  <1> HIDE DEF e, k0
  <1>9. /\ Key(e) = k0 /\ e.tick = None /\ e.def \in Definitions /\ e.item \in Items
        /\ receipts'[k0].receipt = Receipt(e)
        /\ definitions'[e.def] # None /\ <<definitions'[e.def], e.addr>> \in Fits
        /\ receipts'[k0].fingerprint.definition = definitions'[e.def]
        /\ e.kind # "retire" => e.acq = e.op
    BY <1>1, <1>2, <1>3, <1>4, <1>5, <1>6, <1>8 DEF Pinned
  <1>10. e.kind = "craft" =>
           /\ e.making \in Making
           /\ profiles'[e.making.profile] = e.making.content
           /\ instances'[e.item] # None
           /\ instances'[e.item].def = e.def /\ instances'[e.item].acq = e.acq
           /\ instances'[e.item].addr = e.addr
           /\ properties'[e.item] = e.making
    BY <1>2, <1>7 DEF Snapshot
  <1> QED
    BY <1>9, <1>10 DEF Kept, Live, e, k0

LEMMA ReplayNext == TypeOK /\ ReplayInv /\ [Next]_vars => ReplayInv'
  <1> SUFFICES ASSUME TypeOK, ReplayInv, [Next]_vars PROVE ReplayInv'
    OBVIOUS
  <1>1. AppendOnlyStep
    BY AppendOnlyNext
  <1>2. ASSUME NEW c \in Sent, Commits(c) PROVE ReplayInv'
    <2>1. c \in Commands
      BY SentAssumption
    <2>2. \A i \in Items : instances[i] # None =>
            /\ Live(i)' => Live(i) /\ instances'[i] = instances[i]
            /\ properties'[i] = properties[i]
      <3>1. CASE Create(c)
        <4>1. instances[c.item] = None
          BY <3>1, CommitVerdict DEF Create
        <4>2. \A i \in Items \ {c.item} : instances'[i] = instances[i]
          BY <2>1, <3>1, CreateRows
        <4>3. \A i \in Items \ {c.item} : properties'[i] = properties[i]
          BY <3>1 DEF Create, TypeOK
        <4> QED
          BY <4>1, <4>2, <4>3 DEF Live
      <3>2. CASE Retire(c)
        BY <2>1, <3>2, RetireRows DEF Retire, Live
      <3> QED
        BY <1>2, <3>1, <3>2 DEF Commits
    <2>3. Committed' = Committed \cup {Key(c)}
      BY <1>2, <2>1, CommitReceipt
    <2> QED
      BY <1>1, <1>2, <2>1, <2>2, <2>3, KeptStep, KeptCommit DEF ReplayInv
  <1>3. CASE \A c \in Sent : ~Commits(c)
    <2>1. UNCHANGED <<instances, receipts>>
      BY <1>3, OtherRows DEF Commits
    <2>2. UNCHANGED properties
      BY <1>3 DEF Commits, Next, RegisterDefinition, Replay, Refuse, Fail, Restart, vars, db
    <2>3. Committed' = Committed
      BY <2>1 DEF Committed
    <2> QED
      BY <1>1, <2>1, <2>2, <2>3, KeptStep DEF ReplayInv, Live
  <1> QED
    BY <1>2, <1>3

\* Whatever is kept of an intent answers it as a replay, at every tick.
LEMMA KeptReplays ==
  ASSUME TypeOK, NEW k \in Committed, Kept(k), NEW t \in Ticks
  PROVE  Verdict([Intent(k) EXCEPT !.tick = t]) = "replay"
  <1> DEFINE e == Intent(k)
             c == [e EXCEPT !.tick = t]
  <1>1. e \in Intents /\ receipts[k] # None
    BY DEF TypeOK, Committed, Operation, Intent
  <1>2. /\ c.kind = e.kind /\ c.actor = e.actor /\ c.op = e.op /\ c.item = e.item
        /\ c.def = e.def /\ c.addr = e.addr /\ c.acq = e.acq /\ c.owner = e.owner
        /\ c.loc = e.loc /\ c.making = e.making
        /\ [c EXCEPT !.tick = None] = [e EXCEPT !.tick = None]
    BY <1>1 DEF Intents, CommandsAt
  <1>3. [e EXCEPT !.tick = None] = e
    BY <1>1 DEF Intents, CommandsAt
  <1>4. Key(c) = k /\ Receipt(c) = Receipt(e)
    BY <1>2 DEF Key, Receipt, Kept
  <1>5. receipts[k].fingerprint = [intent |-> e, definition |-> definitions[e.def]]
    <2>1. receipts[k].fingerprint \in [intent : Intents, definition : Contents]
      BY <1>1 DEF TypeOK, Operation, Committed
    <2> QED
      BY <2>1 DEF Kept, Intent
  <1>6. receipts[k].fingerprint = Fingerprint(c)
    BY <1>2, <1>3, <1>5 DEF Fingerprint
  <1>7. Pinned(c)
    BY <1>2 DEF Pinned, Kept
  <1>8. c.kind # "retire" => c.acq = c.op
    BY <1>2 DEF Kept
  <1>9. ~ProfileConflict(c)
    BY <1>2 DEF ProfileConflict, Kept
  <1>10. Retained(c)
    <2>1. receipts[Key(c)].receipt = Receipt(c)
      BY <1>4 DEF Kept
    <2>2. ASSUME c.kind = "craft"
          PROVE  /\ instances[c.item] # None /\ Readable(c.item)
                 /\ instances[c.item].def = c.def /\ instances[c.item].acq = c.acq
                 /\ properties[c.item] = c.making
      BY <1>2, <2>2 DEF Readable, Kept
    <2> QED
      BY <2>1, <2>2 DEF Retained, ReceiptRetained, CreationRetained
  <1> HIDE DEF c
  <1> QED
    BY <1>1, <1>4, <1>6, <1>7, <1>8, <1>9, <1>10 DEF Verdict, c

\* A committed command that is sent again gets its receipt, at every tick and after
\* everything that happened since.
THEOREM RetriesReplayHolds == Spec => []RetriesReplay
  <1>1. Init => ReplayInv
    BY DEF Init, ReplayInv, Committed
  <1>2. TypeOK /\ ReplayInv => RetriesReplay
    BY KeptReplays DEF ReplayInv, RetriesReplay
  <1> QED
    BY <1>1, <1>2, TypeCorrect, ReplayNext, PTL DEF Spec
=============================================================================
