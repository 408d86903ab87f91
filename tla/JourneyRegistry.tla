--------------------------- MODULE JourneyRegistry ---------------------------
(***************************************************************************)
(* Journeys: who owns a character's stay in the world, and for how long    *)
(* after a disconnect it can be claimed again                              *)
(* (src/server/journey_registry.gd over src/server/journey_repository.gd). *)
(* The modules that extend this one say who calls it.                      *)
(*                                                                         *)
(* Any INSERT, UPDATE or DELETE of a row may fail; the registry never looks *)
(* at the outcome.                                                          *)
(*                                                                         *)
(* A definition named X_Fault is X with one plausible bug.                 *)
(***************************************************************************)
EXTENDS Naturals, FiniteSets

CONSTANTS
  Characters,  \* validated character ids
  Peers,       \* ENet peer ids
  Places,      \* authoritative positions, with what a checkpoint adds to them
  Spawn,       \* the place of an admitted player before it enters
  Window,      \* RECLAIM_WINDOW_SECONDS
  MaxTime,     \* bound: unix time
  MaxJourneys, \* bound: journey ids; the code draws them at random
  MaxFailures, \* bound: calls with a failed write
  None

ASSUME TimeAssumption == Window \in Nat /\ MaxTime \in Nat \ {0} /\ MaxJourneys \in Nat /\ MaxFailures \in Nat
ASSUME SpawnAssumption == Spawn \in Places
ASSUME NoneAssumption == None \notin Characters \cup Peers \cup Places \cup Nat

VARIABLES
  now,        \* unix time, read anew by every caller
  journeys,   \* _journeys_by_id
  journeyOf,  \* _journey_id_by_character
  rows,       \* the journeys table
  issued,     \* ids drawn so far
  failures    \* calls with a failed write so far (history)

journeyVars == <<now, journeys, journeyOf, rows, issued, failures>>

Ids == 1 .. MaxJourneys

Journey ==
  [character: Characters, peer: Peers \cup {None}, active: BOOLEAN,
   disconnectedAt: 0 .. MaxTime, lastDisconnectedAt: 0 .. MaxTime,
   checkpointAt: 0 .. MaxTime, place: Places]
Row ==
  [character: Characters, lastDisconnectedAt: 0 .. MaxTime,
   checkpointAt: 0 .. MaxTime, place: Places]

\* None is no row and no entry of a dictionary.
ASSUME RecordAssumption == None \notin Journey \cup Row

JourneyTypeOK ==
  /\ now \in 1 .. MaxTime
  /\ journeys \in [Ids -> Journey \cup {None}]
  /\ journeyOf \in [Characters -> Ids \cup {None}]
  /\ rows \in [Ids -> Row \cup {None}]
  /\ issued \in 0 .. MaxJourneys
  /\ failures \in 0 .. MaxFailures

InitJourneys ==
  /\ now = 1
  /\ journeys = [id \in Ids |-> None]
  /\ journeyOf = [c \in Characters |-> None]
  /\ rows = [id \in Ids |-> None]
  /\ issued = 0
  /\ failures = 0

-----------------------------------------------------------------------------
(* The journeys table.                                                      *)

\* What save() stores and a restart needs; status and peer are stored too, and
\* overwritten when they are read back.
RowOf(j) ==
  [character |-> j.character, lastDisconnectedAt |-> j.lastDisconnectedAt,
   checkpointAt |-> j.checkpointAt, place |-> j.place]

\* save(): an upsert by id, refused when another row holds the character.
Save(table, id, j) ==
  IF \E other \in Ids \ {id} : table[other] # None /\ table[other].character = j.character
  THEN table ELSE [table EXCEPT ![id] = RowOf(j)]

\* delete_journey() of each of some journeys.
Deletes_Nothing(table, gone) == table
Deletes(table, gone) == [id \in Ids |-> IF id \in gone THEN None ELSE table[id]]

\* The writes of a call leave the table good, or one of others when some fail.
Write(good, others) ==
  /\ rows' \in {good} \cup (IF failures < MaxFailures THEN others ELSE {})
  /\ failures' = IF rows' = good THEN failures ELSE failures + 1

-----------------------------------------------------------------------------
(* cleanup().                                                               *)

Expired_IgnoresActive(id) ==
  journeys[id] # None /\ now - journeys[id].disconnectedAt > Window
Expired_OneEarly(id) ==
  /\ journeys[id] # None /\ ~journeys[id].active
  /\ now - journeys[id].disconnectedAt >= Window
Expired(id) ==
  /\ journeys[id] # None /\ ~journeys[id].active
  /\ now - journeys[id].disconnectedAt > Window

ExpiredIds == {id \in Ids : Expired(id)}

\* The registry without them.
Kept == [id \in Ids |-> IF Expired(id) THEN None ELSE journeys[id]]
KeptOf ==
  [c \in Characters |->
     IF \E id \in ExpiredIds : journeys[id].character = c THEN None ELSE journeyOf[c]]

Cleanup ==
  /\ journeys' = Kept
  /\ journeyOf' = KeptOf
  /\ Write(Deletes(rows, ExpiredIds), {Deletes(rows, some) : some \in SUBSET ExpiredIds})
  /\ UNCHANGED <<now, issued>>

-----------------------------------------------------------------------------
(* enter().                                                                 *)

Fresh(c, p, place) ==
  [character |-> c, peer |-> p, active |-> TRUE, disconnectedAt |-> 0,
   lastDisconnectedAt |-> 0, checkpointAt |-> now, place |-> place]

\* A reclaimed journey.  Its last_disconnected_at stays what it was.
Reclaimed(j, p) == [j EXCEPT !.peer = p, !.active = TRUE, !.disconnectedAt = 0]

\* The kind of an acceptance, or the reason of a rejection.
EnterOutcome_AnyPeer(c, p) ==
  LET id == KeptOf[c] IN
  CASE id = None -> "entry"
    [] id # None /\ Kept[id].active -> "entry"
    [] OTHER -> "reclaim"
EnterOutcome(c, p) ==
  LET id == KeptOf[c] IN
  CASE id = None -> "entry"
    [] id # None /\ Kept[id].active /\ Kept[id].peer = p -> "entry"
    [] id # None /\ Kept[id].active /\ Kept[id].peer # p -> "character_active"
    [] OTHER -> "reclaim"

Accepted(c, p) == EnterOutcome(c, p) \in {"entry", "reclaim"}

\* The journey the caller is given, and its id.
EnteredId(c) == IF KeptOf[c] = None THEN issued + 1 ELSE KeptOf[c]
Entered(c, p, place) ==
  LET id == KeptOf[c] IN
  CASE id = None -> Fresh(c, p, place)
    [] EnterOutcome(c, p) = "reclaim" -> Reclaimed(Kept[id], p)
    [] OTHER -> Kept[id]

\* enter(), expired journeys first.  MaxJourneys bounds the ids.
Enter(c, p, place) ==
  LET id == EnteredId(c)
      j == Entered(c, p, place)
      persists == KeptOf[c] = None \/ EnterOutcome(c, p) = "reclaim"
  IN /\ id \in Ids
     /\ journeys' = [Kept EXCEPT ![id] = j]
     /\ journeyOf' = [KeptOf EXCEPT ![c] = id]
     /\ issued' = IF id > issued THEN id ELSE issued
     /\ LET deleted(some) == Deletes(rows, some)
            saved(some) == IF persists THEN Save(deleted(some), id, j) ELSE deleted(some)
        IN Write(saved(ExpiredIds),
                 UNION {{deleted(some), saved(some)} : some \in SUBSET ExpiredIds})
     /\ UNCHANGED now

-----------------------------------------------------------------------------
(* mark_disconnected(), checkpoint(), restore_records().                    *)

\* active_journey_id()
Holds(c, p) ==
  /\ journeyOf[c] # None
  /\ journeys[journeyOf[c]].active
  /\ journeys[journeyOf[c]].peer = p

\* mark_disconnected() does nothing for a peer that does not hold the journey.
MarkDisconnected(c, p) ==
  IF Holds(c, p)
  THEN LET id == journeyOf[c]
           j == [journeys[id] EXCEPT !.active = FALSE, !.disconnectedAt = now,
                                     !.lastDisconnectedAt = now]
       IN /\ journeys' = [journeys EXCEPT ![id] = j]
          /\ Write(Save(rows, id, j), {rows})
          /\ UNCHANGED <<now, journeyOf, issued>>
  ELSE UNCHANGED journeyVars

\* checkpoint() asks for the character only.
Checkpoint(c, place) ==
  IF journeyOf[c] # None
  THEN LET id == journeyOf[c]
           j == [journeys[id] EXCEPT !.place = place, !.checkpointAt = now]
       IN /\ journeys' = [journeys EXCEPT ![id] = j]
          /\ Write(Save(rows, id, j), {rows})
          /\ UNCHANGED <<now, journeyOf, issued>>
  ELSE UNCHANGED journeyVars

\* A journey as restore_records() reads it: disconnected when it last was, or
\* else at its last checkpoint.
Restored_AtBoot(row) ==
  [character |-> row.character, peer |-> None, active |-> FALSE,
   disconnectedAt |-> now, lastDisconnectedAt |-> row.lastDisconnectedAt,
   checkpointAt |-> row.checkpointAt, place |-> row.place]
Restored(row) ==
  [character |-> row.character, peer |-> None, active |-> FALSE,
   disconnectedAt |-> IF row.lastDisconnectedAt > 0 THEN row.lastDisconnectedAt
                      ELSE row.checkpointAt,
   lastDisconnectedAt |-> row.lastDisconnectedAt,
   checkpointAt |-> row.checkpointAt, place |-> row.place]

\* The process ends and a new one boots from the table.
Restart ==
  /\ journeys' = [id \in Ids |-> IF rows[id] = None THEN None ELSE Restored(rows[id])]
  /\ journeyOf' =
       [c \in Characters |->
          IF \E id \in Ids : rows[id] # None /\ rows[id].character = c
          THEN CHOOSE id \in Ids : rows[id] # None /\ rows[id].character = c
          ELSE None]
  /\ UNCHANGED <<now, rows, issued, failures>>

Tick ==
  now < MaxTime /\ now' = now + 1 /\ UNCHANGED <<journeys, journeyOf, rows, issued, failures>>
=============================================================================
