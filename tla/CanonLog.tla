------------------------------- MODULE CanonLog -------------------------------
(***************************************************************************)
(* Immutable sectors and their append-only mutation log:                   *)
(* canon_repository.gd, canon_mutation_repository.gd, the two services     *)
(* that write through it (canon_mutation_service.gd and                    *)
(* environmental_interaction_service.gd), and the two readers that decide  *)
(* what players see of it (canon_sector_integrity.gd and                   *)
(* shared/canon_sector_resolver.gd).                                       *)
(*                                                                         *)
(* Clients may send, repeat and reorder any intent in Sent.  Each write is *)
(* one INSERT in a transaction of its own: it happens or it does not.      *)
(*                                                                         *)
(* A definition named X_Fault is X with one plausible bug.                 *)
(***************************************************************************)
EXTENDS Integers, FiniteSets, FiniteSetsExt

CONSTANTS
  Sectors, Blueprints,
  Targets,      \* addressable entity GUIDs
  TargetsOf,    \* those of a blueprint
  Gates,        \* the structures of kind locked_gate
  Actors,       \* character ids
  Seqs,         \* client_seq values
  Kinds,        \* SUPPORTED_MUTATION_KINDS
  Destroy, Unlock, \* destroy_structure and unlock_gate among them
  Payloads,
  Unlocking,    \* the payloads whose "unlocked" is true
  Verbs,        \* the payloads the gate service writes, one per verb
  MaxTick,      \* bound: ticks of one process
  Sent,         \* the mutation intents clients send
  Tried,        \* the gate intents clients send
  RevisionReadFails, \* TRUE: SELECT MAX(applied_revision) may fail
  None

ASSUME CanonLogAssumption ==
  /\ TargetsOf \in [Blueprints -> SUBSET Targets]
  /\ Gates \subseteq Targets
  /\ {Destroy, Unlock} \subseteq Kinds
  /\ Verbs \subseteq Unlocking /\ Unlocking \subseteq Payloads
  /\ MaxTick \in Nat
  /\ RevisionReadFails \in BOOLEAN

VARIABLES
  canon,     \* canon_sectors
  log,       \* canon_mutations: a set of rows keyed by id
  tick,      \* _monster_tick: starts at 0 with every process
  openGates, \* _open_gates: in memory only
  accepted   \* history: the answers "accepted", with the revision they tell

vars == <<canon, log, tick, openGates, accepted>>

-----------------------------------------------------------------------------
(* Reads.                                                                   *)

History(s) == {r \in log : r.sector = s}

CurrentRevision(s) == Max({0} \cup {r.applied : r \in History(s)})

\* _current_revision: a failed SELECT reads as revision 0.
ReadRevision(s) ==
  {CurrentRevision(s)} \cup IF RevisionReadFails THEN {0} ELSE {}

Destroyed(s) == {r.target : r \in {x \in History(s) : x.kind = Destroy}}
IsUnlock(r) == r.kind = Unlock /\ r.payload \in Unlocking
Unlocked(s) == {r.target : r \in {x \in History(s) : IsUnlock(x)}}

\* resolve_effective_blueprint: replay of the log onto the base.
Effective(s) ==
  LET standing == TargetsOf[canon[s]] \ Destroyed(s) IN
  [standing |-> standing, unlocked |-> standing \cap Unlocked(s)]

\* inspect_history: rows number 1..n, each was made against the one before it,
\* and each addresses an entity of the base.
InspectsClean(s) ==
  /\ {r.applied : r \in History(s)} = 1 .. Cardinality(History(s))
  /\ \A r \in History(s) : r.expected = r.applied - 1 /\ r.target \in TargetsOf[canon[s]]

-----------------------------------------------------------------------------
(* canon_repository.gd                                                      *)

\* canonicalize_blueprint: the first blueprint of a sector stays; the same one
\* again is "idempotent", another one "conflict", and neither writes.
Canonicalize_Upserts(s, b) ==
  /\ canon' = [canon EXCEPT ![s] = b]
  /\ UNCHANGED <<log, tick, openGates, accepted>>
Canonicalize(s, b) ==
  /\ canon[s] = None
  /\ canon' = [canon EXCEPT ![s] = b]
  /\ UNCHANGED <<log, tick, openGates, accepted>>

-----------------------------------------------------------------------------
(* canon_mutation_repository.gd                                             *)

\* The content an event id is bound to.
Content(e) == [sector |-> e.sector, target |-> e.target, kind |-> e.kind,
               payload |-> e.payload, tick |-> e.tick, expected |-> e.expected]

SameContent_IgnoresTarget(r, e) == [Content(r) EXCEPT !.target = e.target] = Content(e)
SameContent(r, e) == Content(r) = Content(e)

ExpectsCurrent_Late(e, revision) == e.expected <= revision
ExpectsCurrent(e, revision) == e.expected = revision

\* apply_mutation up to the INSERT, having read the given revision.
Verdict(e, revision) ==
  LET used == {r \in log : r.id = e.id} IN
  IF canon[e.sector] = None THEN "sector_not_canon"
  ELSE IF e.target \notin TargetsOf[canon[e.sector]] THEN "target_not_found"
  ELSE IF used # {}
       THEN IF \E r \in used : SameContent(r, e) THEN "idempotent" ELSE "conflict"
  ELSE IF ~ExpectsCurrent(e, revision) THEN "revision_mismatch"
  ELSE "ok"

Row(e, revision) ==
  [id |-> e.id, sector |-> e.sector, target |-> e.target, kind |-> e.kind,
   payload |-> e.payload, tick |-> e.tick, expected |-> e.expected,
   applied |-> revision + 1]

\* A client is told "accepted": for a mutation, its own or one that was there.
Accept(answer, intent, revision) ==
  accepted' = accepted \cup {[answer |-> answer, intent |-> intent, revision |-> revision]}

\* The INSERT commits and the intent is accepted, or an earlier one answers.
Apply(e, revision, intent) ==
  \/ /\ Verdict(e, revision) = "ok"
     /\ log' = log \cup {Row(e, revision)}
     /\ Accept("mutation", intent, revision + 1)
  \/ /\ Verdict(e, revision) = "idempotent"
     /\ \E r \in log : r.id = e.id /\ Accept("mutation", intent, r.applied)
     /\ UNCHANGED log

-----------------------------------------------------------------------------
(* canon_mutation_service.gd                                                *)

\* The server-owned event of an intent: its id is a function of actor and
\* client_seq, its tick is the tick of the moment.
Event(i) ==
  [id |-> <<"mut", i.actor, i.seq>>, sector |-> i.sector, target |-> i.target,
   kind |-> i.kind, payload |-> i.payload, tick |-> tick, expected |-> i.expected]

ResolveIntent(i) ==
  /\ \E revision \in ReadRevision(i.sector) : Apply(Event(i), revision, i)
  /\ UNCHANGED <<canon, tick, openGates>>

-----------------------------------------------------------------------------
(* environmental_interaction_service.gd; reach and line of sight only       *)
(* refuse, and a refusal changes nothing.                                   *)

GateEvent(g) ==
  [id |-> <<"gate", g.actor, g.seq>>, sector |-> g.sector, target |-> g.target,
   kind |-> Unlock, payload |-> g.verb, tick |-> tick, expected |-> g.expected]

\* _find_target reads the base blueprint.
GateThere(s, t) == canon[s] # None /\ t \in TargetsOf[canon[s]] \cap Gates

\* _committed_unlock_revision: the first of the gate's unlocks, or 0; a failed SELECT
\* reads as 0.
Unlocks(s, t) == {r \in History(s) : r.target = t /\ IsUnlock(r)}
FirstUnlocks_AnyRow(s, t) == {r \in History(s) : r.target = t}
FirstUnlocks(s, t) ==
  {r \in Unlocks(s, t) : \A q \in Unlocks(s, t) : r.applied <= q.applied}
ReadUnlock(s, t) == {0} \cup {r.applied : r \in FirstUnlocks(s, t)}

\* An unlocked gate: "already_unlocked", "opened" and "already_open" tell the revision of
\* the unlock, whoever asks and with whatever verb.
AcceptUnlocked(g, unlock) == Accept("unlocked", [sector |-> g.sector, target |-> g.target], unlock)

UnlockGate(g) ==
  /\ GateThere(g.sector, g.target)
  /\ \E unlock \in ReadUnlock(g.sector, g.target) :
       \/ /\ unlock = 0
          /\ \E revision \in ReadRevision(g.sector) : Apply(GateEvent(g), revision, GateEvent(g))
       \/ unlock > 0 /\ AcceptUnlocked(g, unlock) /\ UNCHANGED log
  /\ UNCHANGED <<canon, tick, openGates>>

OpenGate_Unchecked(g) ==
  /\ GateThere(g.sector, g.target)
  /\ openGates' = openGates \cup {<<g.sector, g.target>>}
  /\ UNCHANGED <<canon, log, tick, accepted>>
OpenGate(g) ==
  /\ GateThere(g.sector, g.target)
  /\ \E unlock \in ReadUnlock(g.sector, g.target) : unlock > 0 /\ AcceptUnlocked(g, unlock)
  /\ openGates' = openGates \cup {<<g.sector, g.target>>}
  /\ UNCHANGED <<canon, log, tick>>

-----------------------------------------------------------------------------

Tick ==
  /\ tick < MaxTick
  /\ tick' = tick + 1
  /\ UNCHANGED <<canon, log, openGates, accepted>>

\* A new process: the tables stay, the tick and the open gates do not.
Restart ==
  /\ tick' = 0
  /\ openGates' = {}
  /\ UNCHANGED <<canon, log, accepted>>

Init ==
  /\ canon = [s \in Sectors |-> None]
  /\ log = {}
  /\ tick = 0
  /\ openGates = {}
  /\ accepted = {}

Next ==
  \/ \E s \in Sectors, b \in Blueprints : Canonicalize(s, b)
  \/ \E i \in Sent : ResolveIntent(i)
  \/ \E g \in Tried : UnlockGate(g)
  \/ \E g \in Tried : OpenGate(g)
  \/ Tick
  \/ Restart

Spec == Init /\ [][Next]_vars

-----------------------------------------------------------------------------
(* Properties.                                                              *)

Ids == {"mut", "gate"} \X Actors \X Seqs

\* Rows, open gates and answers have the shape the code gives them.
TypeOK ==
  /\ canon \in [Sectors -> Blueprints \cup {None}]
  /\ log \subseteq [id: Ids, sector: Sectors, target: Targets, kind: Kinds,
                    payload: Payloads, tick: 0 .. MaxTick, expected: Nat, applied: Nat]
  /\ tick \in 0 .. MaxTick
  /\ openGates \subseteq Sectors \X Gates
  /\ \A a \in accepted : a.revision \in Nat

\* The history of a sector always passes the integrity inspection, so the
\* server never quarantines a sector for what it wrote itself.
HistoriesInspectClean == \A s \in Sectors : History(s) # {} => InspectsClean(s)

\* Every answer "accepted" tells the revision of a row of the log.  An intent that was
\* accepted as a mutation finds there its own sector, target, kind, payload and expected
\* revision; whoever is told that a gate is unlocked or open, an unlock of that very gate.
LoggedAsAsked(r, intent) ==
  /\ r.kind = intent.kind /\ r.payload = intent.payload /\ r.expected = intent.expected
AcceptedIsLogged ==
  \A a \in accepted : \E r \in log :
    /\ r.applied = a.revision
    /\ r.sector = a.intent.sector /\ r.target = a.intent.target
    /\ IF a.answer = "mutation" THEN LoggedAsAsked(r, a.intent) ELSE IsUnlock(r)

\* The world a player sees only wears: whatever order mutations and restarts
\* come in, a destroyed structure never stands again, an unlocked gate never
\* locks again, and a canonical sector keeps its base.
WorldOnlyWears ==
  [][ \A s \in Sectors : canon[s] # None =>
        /\ canon'[s] = canon[s]
        /\ Effective(s)'.standing \subseteq Effective(s).standing
        /\ Effective(s).unlocked \cap Effective(s)'.standing \subseteq Effective(s)'.unlocked
    ]_vars

\* The open posture of a gate, which is not stored, never says more than the
\* log: an open gate has a committed unlock.
OpenGatesAreUnlocked == \A g \in openGates : g[2] \in Unlocked(g[1])

\* An intent sent again after it was applied resolves to the same mutation
\* (docs/slices/096-canon-mutation-intent-service.md:59).
RetransmissionIsIdempotent ==
  \A i \in Sent, a \in accepted :
    a.intent = i => Verdict(Event(i), CurrentRevision(i.sector)) = "idempotent"
=============================================================================
