------------------------------- MODULE Frontier -------------------------------
(***************************************************************************)
(* How a sector nobody has seen opens to players (src/server/server_main.gd *)
(* with provisional_sector_generator.gd, sector_boundary_detector.gd,      *)
(* canon_generation_coordinator.gd and jit_presentation_ack_tracker.gd): a *)
(* player pushes against it, its content is generated off the frame,       *)
(* becomes Canon, is presented to whoever waits, and admits a player once  *)
(* the client has acknowledged that very presentation.  Mutations, damage  *)
(* and failing reads revoke what was acknowledged.                         *)
(*                                                                         *)
(* One sector.  All tables are keyed by it; sectors meet only in the limits *)
(* of a peer's tables, where an entry of another one pushes an entry out   *)
(* (Evict).  A blueprint is the set of the sides from which its connected  *)
(* detail can be entered; mutations destroy entities, never tiles.         *)
(*                                                                         *)
(* A peer that has entered with no character can not move here.            *)
(* Left out: the journey in a binding (HolderKeepsJourney of Journeys says *)
(* that it does not change under a player), and that a refusal is told to  *)
(* a player only once.                                                     *)
(***************************************************************************)
EXTENDS Naturals

CONSTANTS
  Peers, Characters,
  Followed,       \* the peer whose fate FrontierOpens tells: they are interchangeable
  Sides,          \* where a player can stand before the sector
  Fallback,       \* per pinned side, the blueprint of the template around it
  MaxRevision,    \* bound: mutations
  Budgets,        \* bounds: of the traces with which a connection of a peer enters again or
                  \* pushes past the sector, and of what Fault counts
  None

ASSUME FrontierAssumption ==
  /\ Followed \in Peers
  /\ Fallback \in [Sides -> SUBSET Sides]
  /\ Budgets \subseteq [traces : [Peers -> Nat], faults : Nat]
  /\ MaxRevision \in Nat
  /\ None \notin Nat \cup Characters \cup Sides
  /\ None \notin [character : Characters \cup {None}, presentation : 0 .. MaxRevision]

VARIABLES
  canon,       \* the row of canon_sectors, or None
  revision,    \* how many rows canon_mutations has
  damaged,     \* what is stored does not pass the inspection
  generator,   \* the status in _sector_state
  proposal,    \* what the result there makes of the sector; None can not be admitted
  pinned,      \* the ingress in _sector_detail_requests
  waiting,     \* _sector_ingress_positions
  version,     \* _frontier_versions: a revision, with the detail of it
  quarantined, \* _quarantined_sectors
  bound,       \* _frontier_bindings: the character of a peer, None without one
  heading,     \* per peer, the side from which it moves into the sector
  attempted,   \* peers whose entry in _frontier_prepared_at_by_peer is fresh
  tracker,     \* per peer, the entries of the three tables of the tracker
  issued,      \* per peer, the last trace of a presentation
  underway,    \* presentations on the way to clients, being assembled there, or whose
               \* acknowledgements are on the way back
  faults,
  budget       \* the one of this behaviour

store == <<canon, revision, damaged>>
generation == <<generator, proposal, pinned>>
peers == <<bound, heading>>
vars == <<store, generation, waiting, version, quarantined, peers, attempted, tracker,
          issued, underway, faults>>

Nothing == [pending |-> None, ready |-> None]

Init ==
  /\ canon = None /\ revision = 0 /\ damaged = FALSE
  /\ generator = "unknown" /\ proposal = None /\ pinned = None
  /\ waiting = [p \in Peers |-> None]
  /\ version = None /\ quarantined = FALSE
  /\ bound = [p \in Peers |-> None] /\ heading = [p \in Peers |-> None]
  /\ attempted = {}
  /\ tracker = [p \in Peers |-> Nothing] /\ issued = [p \in Peers |-> 0]
  /\ underway = {}
  /\ faults = 0 /\ budget \in Budgets

\* Reads, writes and messages that fail or get lost, damage, entries pushed out by
\* other sectors, restarts.
Fault == faults < budget.faults /\ faults' = faults + 1

Plays(p) == bound[p] # None

-----------------------------------------------------------------------------
(* Readiness.                                                               *)

Binding(character, presentation) == [character |-> character, presentation |-> presentation]

\* is_ready() for the binding of now, and _frontier_position_ready() at a side.
Ready(p) == version # None /\ tracker[p].ready = Binding(bound[p], version)
Admits(p, side) == Ready(p) /\ side \in canon

\* _invalidate_frontier_sector()
Revoke ==
  /\ version' = None
  /\ tracker' = [p \in Peers |-> Nothing]

-----------------------------------------------------------------------------
(* Presentation.                                                            *)

\* pending_trace(): a token already pending for this binding is sent again.
Kept(entry, binding) == entry.pending # None /\ entry.pending.binding = binding

\* _present_frontier_sector() of a blueprint to some peers, each at its side, when the
\* players are bound as given and the tracker knows as given.  A read of the history that
\* fails revokes what was presented before; `after` are the peers presented later.  (What
\* was sent to the others has no token any more.)
PresentTo(at, blueprint, players, known, failed, after) ==
  LET entered == {p \in after : at[p] \in blueprint}
      before == IF failed THEN [p \in Peers |-> Nothing] ELSE known
      binding(p) == Binding(players[p], revision)
      kept == {p \in entered : Kept(before[p], binding(p))}
      trace(p) == IF p \in kept THEN before[p].pending.trace ELSE issued[p] + 1
  IN /\ version' = IF entered # {} THEN revision ELSE IF failed THEN None ELSE version
     /\ tracker' = [p \in Peers |->
          IF p \in entered \ kept
            THEN [pending |-> [trace |-> trace(p), binding |-> binding(p)], ready |-> None]
            ELSE before[p]]
     /\ issued' = [p \in Peers |-> IF p \in entered THEN trace(p) ELSE issued[p]]
     /\ underway' = underway \cup
          {[peer |-> p, trace |-> trace(p), binding |-> binding(p)] : p \in entered}

Present(at, blueprint, players, known) ==
  \/ PresentTo(at, blueprint, players, known, FALSE, DOMAIN at) /\ UNCHANGED faults
  \/ \E after \in SUBSET DOMAIN at :
       /\ after # DOMAIN at
       /\ PresentTo(at, blueprint, players, known, TRUE, after)
       /\ Fault

-----------------------------------------------------------------------------
(* Generation.                                                              *)

\* SectorDetailGeneration.prepare(): the candidate if it can be entered where the first
\* request came from, or the template around there, or nothing that can be admitted.  It
\* is repeated with each use of the result, and says the same each time.
Prepared(candidate, side) ==
  IF candidate = None \/ side \in candidate THEN candidate
  ELSE IF side \in Fallback[side] THEN Fallback[side] ELSE None

\* _on_provisional_sector_ready(): the result becomes Canon and is presented to all who
\* wait; or it is ignored, or could not be written, and they go on waiting.
Finalize(blueprint, waits, players, known) ==
  LET at == [p \in {q \in Peers : waits[q] # None} |-> waits[p]]
      ignore == waiting' = waits /\ tracker' = known
                  /\ UNCHANGED <<canon, version, issued, underway>>
  IN \/ /\ blueprint # None /\ canon \in {None, blueprint}
        /\ canon' = blueprint
        /\ Present(at, blueprint, players, known)
        /\ waiting' = [p \in Peers |-> None]
     \/ (blueprint = None \/ canon \notin {None, blueprint}) /\ ignore /\ UNCHANGED faults
     \/ blueprint # None /\ Fault /\ ignore

\* _run_request() comes back with the candidate of the model, a repair of it, or a template.
GeneratorAnswers ==
  /\ generator = "pending"
  /\ generator' = "ready"
  /\ proposal' \in {Prepared(candidate, pinned) : candidate \in {None} \cup SUBSET Sides}
  /\ Finalize(proposal', waiting, bound, tracker)
  /\ attempted' = attempted \cup {p \in Peers : waiting[p] # None /\ waiting'[p] = None}
  /\ UNCHANGED <<revision, damaged, pinned, quarantined, peers>>

\* mutant: a result is finalized only when it comes in
Request_JoinsOnly(p, side, players, known, waits) ==
  /\ pinned' = IF pinned = None THEN side ELSE pinned
  /\ generator' = IF generator = "unknown" THEN "pending" ELSE generator
  /\ waiting' = [waits EXCEPT ![p] = side] /\ tracker' = known
  /\ UNCHANGED <<canon, version, issued, underway, faults, quarantined>>

\* _request_sector_from_boundary(): join the request under way, start one, or try again to
\* finalize the result of the one that was.
Request(p, side, players, known, waits) ==
  LET joined == [waits EXCEPT ![p] = side] IN
  /\ pinned' = IF pinned = None THEN side ELSE pinned
  /\ IF generator = "ready"
     THEN Finalize(proposal, joined, players, known) /\ UNCHANGED generator
     ELSE /\ generator' = "pending"
          /\ waiting' = joined /\ tracker' = known
          /\ UNCHANGED <<canon, version, issued, underway, faults>>
  /\ UNCHANGED quarantined

\* _reload_sector_from_boundary(): damage quarantines the sector.  A base that can not be
\* read revokes like a history that can not (_handle_damaged_sector), which Present does.
Reload(p, side, players, known, waits) ==
  /\ \/ /\ ~damaged
        /\ Present([q \in {p} |-> side], canon, players, known)
        /\ UNCHANGED quarantined
     \/ /\ damaged
        /\ quarantined' = TRUE /\ Revoke
        /\ UNCHANGED <<issued, underway, faults>>
  /\ waiting' = waits
  /\ UNCHANGED <<canon, generator, pinned>>

Skip(known, waits) ==
  /\ waiting' = waits /\ tracker' = known
  /\ UNCHANGED <<canon, generator, pinned, version, quarantined, issued, underway>>

\* _prepare_frontier_position(): _boundary_has_canon() sends the peer one way or the other.
\* A lookup that fails counts as Canon, and so does a quarantine, which refuses the entry.
Prepare_FailsOpen(p, side, players, known, waits) ==
  IF quarantined THEN Skip(known, waits) /\ UNCHANGED faults
  ELSE \/ canon = None /\ Request(p, side, players, known, waits)
       \/ canon # None /\ Reload(p, side, players, known, waits)
       \/ canon # None /\ faults < budget.faults /\ Request(p, side, players, known, waits)
Prepare(p, side, players, known, waits) ==
  IF quarantined THEN Skip(known, waits) /\ UNCHANGED faults
  ELSE \/ canon = None /\ Request(p, side, players, known, waits)
       \/ canon = None /\ Fault /\ Skip(known, waits)
       \/ canon # None /\ Reload(p, side, players, known, waits)

\* Peers that were waiting and have been presented to.
Served(waits) == {p \in Peers : waits[p] # None /\ waiting'[p] = None}

\* _resolve_frontier_movement(): a step that is not admitted prepares the sector it leads
\* to, at most once in FRONTIER_PREPARATION_RETRY_MSEC.
Pushes(p) ==
  /\ Plays(p) /\ heading[p] # None /\ p \notin attempted
  /\ Prepare(p, heading[p], bound, tracker, waiting)
  /\ attempted' = attempted \cup {p} \cup Served(waiting)
  /\ UNCHANGED <<proposal, revision, damaged, peers>>

Push(p) == ~Admits(p, heading[p]) /\ Pushes(p)

\* So does a step that would be, were there not a sector on the way which is not ready.
PushPast(p) == Admits(p, heading[p]) /\ issued[p] < budget.traces[p] /\ Pushes(p)

RetryDue(p) ==
  /\ p \in attempted
  /\ attempted' = attempted \ {p}
  /\ UNCHANGED <<store, generation, waiting, version, quarantined, peers, tracker, issued,
                 underway, faults>>

-----------------------------------------------------------------------------
(* Players.                                                                 *)

Turn(p, side) ==
  /\ Plays(p) /\ side # heading[p]
  /\ heading' = [heading EXCEPT ![p] = side]
  /\ UNCHANGED <<store, generation, waiting, version, quarantined, bound, attempted, tracker,
                 issued, underway, faults>>

\* _on_player_state_character_bound(): everything known of the peer is forgotten, and the
\* place where the character enters is prepared, if it is in this sector.
EnterWorld(p, character, side) ==
  LET players == [bound EXCEPT ![p] = character]
      known == [tracker EXCEPT ![p] = Nothing]
      waits == [waiting EXCEPT ![p] = None]
  IN /\ issued[p] < budget.traces[p]
     /\ \A q \in Peers \ {p} : bound[q] # character
     /\ bound' = players
     /\ heading' = [heading EXCEPT ![p] = side]
     /\ IF side = None THEN Skip(known, waits) /\ UNCHANGED faults
        ELSE Prepare(p, side, players, known, waits)
     /\ attempted' = (attempted \ {p}) \cup (IF side = None THEN {} ELSE {p}) \cup Served(waits)
     /\ UNCHANGED <<proposal, revision, damaged>>

\* _on_peer_disconnected(); what was on the way to or from the peer is lost.
Disconnect(p) ==
  /\ Plays(p)
  /\ bound' = [bound EXCEPT ![p] = None] /\ heading' = [heading EXCEPT ![p] = None]
  /\ waiting' = [waiting EXCEPT ![p] = None]
  /\ attempted' = attempted \ {p}
  /\ tracker' = [tracker EXCEPT ![p] = Nothing]
  /\ issued' = [issued EXCEPT ![p] = 0]
  /\ underway' = {m \in underway : m.peer # p}
  /\ UNCHANGED <<store, generation, version, quarantined, faults>>

\* _on_canon_mutation_intent() of an intent that is applied.
Mutate_Silent ==
  /\ canon # None /\ ~quarantined /\ revision < MaxRevision
  /\ \E p \in Peers : Plays(p)
  /\ revision' = revision + 1
  /\ UNCHANGED <<canon, damaged, generation, waiting, version, tracker, quarantined, peers,
                 attempted, issued, underway, faults>>
Mutate ==
  /\ canon # None /\ ~quarantined /\ revision < MaxRevision
  /\ \E p \in Peers : Plays(p)
  /\ revision' = revision + 1
  /\ Revoke /\ attempted' = {}
  /\ UNCHANGED <<canon, damaged, generation, waiting, quarantined, peers, issued, underway,
                 faults>>

-----------------------------------------------------------------------------
(* Clients and what goes wrong.                                             *)

\* _on_client_telemetry_batch_received(): confirm_ready(), whose token and binding must be
\* those of now.
Confirms_AnyToken(m) ==
  /\ tracker[m.peer].pending # None /\ version # None
  /\ tracker[m.peer].pending.binding = Binding(bound[m.peer], version)
Confirms(m) ==
  /\ tracker[m.peer].pending # None /\ version # None
  /\ tracker[m.peer].pending.trace = m.trace
  /\ tracker[m.peer].pending.binding = Binding(bound[m.peer], version)

AckArrives(m) ==
  /\ underway' = underway \ {m}
  /\ tracker' = IF Confirms(m)
       THEN [tracker EXCEPT ![m.peer] = [pending |-> None, ready |-> @.pending.binding]]
       ELSE tracker
  /\ UNCHANGED <<store, generation, waiting, version, quarantined, peers, attempted, issued,
                 faults>>

\* A client without a scene drops all but the latest presentation; an acknowledgement is
\* sent unreliably, and refused by the limiter of telemetry.
Lose(m) ==
  /\ Fault
  /\ underway' = underway \ {m}
  /\ UNCHANGED <<store, generation, waiting, version, quarantined, peers, attempted, tracker,
                 issued>>

\* The tables of a peer hold MAX_PENDING_PER_PEER sectors: another one takes the place.
Evict(p) ==
  /\ tracker[p] # Nothing /\ Fault
  /\ tracker' = [tracker EXCEPT ![p] = Nothing]
  /\ UNCHANGED <<store, generation, waiting, version, quarantined, peers, attempted, issued,
                 underway>>

Damage ==
  /\ canon # None /\ ~damaged /\ Fault
  /\ damaged' = TRUE
  /\ UNCHANGED <<canon, revision, generation, waiting, version, quarantined, peers, attempted,
                 tracker, issued, underway>>

\* A new process has the store, and nobody is connected.
Restart ==
  /\ Fault
  /\ generator' = "unknown" /\ proposal' = None /\ pinned' = None
  /\ waiting' = [p \in Peers |-> None]
  /\ version' = None /\ quarantined' = FALSE
  /\ bound' = [p \in Peers |-> None] /\ heading' = [p \in Peers |-> None]
  /\ attempted' = {}
  /\ tracker' = [p \in Peers |-> Nothing] /\ issued' = [p \in Peers |-> 0]
  /\ underway' = {}
  /\ UNCHANGED store

-----------------------------------------------------------------------------
Next ==
  \/ GeneratorAnswers \/ Mutate \/ Damage \/ Restart
  \/ \E p \in Peers :
       \/ Push(p) \/ PushPast(p) \/ RetryDue(p)
       \/ Disconnect(p) \/ Evict(p)
       \/ \E side \in Sides : Turn(p, side)
       \/ \E side \in Sides \cup {None}, c \in Characters : EnterWorld(p, c, side)
  \/ \E m \in underway : AckArrives(m) \/ Lose(m)

\* The physics frame moves every player, time passes, the model is given a deadline, and a
\* client assembles what it gets and acknowledges it.
Fairness ==
  /\ WF_vars(GeneratorAnswers)
  /\ \A p \in Peers :
       /\ WF_vars(Push(p)) /\ WF_vars(RetryDue(p))
       /\ WF_vars(\E m \in underway : m.peer = p /\ AckArrives(m))

Spec == Init /\ [][Next /\ UNCHANGED budget]_<<vars, budget>> /\ Fairness

-----------------------------------------------------------------------------
(* Properties.                                                              *)

Bindings == [character : Characters, presentation : 0 .. MaxRevision]
Pendings == [trace : Nat, binding : Bindings]
Trackers == [Peers -> [pending : Pendings \cup {None}, ready : Bindings \cup {None}]]
Presentations == [peer : Peers, trace : Nat, binding : Bindings]

\* What the tables, and the messages, of one sector can hold.
TypeOK ==
  /\ canon \in (SUBSET Sides) \cup {None} /\ revision \in 0 .. MaxRevision /\ damaged \in BOOLEAN
  /\ generator \in {"unknown", "pending", "ready"}
  /\ proposal \in (SUBSET Sides) \cup {None} /\ pinned \in Sides \cup {None}
  /\ waiting \in [Peers -> Sides \cup {None}] /\ heading \in [Peers -> Sides \cup {None}]
  /\ version \in (0 .. MaxRevision) \cup {None} /\ quarantined \in BOOLEAN
  /\ bound \in [Peers -> Characters \cup {None}]
  /\ attempted \subseteq Peers
  /\ tracker \in Trackers /\ issued \in [Peers -> Nat]
  /\ underway \subseteq Presentations
  /\ faults \in Nat /\ budget \in Budgets

\* A player becomes ready for a sector only by an acknowledgement that its own client
\* sent of what it had assembled for this character, of the sector as it is now: no
\* late, repeated or lost message, and no change of character or of the sector in between,
\* lets it walk on what it has not seen (jit_presentation_ack_tracker.gd:74-91).
ReadinessIsEarned ==
  [][\A p \in Peers : Ready(p)' /\ ~Ready(p) =>
       \E m \in underway \ underway' :
         m.peer = p /\ m.binding = Binding(bound[p], revision)]_vars

\* Whoever is admitted plays, walks on the latest revision, and not in a sector that is
\* quarantined (server_main.gd:1318-1343).
AdmittedIsCurrent ==
  \A p \in Peers, side \in Sides :
    Admits(p, side) => Plays(p) /\ version = revision /\ ~quarantined

\* A sector that is Canon is never asked of the model again, also by a new process, and
\* also when the store can not be read at that moment (server_main.gd:963-968).
KnownIsNotRegenerated == generator = "pending" => canon = None

\* What is Canon stands: players are on its latest revision, and it is made once.
CanonStands == AdmittedIsCurrent /\ KnownIsNotRegenerated

\* Whoever keeps moving into a sector from some side is admitted, or the sector has no way
\* in there: whatever was lost, late, revoked or could not be written meanwhile, a retry
\* makes up for it (_prepare_frontier_position()).  A generator that came back with
\* nothing admissible is not asked again before a restart.
Wants(p, side) == Plays(p) /\ heading[p] = side
Shut(side) ==
  \/ quarantined
  \/ canon # None /\ side \notin canon
  \/ canon = None /\ generator = "ready" /\ proposal = None
Opens(p, side) == Wants(p, side) ~> (Admits(p, side) \/ ~Wants(p, side) \/ Shut(side))
FrontierOpens == \A side \in Sides : Opens(Followed, side)
=============================================================================
