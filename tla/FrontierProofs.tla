---------------------------- MODULE FrontierProofs ----------------------------
(***************************************************************************)
(* Proofs about Frontier, for any number of peers, characters and sides, any *)
(* templates and bounds: what is Canon stands, and readiness is earned.    *)
(***************************************************************************)
EXTENDS Frontier, TLAPS

\* What is presented is the sector of now, which is Canon, open, and not being made.
Standing ==
  /\ version \in {None, revision}
  /\ version # None => canon # None /\ ~quarantined
  /\ quarantined => canon # None
  /\ generator = "pending" => canon = None /\ pinned # None

\* Who does not play has no entry in the tracker, and whoever is ready there is so for the
\* character that plays and for what is presented.
Owned(players, known, shown) ==
  \A p \in Peers :
    /\ players[p] = None => known[p] = Nothing
    /\ known[p].ready # None => shown # None /\ known[p].ready = Binding(players[p], shown)

\* A trace names one presentation: what is pending is the last one, which is the one sent
\* with its trace.
Traced ==
  /\ \A m \in underway : m.trace <= issued[m.peer]
  /\ \A p \in Peers : tracker[p].pending # None => tracker[p].pending.trace = issued[p]
  /\ \A m \in underway :
       tracker[m.peer].pending # None /\ tracker[m.peer].pending.trace = m.trace =>
         tracker[m.peer].pending.binding = m.binding

\* Only who plays waits.
Waits(players, waits) == \A p \in Peers : players[p] = None => waits[p] = None

Inv ==
  TypeOK /\ Standing /\ Owned(bound, tracker, version) /\ Traced /\ Waits(bound, waiting)

-----------------------------------------------------------------------------
(* Presentation.                                                            *)

\* The players, the tracker and those who wait, as a peer that enters has left them.
Given(players, known, waits) ==
  /\ players \in [Peers -> Characters \cup {None}]
  /\ known \in Trackers /\ waits \in [Peers -> Sides \cup {None}]
  /\ \A p \in Peers : known[p] \in {tracker[p], Nothing}
  /\ Owned(players, known, version)
  /\ Waits(players, waits)

\* Presenting makes nobody ready, and leaves the tracker in order.
Shows(players, known) ==
  /\ version' \in {None, revision}
  /\ tracker' \in Trackers /\ issued' \in [Peers -> Nat] /\ underway' \subseteq Presentations
  /\ Owned(players, tracker', version')
  /\ Traced'
  /\ \A p \in Peers : tracker'[p].ready # None => known[p].ready # None

LEMMA NothingType == Nothing \in [pending : Pendings \cup {None}, ready : Bindings \cup {None}]
  BY DEF Nothing

LEMMA BindingNotNone ==
  ASSUME NEW c \in Characters \cup {None}, NEW v \in 0 .. MaxRevision
  PROVE  Binding(c, v) # None
  BY FrontierAssumption DEF Binding

\* Nothing in the tracker, or some of what was there, with nothing sent, keeps the traces.
LEMMA LessIsTraced ==
  ASSUME TypeOK, Traced, UNCHANGED issued, underway' \subseteq underway, tracker' \in Trackers,
         \A p \in Peers : tracker'[p].pending \in {tracker[p].pending, None}
  PROVE  Traced'
  <1>1. \A m \in underway' : m \in underway /\ m.peer \in Peers
    BY DEF TypeOK, Presentations
  <1> QED
    BY <1>1 DEF Traced

LEMMA PresentToShows ==
  ASSUME TypeOK, Standing, Traced,
         NEW players, NEW known, NEW waits, Given(players, known, waits),
         NEW at, DOMAIN at \subseteq Peers, \A p \in DOMAIN at : players[p] # None,
         NEW blueprint, NEW failed \in BOOLEAN, NEW after \in SUBSET DOMAIN at,
         PresentTo(at, blueprint, players, known, failed, after)
  PROVE  Shows(players, known)
  <1> DEFINE entered == {p \in after : at[p] \in blueprint}
             before == IF failed THEN [p \in Peers |-> Nothing] ELSE known
             binding(p) == Binding(players[p], revision)
             kept == {p \in entered : Kept(before[p], binding(p))}
             trace(p) == IF p \in kept THEN before[p].pending.trace ELSE issued[p] + 1
             entry(p) == [pending |-> [trace |-> trace(p), binding |-> binding(p)], ready |-> None]
             sent == {[peer |-> p, trace |-> trace(p), binding |-> binding(p)] : p \in entered}
  <1>1. /\ version' = IF entered # {} THEN revision ELSE IF failed THEN None ELSE version
        /\ tracker' = [p \in Peers |-> IF p \in entered \ kept THEN entry(p) ELSE before[p]]
        /\ issued' = [p \in Peers |-> IF p \in entered THEN trace(p) ELSE issued[p]]
        /\ underway' = underway \cup sent
    BY DEF PresentTo
  <1>2. /\ before \in Trackers
        /\ \A p \in Peers : before[p] \in {tracker[p], Nothing}
        /\ \A p \in Peers : players[p] = None => before[p] = Nothing
        /\ \A p \in Peers : before[p].ready # None =>
             ~failed /\ before[p] = known[p] /\ version # None
               /\ known[p].ready = Binding(players[p], version)
    BY NothingType DEF Given, Owned, Trackers, Nothing
  <1>3. \A p \in entered : p \in Peers /\ players[p] \in Characters /\ binding(p) \in Bindings
    BY DEF Given, TypeOK, Bindings, Binding
  <1>4. \A p \in kept : /\ before[p].pending # None /\ before[p].pending = tracker[p].pending
                        /\ before[p].pending \in Pendings
                        /\ before[p].pending.binding = binding(p)
                        /\ before[p].pending.trace = issued[p]
    <2> SUFFICES ASSUME NEW p \in kept
                 PROVE  /\ before[p].pending # None /\ before[p].pending = tracker[p].pending
                        /\ before[p].pending \in Pendings
                        /\ before[p].pending.binding = binding(p)
                        /\ before[p].pending.trace = issued[p]
      OBVIOUS
    <2>1. p \in Peers /\ before[p].pending # None /\ before[p].pending.binding = binding(p)
      BY <1>3 DEF Kept
    <2>2. before[p] = tracker[p]
      BY <2>1, <1>2 DEF Nothing
    <2>3. before[p].pending \in Pendings
      BY <2>1, <1>2 DEF Trackers
    <2> QED
      BY <2>1, <2>2, <2>3 DEF Traced
  <1>5. \A p \in entered : trace(p) \in Nat /\ trace(p) = IF p \in kept THEN issued[p] ELSE issued[p] + 1
    BY <1>3, <1>4 DEF TypeOK
  <1>6. /\ issued' \in [Peers -> Nat]
        /\ \A p \in Peers : issued'[p] = IF p \in entered \ kept THEN issued[p] + 1 ELSE issued[p]
    BY <1>1, <1>5 DEF TypeOK
  <1>7. underway' \subseteq Presentations
    BY <1>1, <1>3, <1>5 DEF TypeOK, Presentations
  <1>8. \A p \in entered : entry(p) \in [pending : Pendings \cup {None}, ready : Bindings \cup {None}]
    BY <1>3, <1>5 DEF Pendings
  <1>9. tracker' \in Trackers
    BY <1>1, <1>2, <1>8 DEF Trackers
  <1>10. version' \in {None, revision}
    BY <1>1 DEF Standing
  <1>11. \A p \in Peers : tracker'[p].ready # None =>
           /\ p \notin entered \ kept /\ ~failed /\ tracker'[p] = known[p]
           /\ version # None /\ known[p].ready = Binding(players[p], version)
    BY <1>1, <1>2
  <1>12. Owned(players, tracker', version')
    <2>1. ASSUME NEW p \in Peers, players[p] = None PROVE tracker'[p] = Nothing
      BY <2>1, <1>1, <1>2
    <2>2. ASSUME NEW p \in Peers, tracker'[p].ready # None
          PROVE  version' # None /\ tracker'[p].ready = Binding(players[p], version')
      BY <2>2, <1>11, <1>1 DEF Standing
    <2> QED
      BY <2>1, <2>2 DEF Owned
  <1>13. Traced'
    <2>1. ASSUME NEW m \in underway' PROVE m.trace <= issued'[m.peer]
      <3>1. CASE m \in underway
        BY <3>1, <1>6 DEF Traced, TypeOK, Presentations
      <3>2. CASE m \in sent
        BY <3>2, <1>5, <1>6, <1>3 DEF TypeOK
      <3> QED
        BY <3>1, <3>2, <1>1
    <2>2. ASSUME NEW p \in Peers, tracker'[p].pending # None
          PROVE  tracker'[p].pending.trace = issued'[p]
      <3>1. CASE p \in entered \ kept
        BY <3>1, <1>1, <1>5, <1>6
      <3>2. CASE p \notin entered \ kept
        BY <2>2, <3>2, <1>1, <1>2, <1>6 DEF Traced, Nothing
      <3> QED
        BY <3>1, <3>2
    <2>3. ASSUME NEW m \in underway', tracker'[m.peer].pending # None,
                 tracker'[m.peer].pending.trace = m.trace
          PROVE  tracker'[m.peer].pending.binding = m.binding
      <3> DEFINE p == m.peer
      <3>0. p \in Peers
        BY <1>7 DEF Presentations
      <3>1. CASE m \in sent /\ p \in kept
        BY <3>0, <3>1, <1>1, <1>4
      <3>2. CASE m \in sent /\ p \notin kept
        BY <3>0, <3>2, <1>1
      <3>3. CASE m \in underway /\ p \in entered \ kept
        <4>1. m.trace <= issued[p] /\ m.trace \in Nat /\ issued[p] \in Nat
          BY <3>0, <3>3 DEF Traced, TypeOK, Presentations
        <4>2. m.trace = issued[p] + 1
          BY <3>0, <3>3, <2>3, <1>1, <1>5
        <4> QED
          BY <4>1, <4>2
      <3>4. CASE m \in underway /\ p \notin entered \ kept
        <4>1. tracker'[p] = before[p] /\ before[p].pending # None
          BY <3>0, <3>4, <2>3, <1>1
        <4>2. before[p] = tracker[p]
          BY <3>0, <4>1, <1>2 DEF Nothing
        <4> QED
          BY <4>1, <4>2, <3>4, <2>3 DEF Traced
      <3> QED
        BY <3>1, <3>2, <3>3, <3>4, <1>1
    <2> QED
      BY <2>1, <2>2, <2>3 DEF Traced
  <1>14. \A p \in Peers : tracker'[p].ready # None => known[p].ready # None
    BY <1>11
  <1> QED
    BY <1>6, <1>7, <1>9, <1>10, <1>12, <1>13, <1>14 DEF Shows

\* What presentation, generation and refusal leave to the rest of a step.
Order(players, known) ==
  /\ Shows(players, known)
  /\ canon' \in (SUBSET Sides) \cup {None} /\ (canon # None => canon' # None)
  /\ version' # None => canon' # None
  /\ waiting' \in [Peers -> Sides \cup {None}] /\ Waits(players, waiting')
  /\ faults' \in Nat

LEMMA PresentShows ==
  ASSUME TypeOK, Standing, Traced,
         NEW players, NEW known, NEW waits, Given(players, known, waits),
         NEW at, DOMAIN at \subseteq Peers, \A p \in DOMAIN at : players[p] # None,
         NEW blueprint, Present(at, blueprint, players, known)
  PROVE  Shows(players, known) /\ faults' \in Nat
  <1>1. faults' \in Nat
    <2>1. faults' = faults \/ faults' = faults + 1
      BY DEF Present, Fault
    <2> QED
      BY <2>1 DEF TypeOK
  <1>2. CASE PresentTo(at, blueprint, players, known, FALSE, DOMAIN at)
    BY <1>1, <1>2, PresentToShows
  <1>3. ASSUME NEW after \in SUBSET DOMAIN at,
               PresentTo(at, blueprint, players, known, TRUE, after)
        PROVE  Shows(players, known)
    BY <1>3, PresentToShows
  <1> QED
    BY <1>1, <1>2, <1>3 DEF Present

LEMMA IdleShows ==
  ASSUME TypeOK, Standing, Traced,
         NEW players, NEW known, NEW waits, Given(players, known, waits),
         tracker' = known, UNCHANGED <<version, issued, underway>>
  PROVE  Shows(players, known)
  <1>1. Traced'
    <2>1. \A p \in Peers : tracker'[p].pending \in {tracker[p].pending, None}
      BY DEF Given, Nothing
    <2> QED
      BY <2>1, LessIsTraced DEF Given
  <1> QED
    BY <1>1 DEF Shows, Given, Standing, TypeOK

LEMMA RevokeShows ==
  ASSUME TypeOK, Standing, Traced, NEW players, NEW known, Revoke, UNCHANGED <<issued, underway>>
  PROVE  Shows(players, known)
  <1>1. tracker' \in Trackers /\ \A p \in Peers : tracker'[p] = Nothing
    BY NothingType DEF Revoke, Trackers
  <1>2. Traced'
    BY <1>1, LessIsTraced DEF Nothing
  <1> QED
    BY <1>1, <1>2 DEF Shows, Owned, Revoke, Nothing, TypeOK

-----------------------------------------------------------------------------
(* Generation.                                                              *)

LEMMA FinalizeOrder ==
  ASSUME TypeOK, Standing, Traced,
         NEW players, NEW known, NEW waits, Given(players, known, waits),
         NEW blueprint \in (SUBSET Sides) \cup {None},
         Finalize(blueprint, waits, players, known)
  PROVE  Order(players, known)
  <1> DEFINE at == [p \in {q \in Peers : waits[q] # None} |-> waits[p]]
             ignore == waiting' = waits /\ tracker' = known
                         /\ UNCHANGED <<canon, version, issued, underway>>
  <1>1. CASE /\ blueprint # None /\ canon \in {None, blueprint}
             /\ canon' = blueprint
             /\ Present(at, blueprint, players, known)
             /\ waiting' = [p \in Peers |-> None]
    <2>1. DOMAIN at \subseteq Peers /\ \A p \in DOMAIN at : players[p] # None
      BY DEF Given, Waits
    <2> HIDE DEF at
    <2>2. Shows(players, known) /\ faults' \in Nat
      BY <1>1, <2>1, PresentShows
    <2> QED
      BY <1>1, <2>2 DEF Order, Waits
  <1>2. CASE ignore /\ (UNCHANGED faults \/ Fault)
    <2>1. Shows(players, known)
      BY <1>2, IdleShows
    <2> QED
      BY <1>2, <2>1 DEF Order, Given, Standing, TypeOK, Fault
  <1> QED
    BY <1>1, <1>2 DEF Finalize

LEMMA PrepareOrder ==
  ASSUME Inv, NEW players, NEW known, NEW waits, Given(players, known, waits),
         NEW p \in Peers, players[p] # None, NEW side \in Sides,
         Prepare(p, side, players, known, waits), UNCHANGED <<proposal, revision, damaged>>
  PROVE  /\ Order(players, known)
         /\ generator' \in {"unknown", "pending", "ready"} /\ pinned' \in Sides \cup {None}
         /\ quarantined' \in BOOLEAN
         /\ Standing'
  <1>1. CASE Skip(known, waits) /\ (UNCHANGED faults \/ Fault)
    <2>1. Shows(players, known)
      BY <1>1, IdleShows DEF Skip, Inv
    <2> QED
      BY <1>1, <2>1 DEF Skip, Order, Inv, Standing, TypeOK, Given, Fault
  <1>2. CASE ~quarantined /\ canon = None /\ Request(p, side, players, known, waits)
    <2> DEFINE joined == [waits EXCEPT ![p] = side]
    <2>1. Given(players, known, joined)
      BY DEF Given, Waits
    <2>2. /\ pinned' \in Sides \cup {None} /\ pinned' # None /\ UNCHANGED quarantined
      BY <1>2, FrontierAssumption DEF Request, Inv, TypeOK
    <2>3. CASE generator = "ready" /\ Finalize(proposal, joined, players, known) /\ UNCHANGED generator
      <3> HIDE DEF joined
      <3>1. Order(players, known)
        BY <2>1, <2>3, FinalizeOrder DEF Inv, TypeOK
      <3> QED
        BY <1>2, <2>2, <2>3, <3>1 DEF Order, Shows, Inv, TypeOK, Standing
    <2>4. CASE /\ generator' = "pending"
               /\ waiting' = joined /\ tracker' = known
               /\ UNCHANGED <<canon, version, issued, underway, faults>>
      <3> HIDE DEF joined
      <3>1. Shows(players, known)
        BY <2>1, <2>4, IdleShows DEF Inv
      <3> QED
        BY <1>2, <2>1, <2>2, <2>4, <3>1 DEF Order, Given, Inv, TypeOK, Standing
    <2> QED
      BY <1>2, <2>3, <2>4 DEF Request
  <1>3. CASE ~quarantined /\ canon # None /\ Reload(p, side, players, known, waits)
    <2> DEFINE at == [q \in {p} |-> side]
    <2>1. DOMAIN at \subseteq Peers /\ \A q \in DOMAIN at : players[q] # None
      OBVIOUS
    <2>2. /\ waiting' = waits /\ UNCHANGED <<canon, generator, pinned>>
      BY <1>3 DEF Reload
    <2>3. CASE Present(at, canon, players, known) /\ UNCHANGED quarantined
      <3> HIDE DEF at
      <3>1. Shows(players, known) /\ faults' \in Nat
        BY <2>1, <2>3, PresentShows DEF Inv
      <3> QED
        BY <1>3, <2>2, <2>3, <3>1 DEF Order, Shows, Given, Inv, TypeOK, Standing
    <2>4. CASE quarantined' = TRUE /\ Revoke /\ UNCHANGED <<issued, underway, faults>>
      <3>1. Shows(players, known)
        BY <2>4, RevokeShows DEF Inv
      <3> QED
        BY <1>3, <2>2, <2>4, <3>1 DEF Order, Given, Inv, TypeOK, Standing, Revoke
    <2> QED
      BY <1>3, <2>3, <2>4 DEF Reload
  <1> QED
    BY <1>1, <1>2, <1>3 DEF Prepare

LEMMA PreparedType ==
  ASSUME NEW candidate \in {None} \cup SUBSET Sides, NEW side \in Sides
  PROVE  Prepared(candidate, side) \in (SUBSET Sides) \cup {None}
  <1>1. Fallback[side] \in SUBSET Sides
    BY FrontierAssumption
  <1>2. CASE candidate = None \/ side \in candidate
    BY <1>2 DEF Prepared
  <1>3. CASE ~(candidate = None \/ side \in candidate)
    <2>1. Prepared(candidate, side) = IF side \in Fallback[side] THEN Fallback[side] ELSE None
      BY <1>3 DEF Prepared
    <2> QED
      BY <1>1, <2>1
  <1> QED
    BY <1>2, <1>3

-----------------------------------------------------------------------------
(* The steps.                                                               *)

\* Whoever is ready after a step was so before it.
NobodyNewlyReady == \A p \in Peers : tracker'[p].ready # None => tracker[p].ready # None

LEMMA NowGiven ==
  ASSUME Inv PROVE Given(bound, tracker, waiting)
  BY DEF Inv, TypeOK, Given

LEMMA GeneratorStep ==
  ASSUME Inv, GeneratorAnswers, UNCHANGED budget PROVE Inv' /\ NobodyNewlyReady
  <1>1. proposal' \in (SUBSET Sides) \cup {None}
    BY PreparedType DEF GeneratorAnswers, Inv, TypeOK, Standing
  <1>2. Finalize(proposal', waiting, bound, tracker)
    BY DEF GeneratorAnswers
  <1>3. Order(bound, tracker)
    BY <1>1, <1>2, NowGiven, FinalizeOrder DEF Inv
  <1>4. generator' = "ready" /\ attempted' \subseteq Peers
        /\ UNCHANGED <<revision, damaged, pinned, quarantined, bound, heading, budget>>
    BY DEF GeneratorAnswers, peers, Inv, TypeOK
  <1>5. TypeOK'
    BY <1>1, <1>3, <1>4 DEF Inv, TypeOK, Order, Shows
  <1>6. Standing'
    BY <1>3, <1>4 DEF GeneratorAnswers, Inv, Standing, Order, Shows
  <1> QED
    BY <1>3, <1>4, <1>5, <1>6 DEF Inv, Order, Shows, Waits, NobodyNewlyReady, Owned

LEMMA PushStep ==
  ASSUME Inv, NEW p \in Peers, Pushes(p), UNCHANGED budget PROVE Inv' /\ NobodyNewlyReady
  <1>1. /\ bound[p] # None /\ heading[p] \in Sides
        /\ Prepare(p, heading[p], bound, tracker, waiting)
        /\ attempted' = attempted \cup {p} \cup Served(waiting)
        /\ UNCHANGED <<proposal, revision, damaged, bound, heading>>
    BY DEF Pushes, Plays, Inv, TypeOK, peers
  <1>2. /\ Order(bound, tracker)
        /\ generator' \in {"unknown", "pending", "ready"} /\ pinned' \in Sides \cup {None}
        /\ quarantined' \in BOOLEAN
        /\ Standing'
    BY <1>1, NowGiven, PrepareOrder
  <1>3. TypeOK'
    BY <1>1, <1>2 DEF Inv, TypeOK, Order, Shows, Served
  <1> QED
    BY <1>1, <1>2, <1>3 DEF Inv, Order, Shows, Waits, NobodyNewlyReady, Owned

LEMMA EnterStep ==
  ASSUME Inv, NEW p \in Peers, NEW c \in Characters, NEW side \in Sides \cup {None},
         EnterWorld(p, c, side), UNCHANGED budget
  PROVE  Inv' /\ NobodyNewlyReady
  <1> DEFINE players == [bound EXCEPT ![p] = c]
             known == [tracker EXCEPT ![p] = Nothing]
             waits == [waiting EXCEPT ![p] = None]
  <1>1. /\ bound' = players /\ heading' = [heading EXCEPT ![p] = side]
        /\ attempted' = (attempted \ {p}) \cup (IF side = None THEN {} ELSE {p}) \cup Served(waits)
        /\ UNCHANGED <<proposal, revision, damaged>>
        /\ \/ Skip(known, waits) /\ UNCHANGED faults
           \/ side # None /\ Prepare(p, side, players, known, waits)
    BY DEF EnterWorld
  <1>2. Given(players, known, waits)
    <2>1. /\ players \in [Peers -> Characters \cup {None}]
          /\ known \in Trackers /\ waits \in [Peers -> Sides \cup {None}]
      BY NothingType DEF Inv, TypeOK, Trackers
    <2>2. /\ \A q \in Peers : known[q] = IF q = p THEN Nothing ELSE tracker[q]
          /\ \A q \in Peers : players[q] = IF q = p THEN c ELSE bound[q]
          /\ \A q \in Peers : waits[q] = IF q = p THEN None ELSE waiting[q]
      BY DEF Inv, TypeOK, Trackers
    <2>3. Owned(players, known, version)
      BY <2>2 DEF Inv, Owned, Nothing
    <2> QED
      BY <2>1, <2>2, <2>3 DEF Given, Waits, Inv
  <1>3. players[p] # None /\ \A q \in Peers : known[q].ready # None => tracker[q].ready # None
    BY FrontierAssumption DEF Inv, TypeOK, Trackers, Nothing
  <1>4. heading' \in [Peers -> Sides \cup {None}] /\ bound' \in [Peers -> Characters \cup {None}]
        /\ attempted' \subseteq Peers
    BY <1>1 DEF Inv, TypeOK, Served
  <1> HIDE DEF players, known, waits
  <1>5. /\ Order(players, known)
        /\ generator' \in {"unknown", "pending", "ready"} /\ pinned' \in Sides \cup {None}
        /\ quarantined' \in BOOLEAN
        /\ Standing'
    <2>1. CASE Skip(known, waits) /\ UNCHANGED faults
      <3>1. Shows(players, known)
        BY <1>2, <2>1, IdleShows DEF Skip, Inv
      <3> QED
        BY <1>1, <1>2, <2>1, <3>1 DEF Skip, Order, Inv, Standing, TypeOK, Given
    <2>2. CASE side # None /\ Prepare(p, side, players, known, waits)
      BY <1>1, <1>2, <1>3, <2>2, PrepareOrder
    <2> QED
      BY <1>1, <2>1, <2>2
  <1>6. TypeOK'
    BY <1>1, <1>4, <1>5 DEF Inv, TypeOK, Order, Shows
  <1>7. Owned(bound', tracker', version') /\ Traced' /\ Waits(bound', waiting')
    BY <1>1, <1>5 DEF Order, Shows
  <1>8. NobodyNewlyReady
    BY <1>3, <1>5 DEF Order, Shows, NobodyNewlyReady
  <1> QED
    BY <1>5, <1>6, <1>7, <1>8 DEF Inv, Owned, Waits

LEMMA DisconnectStep ==
  ASSUME Inv, NEW p \in Peers, Disconnect(p), UNCHANGED budget PROVE Inv' /\ NobodyNewlyReady
  <1>1. /\ bound' = [bound EXCEPT ![p] = None] /\ heading' = [heading EXCEPT ![p] = None]
        /\ waiting' = [waiting EXCEPT ![p] = None] /\ attempted' = attempted \ {p}
        /\ tracker' = [tracker EXCEPT ![p] = Nothing] /\ issued' = [issued EXCEPT ![p] = 0]
        /\ underway' = {m \in underway : m.peer # p}
        /\ UNCHANGED <<canon, revision, damaged, generator, proposal, pinned, version,
                       quarantined, faults>>
    BY DEF Disconnect, store, generation
  <1>2. TypeOK'
    BY <1>1, NothingType DEF Inv, TypeOK, Trackers
  <1>3. \A q \in Peers :
          /\ tracker'[q] = IF q = p THEN Nothing ELSE tracker[q]
          /\ bound'[q] = IF q = p THEN None ELSE bound[q]
          /\ waiting'[q] = IF q = p THEN None ELSE waiting[q]
          /\ issued'[q] = IF q = p THEN 0 ELSE issued[q]
    BY <1>1 DEF Inv, TypeOK, Trackers
  <1>4. Standing'
    BY <1>1 DEF Inv, Standing
  <1>5. Owned(bound, tracker, version)' /\ Waits(bound, waiting)' /\ NobodyNewlyReady
    BY <1>1, <1>3 DEF Inv, Owned, Waits, NobodyNewlyReady, Nothing
  <1>6. Traced'
    BY <1>1, <1>3 DEF Inv, Traced, Nothing, TypeOK, Presentations
  <1> QED
    BY <1>2, <1>4, <1>5, <1>6 DEF Inv

LEMMA MutateStep ==
  ASSUME Inv, Mutate, UNCHANGED budget PROVE Inv' /\ NobodyNewlyReady
  <1>1. /\ revision' = revision + 1 /\ revision < MaxRevision /\ canon # None /\ ~quarantined
        /\ Revoke /\ attempted' = {}
        /\ UNCHANGED <<canon, damaged, generator, proposal, pinned, waiting, quarantined, bound,
                       heading, issued, underway, faults>>
    BY DEF Mutate, generation, peers
  <1>2. tracker' \in Trackers /\ version' = None /\ \A p \in Peers : tracker'[p] = Nothing
    BY <1>1, NothingType DEF Revoke, Trackers
  <1>3. revision' \in 0 .. MaxRevision
    BY <1>1, FrontierAssumption DEF Inv, TypeOK
  <1>4. TypeOK'
    BY <1>1, <1>2, <1>3 DEF Inv, TypeOK
  <1>5. Traced'
    BY <1>1, <1>2, LessIsTraced DEF Inv, Nothing
  <1> QED
    BY <1>1, <1>2, <1>4, <1>5
    DEF Inv, Standing, Owned, Waits, NobodyNewlyReady, Nothing

LEMMA EvictStep ==
  ASSUME Inv, NEW p \in Peers, Evict(p), UNCHANGED budget PROVE Inv' /\ NobodyNewlyReady
  <1>1. /\ tracker' = [tracker EXCEPT ![p] = Nothing] /\ faults' = faults + 1
        /\ UNCHANGED <<canon, revision, damaged, generator, proposal, pinned, waiting, version,
                       quarantined, bound, heading, attempted, issued, underway>>
    BY DEF Evict, Fault, store, generation, peers
  <1>2. tracker' \in Trackers
        /\ \A q \in Peers : tracker'[q] = IF q = p THEN Nothing ELSE tracker[q]
    BY <1>1, NothingType DEF Inv, TypeOK, Trackers
  <1>3. TypeOK'
    BY <1>1, <1>2 DEF Inv, TypeOK
  <1>4. Traced'
    BY <1>1, <1>2, LessIsTraced DEF Inv, Nothing
  <1> QED
    BY <1>1, <1>2, <1>3, <1>4
    DEF Inv, Standing, Owned, Waits, NobodyNewlyReady, Nothing

LEMMA RestartStep ==
  ASSUME Inv, Restart, UNCHANGED budget PROVE Inv' /\ NobodyNewlyReady
  <1>1. /\ generator' = "unknown" /\ proposal' = None /\ pinned' = None
        /\ waiting' = [p \in Peers |-> None] /\ version' = None /\ quarantined' = FALSE
        /\ bound' = [p \in Peers |-> None] /\ heading' = [p \in Peers |-> None]
        /\ attempted' = {} /\ issued' = [p \in Peers |-> 0] /\ underway' = {}
        /\ tracker' = [p \in Peers |-> Nothing] /\ faults' = faults + 1
        /\ UNCHANGED <<canon, revision, damaged>>
    BY DEF Restart, Fault, store
  <1>2. TypeOK'
    <2>1. tracker' \in Trackers
      BY <1>1, NothingType DEF Trackers
    <2>2. waiting' \in [Peers -> Sides \cup {None}]
      BY <1>1, Zenon
    <2>3. heading' \in [Peers -> Sides \cup {None}]
      BY <1>1, Zenon
    <2>4. bound' \in [Peers -> Characters \cup {None}]
      BY <1>1, Zenon
    <2>5. issued' \in [Peers -> Nat]
      BY <1>1
    <2>6. /\ canon' \in (SUBSET Sides) \cup {None} /\ revision' \in 0 .. MaxRevision
          /\ damaged' \in BOOLEAN /\ generator' \in {"unknown", "pending", "ready"}
          /\ faults' \in Nat /\ budget' \in Budgets
      BY <1>1 DEF Inv, TypeOK
    <2>7. /\ proposal' \in (SUBSET Sides) \cup {None} /\ pinned' \in Sides \cup {None}
          /\ version' \in (0 .. MaxRevision) \cup {None} /\ quarantined' \in BOOLEAN
          /\ attempted' \subseteq Peers /\ underway' \subseteq Presentations
      BY <1>1
    <2> QED
      BY <2>1, <2>2, <2>3, <2>4, <2>5, <2>6, <2>7 DEF TypeOK
  <1> QED
    BY <1>1, <1>2 DEF Inv, Standing, Owned, Traced, Waits, NobodyNewlyReady, Nothing

\* Nothing that is presented, or known of a presentation, changes.
LEMMA OtherStep ==
  ASSUME Inv, TypeOK', UNCHANGED <<canon, revision, generator, pinned, waiting, version, quarantined,
                                   bound, tracker, issued>>, underway' \subseteq underway
  PROVE  Inv' /\ NobodyNewlyReady
  <1>1. Traced'
    BY LessIsTraced DEF Inv, TypeOK
  <1> QED
    BY <1>1 DEF Inv, Standing, Owned, Waits, NobodyNewlyReady

\* Who is made ready by an acknowledgement has been shown the sector of now.
Acknowledged(m) ==
  \A p \in Peers : tracker'[p].ready # None =>
    \/ tracker[p].ready # None
    \/ m.peer = p /\ m.binding = Binding(bound[p], revision)

LEMMA AckStep ==
  ASSUME Inv, NEW m \in underway, AckArrives(m), UNCHANGED budget PROVE Inv' /\ Acknowledged(m)
  <1>1. UNCHANGED <<canon, revision, damaged, generator, proposal, pinned, waiting, version,
                    quarantined, bound, heading, attempted, issued, faults>>
        /\ underway' = underway \ {m}
    BY DEF AckArrives, store, generation, peers
  <1>2. m.peer \in Peers
    BY DEF Inv, TypeOK, Presentations
  <1>3. CASE Confirms(m)
    <2> DEFINE e == tracker[m.peer].pending
    <2>1. /\ e # None /\ version # None /\ e.trace = m.trace
          /\ e.binding = Binding(bound[m.peer], version)
      BY <1>3 DEF Confirms
    <2>2. e \in Pendings
      BY <1>2, <2>1 DEF Inv, TypeOK, Trackers
    <2>3. tracker' = [tracker EXCEPT ![m.peer] = [pending |-> None, ready |-> e.binding]]
      BY <1>3 DEF AckArrives
    <2>4. m.binding = e.binding /\ version = revision
      BY <1>2, <2>1 DEF Inv, Traced, Standing
    <2>5. /\ tracker' \in Trackers
          /\ \A p \in Peers : tracker'[p] = IF p = m.peer
               THEN [pending |-> None, ready |-> e.binding] ELSE tracker[p]
      BY <1>2, <2>2, <2>3 DEF Inv, TypeOK, Trackers, Pendings
    <2> HIDE DEF e
    <2>6. TypeOK'
      BY <1>1, <2>5 DEF Inv, TypeOK
    <2>7. Traced'
      BY <1>1, <2>5, LessIsTraced DEF Inv
    <2>8. Owned(bound, tracker, version)'
      <3>1. bound[m.peer] # None
        BY <1>2, <2>1 DEF Inv, Owned, Nothing, e
      <3> QED
        BY <1>1, <2>1, <2>5, <3>1 DEF Inv, Owned
    <2>9. Acknowledged(m)
      BY <2>1, <2>4, <2>5 DEF Acknowledged
    <2> QED
      BY <1>1, <2>6, <2>7, <2>8, <2>9 DEF Inv, Standing, Waits
  <1>4. CASE ~Confirms(m)
    <2>1. tracker' = tracker
      BY <1>4 DEF AckArrives
    <2>2. TypeOK'
      BY <1>1, <2>1 DEF Inv, TypeOK
    <2> QED
      BY <1>1, <2>1, <2>2, OtherStep DEF Acknowledged, NobodyNewlyReady
  <1> QED
    BY <1>3, <1>4

\* Every step keeps the invariant, and only an acknowledgement makes somebody ready.
LEMMA InvStep ==
  ASSUME Inv, [Next /\ UNCHANGED budget]_<<vars, budget>>
  PROVE  Inv' /\ (NobodyNewlyReady \/ \E m \in underway : AckArrives(m) /\ Acknowledged(m))
  <1>1. CASE UNCHANGED <<vars, budget>>
    <2>1. UNCHANGED <<canon, revision, damaged, generator, proposal, pinned, waiting, version,
                      quarantined, bound, heading, attempted, tracker, issued, underway, faults,
                      budget>>
      BY <1>1 DEF vars, store, generation, peers
    <2>2. TypeOK'
      BY <2>1 DEF Inv, TypeOK
    <2> QED
      BY <2>1, <2>2, OtherStep
  <1>2. CASE GeneratorAnswers /\ UNCHANGED budget
    BY <1>2, GeneratorStep
  <1>3. CASE Mutate /\ UNCHANGED budget
    BY <1>3, MutateStep
  <1>4. CASE Damage /\ UNCHANGED budget
    <2>1. /\ UNCHANGED <<canon, revision, generator, proposal, pinned, waiting, version,
                         quarantined, bound, heading, attempted, tracker, issued, underway, budget>>
          /\ damaged' = TRUE /\ faults' = faults + 1
      BY <1>4 DEF Damage, Fault, generation, peers
    <2>2. TypeOK'
      BY <2>1 DEF Inv, TypeOK
    <2> QED
      BY <2>1, <2>2, OtherStep
  <1>5. CASE Restart /\ UNCHANGED budget
    BY <1>5, RestartStep
  <1>6. ASSUME NEW p \in Peers, Push(p) \/ PushPast(p), UNCHANGED budget
        PROVE  Inv' /\ NobodyNewlyReady
    BY <1>6, PushStep DEF Push, PushPast
  <1>7. ASSUME NEW p \in Peers, RetryDue(p), UNCHANGED budget PROVE Inv' /\ NobodyNewlyReady
    <2>1. /\ UNCHANGED <<canon, revision, damaged, generator, proposal, pinned, waiting, version,
                         quarantined, bound, heading, tracker, issued, underway, faults, budget>>
          /\ attempted' \subseteq attempted
      BY <1>7 DEF RetryDue, store, generation, peers
    <2>2. TypeOK'
      BY <2>1 DEF Inv, TypeOK
    <2> QED
      BY <2>1, <2>2, OtherStep
  <1>8. ASSUME NEW p \in Peers, NEW side \in Sides, Turn(p, side), UNCHANGED budget
        PROVE  Inv' /\ NobodyNewlyReady
    <2>1. /\ UNCHANGED <<canon, revision, damaged, generator, proposal, pinned, waiting, version,
                         quarantined, bound, attempted, tracker, issued, underway, faults, budget>>
          /\ heading' = [heading EXCEPT ![p] = side]
      BY <1>8 DEF Turn, store, generation
    <2>2. TypeOK'
      BY <2>1 DEF Inv, TypeOK
    <2> QED
      BY <2>1, <2>2, OtherStep
  <1>9. ASSUME NEW m \in underway, Lose(m), UNCHANGED budget PROVE Inv' /\ NobodyNewlyReady
    <2>1. /\ UNCHANGED <<canon, revision, damaged, generator, proposal, pinned, waiting, version,
                         quarantined, bound, heading, attempted, tracker, issued, budget>>
          /\ underway' = underway \ {m} /\ faults' = faults + 1
      BY <1>9 DEF Lose, Fault, store, generation, peers
    <2>2. TypeOK'
      BY <2>1 DEF Inv, TypeOK
    <2> QED
      BY <2>1, <2>2, OtherStep
  <1>10. ASSUME NEW m \in underway, AckArrives(m), UNCHANGED budget
         PROVE  Inv' /\ AckArrives(m) /\ Acknowledged(m)
    BY <1>10, AckStep
  <1> QED
    BY <1>1, <1>2, <1>3, <1>4, <1>5, <1>6, <1>7, <1>8, <1>9, <1>10,
       EnterStep, DisconnectStep, EvictStep
    DEF Next

LEMMA InvHolds == Spec => []Inv
  <1>1. Init => Inv
    <2> SUFFICES ASSUME Init PROVE Inv
      OBVIOUS
    <2>1. tracker \in Trackers
      BY NothingType DEF Init, Trackers
    <2>2. waiting \in [Peers -> Sides \cup {None}]
      BY Zenon DEF Init
    <2>3. heading \in [Peers -> Sides \cup {None}]
      BY Zenon DEF Init
    <2>4. bound \in [Peers -> Characters \cup {None}]
      BY Zenon DEF Init
    <2>5. issued \in [Peers -> Nat]
      BY DEF Init
    <2>6. /\ canon \in (SUBSET Sides) \cup {None} /\ revision \in 0 .. MaxRevision
          /\ damaged \in BOOLEAN /\ generator \in {"unknown", "pending", "ready"}
          /\ faults \in Nat /\ budget \in Budgets
      <3>1. canon = None /\ revision = 0 /\ damaged = FALSE /\ generator = "unknown"
            /\ faults = 0 /\ budget \in Budgets
        BY DEF Init
      <3>2. 0 \in 0 .. MaxRevision /\ 0 \in Nat
        BY FrontierAssumption
      <3> QED
        BY <3>1, <3>2
    <2>7. /\ proposal \in (SUBSET Sides) \cup {None} /\ pinned \in Sides \cup {None}
          /\ version \in (0 .. MaxRevision) \cup {None} /\ quarantined \in BOOLEAN
          /\ attempted \subseteq Peers /\ underway \subseteq Presentations
      <3>1. proposal = None /\ pinned = None /\ version = None /\ quarantined = FALSE
            /\ attempted = {} /\ underway = {}
        BY DEF Init
      <3> QED
        BY <3>1
    <2>8. TypeOK
      BY <2>1, <2>2, <2>3, <2>4, <2>5, <2>6, <2>7 DEF TypeOK
    <2> QED
      BY <2>8 DEF Init, Inv, Standing, Owned, Traced, Waits, Nothing
  <1>2. Inv /\ [Next /\ UNCHANGED budget]_<<vars, budget>> => Inv'
    BY InvStep
  <1> QED
    BY <1>1, <1>2, PTL DEF Spec

\* The tables keep their shape.
THEOREM FrontierTypeCorrect == Spec => []TypeOK
  <1>1. Inv => TypeOK
    BY DEF Inv
  <1> QED
    BY <1>1, InvHolds, PTL

\* Players are on the latest revision of a sector that is not quarantined, and what is
\* Canon is never made again, for any number of players, sides and faults.
THEOREM CanonStandsHolds == Spec => []CanonStands
  <1>1. Inv => CanonStands
    <2> SUFFICES ASSUME Inv PROVE AdmittedIsCurrent /\ KnownIsNotRegenerated
      BY DEF CanonStands
    <2>1. ASSUME NEW p \in Peers, NEW side \in Sides, Admits(p, side)
          PROVE  Plays(p) /\ version = revision /\ ~quarantined
      <3>1. version # None /\ tracker[p].ready = Binding(bound[p], version)
        BY <2>1 DEF Admits, Ready
      <3>2. tracker[p] # Nothing
        <4>1. SUFFICES ASSUME tracker[p] = Nothing PROVE FALSE
          OBVIOUS
        <4>2. None = Binding(bound[p], version)
          BY <3>1, <4>1 DEF Nothing
        <4>3. bound[p] \in Characters \cup {None} /\ version \in 0 .. MaxRevision
          BY <3>1 DEF Inv, TypeOK
        <4> QED
          BY <4>2, <4>3, BindingNotNone
      <3> QED
        BY <3>1, <3>2 DEF Inv, Standing, Owned, Plays
    <2>2. KnownIsNotRegenerated
      BY DEF Inv, Standing, KnownIsNotRegenerated
    <2> QED
      BY <2>1, <2>2 DEF AdmittedIsCurrent
  <1> QED
    BY <1>1, InvHolds, PTL

\* Nobody becomes ready but by an acknowledgement of the sector as it is, shown to the
\* character that plays, for any number of players and any loss of messages.
THEOREM ReadinessIsEarnedHolds == Spec => ReadinessIsEarned
  <1>1. Inv /\ [Next /\ UNCHANGED budget]_<<vars, budget>> =>
          [\A p \in Peers : Ready(p)' /\ ~Ready(p) =>
             \E m \in underway \ underway' :
               m.peer = p /\ m.binding = Binding(bound[p], revision)]_vars
    <2> SUFFICES ASSUME Inv, [Next /\ UNCHANGED budget]_<<vars, budget>>,
                        NEW p \in Peers, Ready(p)', ~Ready(p)
                 PROVE  \E m \in underway \ underway' :
                          m.peer = p /\ m.binding = Binding(bound[p], revision)
      OBVIOUS
    <2>1. tracker[p].ready = None
      BY DEF Inv, Owned, Ready
    <2>2. Inv'
      BY InvStep
    <2>3. tracker'[p].ready # None
      <3>1. version' # None /\ tracker'[p].ready = Binding(bound'[p], version')
        BY DEF Ready
      <3>2. version' = revision' /\ revision' \in 0 .. MaxRevision
        BY <2>2, <3>1 DEF Inv, Standing, TypeOK
      <3>3. bound'[p] \in Characters \cup {None}
        BY <2>2 DEF Inv, TypeOK
      <3> QED
        BY <3>1, <3>2, <3>3, BindingNotNone
    <2>4. PICK m \in underway : AckArrives(m) /\ Acknowledged(m)
      BY <2>1, <2>3, InvStep DEF NobodyNewlyReady
    <2>5. m \notin underway'
      BY <2>4 DEF AckArrives
    <2> QED
      BY <2>1, <2>3, <2>4, <2>5 DEF Acknowledged
  <1> QED
    BY <1>1, InvHolds, PTL DEF Spec, ReadinessIsEarned
=============================================================================
