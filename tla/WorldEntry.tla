------------------------------ MODULE WorldEntry ------------------------------
(***************************************************************************)
(* From a connection to a player: sessions (src/server/session_registry.gd)*)
(* bound by a signed assertion or by an awaited Nakama validation, the     *)
(* selected Character (character_service.gd, login_gateway.gd), world entry*)
(* (receive_enter_world_request_on_server in src/client/network_client.gd),*)
(* admission to gameplay (admitted_player_state.gd), the journey registry, *)
(* and what the Nakama relay and its bridge do at an entry                  *)
(* (nakama_gameplay_bridge.gd).                                            *)
(*                                                                         *)
(* A world-entry ticket is issued, consumed and handed to the bridge within*)
(* one world entry and every ticket is fresh, so tickets need no state.    *)
(* Peer ids are drawn at random: one that left never comes back.           *)
(***************************************************************************)
EXTENDS JourneyRegistry, Integers

CONSTANTS
  Accounts,
  OwnerOf,      \* the account of a character
  RelayStarts,  \* TRUE: the relay may connect to Nakama at some time
  MaxEpoch      \* bound: sessions bound by one process

VARIABLES
  status,      \* per peer: "absent", "connected" (at the version gate),
               \* "admitted" or "gone"
  player,      \* ServerPlayerState_<peer>: the bound character and its epoch
  sessions,    \* _sessions_by_peer_id
  epochs,      \* _next_session_epoch - 1
  nakama,      \* _nakama_authorized_peers
  validating,  \* the peer and account whose validation is awaited, or None
  relayUp,     \* NakamaGameplayRelay.available()
  bindings,    \* _bindings of the bridge, by connection id: the account
  welcomed     \* how a peer last entered the world since it was given a session by
               \* what it presented: with the relay or not, and what was selected
               \* then (history)

entryVars == <<status, player, sessions, epochs, nakama, validating, relayUp, bindings>>
vars == <<journeyVars, entryVars, welcomed>>

Session ==
  [epoch: 1 .. MaxEpoch, account: Accounts, selected: Characters \cup {None},
   snapshot: Characters \cup {None}]
Player == [character: Characters \cup {None}, epoch: 0 .. MaxEpoch]
Binding == [peer: Peers, character: Characters]
Entry == [relayed: BOOLEAN, selected: Characters \cup {None}]

ASSUME WorldAssumption == OwnerOf \in [Characters -> Accounts] /\ MaxEpoch \in Nat
ASSUME WorldNoneAssumption == None \notin Session \cup Player \cup Binding \cup Entry

Nobody == [character |-> None, epoch |-> 0]
Claims == {<<OwnerOf[c], c>> : c \in Characters} \cup (Accounts \X {None})

Init ==
  /\ InitJourneys
  /\ status = [p \in Peers |-> "absent"]
  /\ player = [p \in Peers |-> None]
  /\ sessions = [p \in Peers |-> None]
  /\ epochs = 0
  /\ nakama = {}
  /\ validating = None
  /\ relayUp = FALSE
  /\ bindings = [a \in Accounts |-> None]
  /\ welcomed = [p \in Peers |-> None]

Online(p) == status[p] \in {"connected", "admitted"}
Welcome(p, relayed) ==
  [welcomed EXCEPT ![p] = [relayed |-> relayed, selected |-> sessions[p].selected]]
Unwelcomed(p) == [welcomed EXCEPT ![p] = None]

-----------------------------------------------------------------------------
(* Connections.                                                             *)

Connect(p) ==
  /\ status[p] = "absent"
  /\ status' = [status EXCEPT ![p] = "connected"]
  /\ UNCHANGED <<journeyVars, player, sessions, epochs, nakama, validating, relayUp,
                 bindings, welcomed>>

\* The version gate is passed: the peer gets its ServerPlayerState.
Admit(p) ==
  /\ status[p] = "connected"
  /\ status' = [status EXCEPT ![p] = "admitted"]
  /\ player' = [player EXCEPT ![p] = Nobody]
  /\ UNCHANGED <<journeyVars, sessions, epochs, nakama, validating, relayUp, bindings, welcomed>>

\* _on_peer_disconnected: the journey is released, the binding of the session's
\* account goes, then the session, then the player.
Disconnect(p) ==
  /\ Online(p)
  /\ IF player[p] # None /\ player[p].character # None
     THEN MarkDisconnected(player[p].character, p) ELSE UNCHANGED journeyVars
  /\ bindings' = IF sessions[p] = None THEN bindings
                 ELSE [bindings EXCEPT ![sessions[p].account] = None]
  /\ sessions' = [sessions EXCEPT ![p] = None]
  /\ nakama' = nakama \ {p}
  /\ player' = [player EXCEPT ![p] = None]
  /\ status' = [status EXCEPT ![p] = "gone"]
  /\ welcomed' = Unwelcomed(p)
  /\ UNCHANGED <<epochs, validating, relayUp>>

-----------------------------------------------------------------------------
(* Sessions.                                                                *)

\* SessionRegistry.bind, with what the caller puts on the session next.
Bind_KeepsEpoch(p, account, selected, snapshot) ==
  LET epoch == IF sessions[p] # None THEN sessions[p].epoch ELSE epochs + 1 IN
  /\ epochs < MaxEpoch
  /\ epochs' = epochs + 1
  /\ sessions' = [sessions EXCEPT ![p] =
       [epoch |-> epoch, account |-> account, selected |-> selected, snapshot |-> snapshot]]
Bind(p, account, selected, snapshot) ==
  /\ epochs < MaxEpoch
  /\ epochs' = epochs + 1
  /\ sessions' = [sessions EXCEPT ![p] =
       [epoch |-> epochs + 1, account |-> account, selected |-> selected,
        snapshot |-> snapshot]]

\* establish_session_from_assertion: whatever session the peer has is replaced.
PresentAssertion(p, claim) ==
  /\ Online(p)
  /\ Bind(p, claim[1], claim[2], claim[2])
  /\ welcomed' = Unwelcomed(p)
  /\ UNCHANGED <<journeyVars, status, player, nakama, validating, relayUp, bindings>>

\* receive_nakama_session_on_server, up to its await.  The validator has one
\* HTTPRequest: while it is busy another validation fails.
StartNakama(p, account) ==
  /\ Online(p)
  /\ validating = None
  /\ validating' = [peer |-> p, account |-> account]
  /\ UNCHANGED <<journeyVars, status, player, sessions, epochs, nakama, relayUp, bindings, welcomed>>

\* Nakama refuses, or the peer already has a session.
NakamaRefused ==
  /\ validating # None
  /\ validating' = None
  /\ UNCHANGED <<journeyVars, status, player, sessions, epochs, nakama, relayUp, bindings, welcomed>>

\* The rest of it: the peer is bound unless it has a session.
Unbound(p) == sessions[p] = None
NakamaAccepted ==
  /\ validating # None
  /\ Unbound(validating.peer)
  /\ Bind(validating.peer, validating.account, None, None)
  /\ nakama' = nakama \cup {validating.peer}
  /\ validating' = None
  /\ welcomed' = Unwelcomed(validating.peer)
  /\ UNCHANGED <<journeyVars, status, player, relayUp, bindings>>

\* select_character: the repository checks the owner.
Owns_Any(account, c) == TRUE
Owns(account, c) == OwnerOf[c] = account
SelectCharacter(p, c) ==
  /\ Online(p)
  /\ p \in nakama /\ sessions[p] # None
  /\ Owns(sessions[p].account, c)
  /\ sessions' = [sessions EXCEPT ![p].selected = c]
  /\ UNCHANGED <<journeyVars, status, player, epochs, nakama, validating, relayUp, bindings, welcomed>>

-----------------------------------------------------------------------------
(* World entry.                                                             *)

\* get_selected_character: a signed snapshot goes before a selection.
Chosen(p) ==
  IF sessions[p].snapshot # None THEN sessions[p].snapshot ELSE sessions[p].selected

\* bind_character of the admitted player state.
BindCharacter_SameCharacter(p, c) ==
  IF player[p].character = c THEN player
  ELSE [player EXCEPT ![p] = [character |-> c, epoch |-> sessions[p].epoch]]
BindCharacter(p, c) ==
  [player EXCEPT ![p] = [character |-> c, epoch |-> sessions[p].epoch]]

\* The entry is rejected: no journey, but expired ones are gone.
EnterWorldRejected(p) ==
  /\ status[p] = "admitted"
  /\ sessions[p] # None /\ Chosen(p) # None
  /\ ~Accepted(Chosen(p), p)
  /\ Enter(Chosen(p), p, Spawn)
  /\ UNCHANGED <<entryVars, welcomed>>

\* Without the relay the player is bound and that is all.
EnterWorldDirect(p) ==
  /\ status[p] = "admitted"
  /\ sessions[p] # None /\ Chosen(p) # None
  /\ ~relayUp
  /\ Accepted(Chosen(p), p)
  /\ Enter(Chosen(p), p, Spawn)
  /\ player' = BindCharacter(p, Chosen(p))
  /\ welcomed' = Welcome(p, FALSE)
  /\ UNCHANGED <<status, sessions, epochs, nakama, validating, relayUp, bindings>>

\* With it a world-entry ticket is issued and consumed, which binds the session
\* anew, and the account is bound to the player unless it is bound already.
EnterWorldRelayed(p) ==
  /\ status[p] = "admitted"
  /\ sessions[p] # None /\ Chosen(p) # None
  /\ relayUp
  /\ Accepted(Chosen(p), p)
  /\ Enter(Chosen(p), p, Spawn)
  /\ player' = BindCharacter(p, Chosen(p))
  /\ Bind(p, sessions[p].account, Chosen(p), Chosen(p))
  /\ bindings' = [bindings EXCEPT ![sessions[p].account] =
       IF @ # None THEN @ ELSE [peer |-> p, character |-> Chosen(p)]]
  /\ welcomed' = Welcome(p, TRUE)
  /\ UNCHANGED <<status, nakama, validating, relayUp>>

\* _gameplay_authorized(): what input, actions and physics of a player ask first.
Authorized_AnyEpoch(p) ==
  /\ status[p] = "admitted"
  /\ player[p].character # None
  /\ sessions[p] # None
  /\ sessions[p].selected = player[p].character
Authorized(p) ==
  /\ status[p] = "admitted"
  /\ player[p].character # None
  /\ sessions[p] # None
  /\ sessions[p].epoch = player[p].epoch
  /\ sessions[p].selected = player[p].character

-----------------------------------------------------------------------------
(* The relay.                                                               *)

RelayConnects ==
  /\ RelayStarts
  /\ ~relayUp
  /\ relayUp' = TRUE
  /\ UNCHANGED <<journeyVars, status, player, sessions, epochs, nakama, validating, bindings, welcomed>>

-----------------------------------------------------------------------------
(* Frames, time, restarts.                                                  *)

SaveJourney(p) ==
  /\ player[p] # None /\ player[p].character # None
  /\ \E place \in Places : Checkpoint(player[p].character, place)
  /\ UNCHANGED <<entryVars, welcomed>>

CleanupFrame == ExpiredIds # {} /\ Cleanup /\ UNCHANGED <<entryVars, welcomed>>

TimePasses == Tick /\ UNCHANGED <<entryVars, welcomed>>

\* Everything but the journeys table was in memory.
RestartServer ==
  /\ Restart
  /\ status' = [p \in Peers |-> "absent"]
  /\ player' = [p \in Peers |-> None]
  /\ sessions' = [p \in Peers |-> None]
  /\ epochs' = 0
  /\ nakama' = {}
  /\ validating' = None
  /\ relayUp' = FALSE
  /\ bindings' = [a \in Accounts |-> None]
  /\ welcomed' = [p \in Peers |-> None]

Next ==
  \/ \E p \in Peers :
       \/ Connect(p) \/ Admit(p) \/ Disconnect(p)
       \/ \E claim \in Claims : PresentAssertion(p, claim)
       \/ \E a \in Accounts : StartNakama(p, a)
       \/ \E c \in Characters : SelectCharacter(p, c)
       \/ EnterWorldRejected(p) \/ EnterWorldDirect(p) \/ EnterWorldRelayed(p)
       \/ SaveJourney(p)
  \/ NakamaRefused \/ NakamaAccepted
  \/ RelayConnects
  \/ CleanupFrame \/ TimePasses \/ RestartServer

Spec == Init /\ [][Next]_vars

-----------------------------------------------------------------------------
(* Properties.                                                              *)

\* Sessions, players and bindings have the shape the code gives them.
TypeOK ==
  /\ JourneyTypeOK
  /\ status \in [Peers -> {"absent", "connected", "admitted", "gone"}]
  /\ \A p \in Peers : (player[p] # None) = (status[p] = "admitted")
  /\ player \in [Peers -> Player \cup {None}]
  /\ sessions \in [Peers -> Session \cup {None}]
  /\ epochs \in 0 .. MaxEpoch
  /\ nakama \subseteq Peers
  /\ validating \in [peer: Peers, account: Accounts] \cup {None}
  /\ bindings \in [Accounts -> Binding \cup {None}]
  /\ welcomed \in [Peers -> Entry \cup {None}]

\* A peer whose input moves a character holds that character's journey, so no
\* two peers ever move one character, whatever sessions, entries, disconnects
\* and cleanups crossed each other.
OneActorPerCharacter ==
  \A p \in Peers : Authorized(p) => Holds(player[p].character, p)

\* A peer moves only characters of the account its session is for now, and the
\* bridge lets an account speak for its own characters only.
AuthorityIsOwned ==
  /\ \A p \in Peers : Authorized(p) => OwnerOf[player[p].character] = sessions[p].account
  /\ \A a \in Accounts : bindings[a] # None => OwnerOf[bindings[a].character] = a

\* Nobody is moved who did not enter the world with the session it has.
OnlyWelcomedAct == \A p \in Peers : Authorized(p) => welcomed[p] # None

\* Whoever was let in without the relay, and has that character selected, can act
\* until it is given another session, also when the relay comes up meanwhile and
\* other peers enter, leave and are refused.
WelcomedCanAct ==
  \A p \in Peers :
    /\ welcomed[p] # None /\ ~welcomed[p].relayed
    /\ sessions[p].selected = player[p].character
    => Authorized(p)

\* Being welcomed decides who acts: nobody else does, and whoever was does.
WelcomeDecides == OnlyWelcomedAct /\ WelcomedCanAct

\* Whoever was let in with the relay can use it "for bounded gameplay input"
\* (src/docs/slices/180-nakama-gameplay-bridge.md:13).
RelayedCanAct ==
  \A p \in Peers : welcomed[p] # None /\ welcomed[p].relayed => Authorized(p)

\* A journey survives a disconnect for the reclaim window only: while it is not
\* counted down, because it is active, its peer is there
\* (src/server/journey_registry.gd:4).
ActiveJourneysHavePeers ==
  \A id \in Ids : journeys[id] # None /\ journeys[id].active => Online(journeys[id].peer)

\* A session exists only for the lifetime of a live connection
\* (src/server/session_registry.gd:7).
SessionsAreOfLivePeers == \A p \in Peers : sessions[p] # None => Online(p)

\* World entry makes the player the character that was selected on its session
\* (src/server/character_service.gd:126).
EntersAsSelected ==
  \A p \in Peers : welcomed[p] # None => player[p].character = welcomed[p].selected
=============================================================================
