------------------------------- MODULE Journeys -------------------------------
(***************************************************************************)
(* The journey registry under its callers in server_main.gd and            *)
(* login_gateway.gd: peers enter as a character, are checkpointed while    *)
(* they play, disconnect, and the process restarts at any time.            *)
(***************************************************************************)
EXTENDS JourneyRegistry

VARIABLES
  holder,  \* per character, the peer that was let in and is still connected
  left,    \* per character, how it last left by a disconnect: journey, time and
           \* place, until it is let in again (history)
  seen     \* per character, its journey and when that was last saved while its
           \* peer was connected, until the character is let in again after a
           \* restart (history)

stayVars == <<journeyVars, holder, left, seen>>

StayInit ==
  /\ InitJourneys
  /\ holder = [c \in Characters |-> None]
  /\ left = [c \in Characters |-> None]
  /\ seen = [c \in Characters |-> None]

\* World entry of a peer as the character it selected.
EnterWorld(c, p) ==
  /\ Enter(c, p, Spawn)
  /\ holder' = [holder EXCEPT ![c] = IF Accepted(c, p) THEN p ELSE @]
  /\ left' = [left EXCEPT ![c] = IF Accepted(c, p) THEN None ELSE @]
  /\ seen' = [seen EXCEPT ![c] =
       IF ~Accepted(c, p) THEN @
       ELSE IF KeptOf[c] = None THEN [id |-> EnteredId(c), at |-> now] ELSE @]

\* The frame or a position update saves the journey of a bound player.
SavePlace(c, place) ==
  /\ holder[c] # None
  /\ Checkpoint(c, place)
  /\ seen' = [seen EXCEPT ![c] = [id |-> journeyOf[c], at |-> now]]
  /\ UNCHANGED <<holder, left>>

\* The peer of a bound player disconnects.
Leave(c) ==
  /\ holder[c] # None
  /\ MarkDisconnected(c, holder[c])
  /\ holder' = [holder EXCEPT ![c] = None]
  /\ left' = [left EXCEPT ![c] =
       [id |-> journeyOf[c], at |-> now, place |-> journeys[journeyOf[c]].place]]
  /\ seen' = [seen EXCEPT ![c] = [id |-> journeyOf[c], at |-> now]]

\* The cleanup of a frame.
StayCleanup ==
  /\ ExpiredIds # {}
  /\ Cleanup
  /\ UNCHANGED <<holder, left, seen>>

StayTime == Tick /\ UNCHANGED <<holder, left, seen>>

\* Every peer is gone with the process.
StayRestart ==
  /\ Restart
  /\ holder' = [c \in Characters |-> None]
  /\ UNCHANGED <<left, seen>>

StayNext ==
  \/ \E c \in Characters, p \in Peers : EnterWorld(c, p)
  \/ \E c \in Characters, place \in Places : SavePlace(c, place)
  \/ \E c \in Characters : Leave(c)
  \/ StayCleanup
  \/ StayTime
  \/ StayRestart

StaySpec == StayInit /\ [][StayNext]_stayVars

-----------------------------------------------------------------------------
(* Properties.                                                              *)

\* The registry and the histories have their types.
StayTypeOK ==
  /\ JourneyTypeOK
  /\ holder \in [Characters -> Peers \cup {None}]
  /\ left \in [Characters -> [id: Ids, at: 1 .. MaxTime, place: Places] \cup {None}]
  /\ seen \in [Characters -> [id: Ids, at: 1 .. MaxTime] \cup {None}]

\* A player that was let in keeps its journey as long as it is connected: no
\* other peer's entry or disconnect, no cleanup and no passing of time takes it.
HolderKeepsJourney == \A c \in Characters : holder[c] # None => Holds(c, holder[c])

\* Whoever left by a disconnect and comes back within the window, also to a new
\* process, is given the same journey at the place last saved,
\* if no write failed.
ReturnsWithinWindow ==
  \A c \in Characters :
    failures = 0 /\ left[c] # None /\ now - left[c].at <= Window =>
      /\ KeptOf[c] = left[c].id
      /\ ~Kept[left[c].id].active
      /\ Kept[left[c].id].place = left[c].place

\* Whoever comes back later gets another journey, whatever writes failed and
\* however often the server restarted.
LateReturnsStartAnew ==
  [][ \A c \in Characters :
        left[c] # None /\ left'[c] = None /\ now - left[c].at > Window =>
          journeyOf'[c] # left[c].id ]_stayVars

\* Memory and table agree on every journey, so a restart loses none of them, if
\* no write failed.
TableMirrorsMemory ==
  failures = 0 => \A id \in Ids : rows[id] = IF journeys[id] = None THEN None ELSE RowOf(journeys[id])

\* Players whose server ends under them and who come back within the window of
\* their last checkpoint reclaim the same journey
\* (src/scripts/exp1235_gate_crash_experiment.gd:177).
CrashedPlayersReturn ==
  \A c \in Characters :
    failures = 0 /\ seen[c] # None /\ now - seen[c].at <= Window => KeptOf[c] = seen[c].id
=============================================================================
