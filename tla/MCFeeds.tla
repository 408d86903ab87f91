-------------------------------- MODULE MCFeeds --------------------------------
(* The GitHub feed of the dashboard for TLC: the open page with its feed cache, the fetch, *)
(* and the Goal cards made of it.  They share no state, so that a behaviour is one of a    *)
(* program of the three, which says what the shared variables stand for; a variable that a *)
(* program lacks keeps its value.                                                          *)
EXTENDS Programs, Naturals, Sequences, FiniteSets, TLC

CONSTANTS Interval, MaxVersions, MaxRequests, PageSize, PullRequests, MaxItems, GoalRecords

\* What the code extracts of an issue for the Goal cards.
Lines == {"ticked", "unticked", "bullet", "prose"}
IsGoalRecord(r) ==
  /\ {"kind", "state", "wgl", "advances", "parentGoal", "parentFeature"} \subseteq DOMAIN r
  /\ r.wgl \in Seq(Lines) /\ IsFiniteSet(r.advances)

ASSUME FeedsAssumption == Interval \in Nat \ {0} /\ MaxVersions \in Nat /\ PageSize \in Nat \ {0}
ASSUME GoalAssumption ==
  /\ IsFiniteSet(DOMAIN GoalRecords)
  /\ \A n \in DOMAIN GoalRecords :
       GoalRecords[n] # {} /\ \A r \in GoalRecords[n] : IsGoalRecord(r)

Page == INSTANCE FeedPage WITH
  up <- v1, file <- v2, snapshot <- v3, error <- v4, refreshing <- v5, due <- v6, wake <- v7,
  scheduler <- v8, refresh <- v9, served <- v10, page <- v11, requests <- v12
Fetching == INSTANCE FeedFetch WITH
  total <- v1, previous <- v2, fetch <- v3, feed <- v4, floor <- v5
Goals == INSTANCE GoalViews WITH Records <- GoalRecords, feed <- v1

FeedsInit ==
  \/ program = "page" /\ Page!Init
  \/ program = "fetch" /\ Fetching!Init /\ Idle5
  \/ program = "goals" /\ Goals!Init /\ Idle1

FeedsNext ==
  \/ program = "page" /\ Page!Next /\ UNCHANGED program
  \/ program = "fetch" /\ Fetching!Next /\ UNCHANGED after5
  \/ program = "goals" /\ Goals!Next /\ UNCHANGED after1

\* the fairness of FeedPage; the other two have none
FeedsFairness ==
  /\ WF_all(program = "page" /\ Page!RefreshThread /\ UNCHANGED <<program, v11, v12>>)
  /\ WF_all(program = "page" /\ Page!Schedule /\ UNCHANGED <<program, v11, v12>>)
  /\ WF_all(program = "page" /\ Page!Tick /\ UNCHANGED <<program, v11, v12>>)

FeedsSpec == FeedsInit /\ [][FeedsNext]_all /\ FeedsFairness

-----------------------------------------------------------------------------
\* What readers have seen stays in sight: no older feed is served (FeedPage), and no fetch
\* loses an issue or a milestone (FeedFetch).
ReadersLoseNothing ==
  /\ program = "page" => Page!NeverServesOlder
  /\ program = "fetch" => Fetching!NothingIsLost

\* A disabled button of the page is waiting for something that enables it (FeedPage).
NoStuckButton == program = "page" => Page!FlagHasThread /\ Page!NoStuckButton

\* A refresh that is due starts, and every refresh ends (FeedPage).
RefreshesHappen ==
  /\ (program = "page" /\ Page!Due) ~> (program # "page" \/ Page!Taken)
  /\ (program = "page" /\ Page!Refreshing) ~> (program # "page" \/ ~Page!Refreshing)

\* A Goal's percent is proof (GoalViews).
ProgressIsProof == [][program = "goals" => Goals!EditKeepsProof]_all

-----------------------------------------------------------------------------
\* Two Goals, Features that claim items of either, or items there are none of, and two
\* Slices.
GoalRecord(lines) ==
  [kind |-> "Goal", state |-> "open", wgl |-> lines, advances |-> {}, parentGoal |-> 0,
   parentFeature |-> 0, resolved |-> FALSE]
FeatureRecords(goals, claims) ==
  [kind : {"Feature"}, state : {"open", "closed"}, wgl : {<<>>}, advances : claims,
   parentGoal : goals, parentFeature : {0}, resolved : {FALSE}]
SliceRecords(features) ==
  [kind : {"Slice"}, state : {"open", "closed"}, wgl : {<<>>}, advances : {{}},
   parentGoal : {0}, parentFeature : features, resolved : {FALSE}]
Claim(goal, item) == [goal |-> goal, item |-> item]
SmallGoals ==
  (1 :> {GoalRecord(<<>>)} \cup {GoalRecord(<<a, "prose", b, "bullet">>) : a, b \in {"ticked", "unticked"}}) @@
  (2 :> {GoalRecord(<<"bullet">>), GoalRecord(<<>>)}) @@
  (3 :> FeatureRecords({1}, {{}, {Claim(1, 1)}, {Claim(1, 1), Claim(1, 2)}, {Claim(2, 1)}})) @@
  (4 :> FeatureRecords({0, 1}, {{Claim(1, 2)}, {Claim(1, 3), Claim(1, 5)}})) @@
  (5 :> SliceRecords({3})) @@ (6 :> SliceRecords({3, 4}))
=============================================================================
