------------------------------ MODULE MCDashboard ------------------------------
(* The dashboard for TLC: the programs of MCFeeds and, as one more, the other pages on the *)
(* feeds of MCViews.                                                                       *)
EXTENDS MCFeeds, MCViews

Shown == INSTANCE Views WITH
  Records <- MCRecords, Plans <- MCPlans, page <- v1, issues <- v2, milestones <- v3

DashboardInit ==
  \/ FeedsInit
  \/ program = "views" /\ Shown!Init /\ Idle3

DashboardNext ==
  \/ FeedsNext
  \/ program = "views" /\ Shown!Next /\ UNCHANGED after3

DashboardSpec == DashboardInit /\ [][DashboardNext]_all /\ FeedsFairness

-----------------------------------------------------------------------------
\* The views agree with the plan and with each other (Views): a roadmap speaks for its
\* whole tree, what is done in one group is not shown by another, the proposed branch is
\* open work, the two milestone views agree, and quotations say nothing.
ViewsAgree ==
  program = "views" =>
    /\ Shown!RoadmapSpeaksForItsTree /\ Shown!DoneGroupsShareNothing /\ Shown!NextWorkIsOpen
    /\ Shown!HybridAgreesWithBands /\ Shown!QuotedStatusIsIgnored
=============================================================================
