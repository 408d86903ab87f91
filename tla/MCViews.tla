------------------------------- MODULE MCViews -------------------------------
(* Small feeds for each kind of page of Views. *)
EXTENDS MilestoneViews

\* backlog: a Hoshin, a Theme, a Feature, an Epic and two Experiments, whose links may
\* be missing or lead nowhere, and a Feature by title only
Backlog(level, parents, measures, marks, outcomes, passes) ==
  {[level |-> level, state |-> s, mark |-> m, parent |-> p, measured |-> d[1], breakdown |-> d[2],
    outcomes |-> o, passed |-> x, title |-> "issue", updated |-> 1, milestone |-> 1] :
     s \in {"open", "closed"}, m \in marks, p \in parents, d \in measures, o \in outcomes,
     x \in passes}
Full == <<TRUE, TRUE>>
BacklogRecords ==
  (1 :> {[level |-> "hoshin", state |-> "open", mark |-> "none", parent |-> 0, measured |-> FALSE,
          breakdown |-> FALSE, outcomes |-> "none", passed |-> FALSE, title |-> "issue",
          updated |-> 1, milestone |-> 0]}) @@
  (2 :> Backlog("theme", {1}, {Full}, {"none"}, {"none"}, {FALSE})) @@
  (3 :> Backlog("feature", {2, 9}, {Full, <<TRUE, FALSE>>}, {"none"}, {"none"}, {FALSE})) @@
  (4 :> Backlog("epic", {3}, {Full, <<FALSE, FALSE>>}, {"none"}, {"none", "ticked"}, {FALSE})) @@
  (5 :> Backlog("experiment", {4}, {<<FALSE, FALSE>>}, {"none", "in-progress"}, {"ticked"},
                BOOLEAN)) @@
  (6 :> {[r EXCEPT !.updated = 2] : r \in
           Backlog("experiment", {4}, {<<FALSE, FALSE>>}, {"in-progress", "needs-grilling"},
                   {"ticked"}, {TRUE})})

\* milestones: two milestones whose descriptions share issues, quote examples, name
\* acceptance gates or leave things out, and three issues
Good(id, members) ==
  <<Slice(id, "text"), Field("outcome", "text"), Field("included", "")>> \o members
    \o <<Field("complete", "text")>>
Proven(id, members) == Good(id, members) \o <<Field("evidence", "url")>>
Mapping == <<Heading(2, "slices")>>
Gate(lines) ==
  <<Slice("G", "text"), Field("outcome", "text"), Field("membership", "acceptance-gate-only")>>
    \o lines \o <<Field("complete", "text")>>
Descriptions ==
  {Mapping \o Proven("A", <<Member(1)>>) \o Good("B", <<Member(2)>>),
   Mapping \o Proven("A", <<Member(1), Member(2)>>) \o Proven("B", <<Member(2)>>),
   Mapping \o Proven("A", <<Member(1)>>) \o Gate(<<Field("included", "")>>),
   Mapping \o Gate(<<Field("included", ""), Member(1)>>) \o Proven("A", <<Member(2)>>),
   Mapping \o <<Fence("tick", 3, TRUE)>> \o Good("A", <<Member(1)>>) \o <<Fence("tick", 3, TRUE)>>
     \o Proven("B", <<Member(1)>>) \o <<Heading(2, "required scope"), Text>>,
   Mapping \o Proven("A", <<Member(1), Text>>) \o <<Heading(2, "shared context"), Text>>}
OtherDescriptions ==
  {Mapping \o Good("A", <<Member(2), Member(3)>>),
   Mapping \o Proven("A", <<Member(2)>>) \o Good("A", <<Member(3)>>),
   Mapping \o Proven("A", <<Member(1)>>) \o Proven("B", <<Member(3)>>),
   <<Heading(2, "other")>> \o Good("A", <<Member(1)>>)}
MilestoneRecords(m, descriptions) ==
  [number : {m}, state : {"open", "closed"}, description : descriptions]
Bodies ==
  {<<>>, <<Declares("in progress", TRUE)>>,
   <<Fence("tick", 4, TRUE), Fence("tick", 3, FALSE), Declares("blocked", TRUE), Fence("tick", 3, TRUE),
     Declares("active", TRUE), Fence("tick", 4, TRUE), Heading(2, "status"), Declares("ready", FALSE)>>,
   <<Heading(2, "other"), Declares("blocked", TRUE)>>}
MilestoneIssues(numbers, marks, bodies, levels) ==
  [level : levels, state : {"open", "closed"}, mark : marks, parent : {0}, measured : {TRUE},
   breakdown : {TRUE}, outcomes : {"none"}, passed : {FALSE}, title : {"issue"}, updated : {1},
   closedAt : {0}, milestone : numbers, body : bodies]

MCRecords ==
  [backlog |-> BacklogRecords,
   milestones |->
     (1 :> MilestoneIssues({1}, {"ready"}, {<<>>}, {"none"})) @@
     (2 :> MilestoneIssues({1, 2}, {"in-progress"}, {<<>>}, {"none"})) @@
     (3 :> MilestoneIssues({2}, {"none"}, Bodies, {"epic"}))]
MCPlans ==
  [backlog |-> <<>>,
   milestones |-> <<MilestoneRecords(1, Descriptions), MilestoneRecords(2, OtherDescriptions)>>]
=============================================================================
