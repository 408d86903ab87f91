---------------------------------- MODULE Views ----------------------------------
(***************************************************************************)
(* The dashboard's pages while people edit the issues and milestones they  *)
(* are read from (src/dashboard/app.py).  A page keeps nothing: it is a    *)
(* function of the feed, and every step here is an edit made on GitHub.    *)
(* Each kind of page has a feed of its own shape, and a behaviour is about *)
(* one of them.                                                            *)
(***************************************************************************)
EXTENDS MilestoneViews

CONSTANTS
  Records,        \* per kind of page and issue number, the records it may have
  Plans           \* per kind of page, the milestones' states and descriptions

VARIABLES page, issues, milestones

vars == <<page, issues, milestones>>

Pages == {"backlog", "milestones"}
AnyOf(S) == CHOOSE x \in S : TRUE

Init ==
  /\ page \in Pages
  /\ issues = [n \in DOMAIN Records[page] |-> AnyOf(Records[page][n])]
  /\ milestones = [m \in DOMAIN Plans[page] |-> AnyOf(Plans[page][m])]

\* external: somebody edits an issue, or a milestone
EditIssue(n) ==
  /\ \E r \in Records[page][n] \ {issues[n]} : issues' = [issues EXCEPT ![n] = r]
  /\ UNCHANGED <<page, milestones>>

EditMilestone(m) ==
  /\ \E r \in Plans[page][m] \ {milestones[m]} : milestones' = [milestones EXCEPT ![m] = r]
  /\ UNCHANGED <<page, issues>>

Next == \/ \E n \in DOMAIN issues : EditIssue(n)
        \/ \E m \in DOMAIN milestones : EditMilestone(m)
Spec == Init /\ [][Next]_vars

-----------------------------------------------------------------------------
\* What every page computes is of its kind: one of the four states for every issue, and
\* group counts that add up.
TypeOK ==
  CASE page = "backlog" ->
         /\ \A n \in DOMAIN issues : RoadmapState(issues)[n] \in States
         /\ \A n \in DOMAIN TbpPage(issues) : TbpPage(issues)[n] \in States
    [] page = "milestones" ->
         \A m \in DOMAIN milestones :
           LET band == Band(issues, milestones[m]) IN
           band.total = band.new + band.ready + band.doing + band.done

\* The roadmap's badge speaks for the whole subtree: what is DONE has nothing open and
\* no experiment without its pass anywhere below, and work in progress shows in every
\* badge above it unless that level is not defined yet (_roadmap_node, classify_tbp_state).
RoadmapSpeaksForItsTree ==
  page = "backlog" =>
    LET state == RoadmapState(issues) IN
    \A n \in DOMAIN issues : \A d \in RoadmapUnder(issues, n) :
      /\ state[n] = "DONE" =>
           /\ issues[d].state = "closed"
           /\ RoadmapKind(issues[d]) = "experiment" => issues[d].passed
      /\ state[d] = "IN_PROGRESS" => state[n] \in {"IN_PROGRESS", "NEEDS_GRILLING"}

\* The branch proposed as next work ends in an open issue, and there is a proposal
\* whenever some leaf of the tree is open and defined (_tbp_next_branch).
NextWorkIsOpen ==
  page = "backlog" =>
    LET next == NextBranch(issues) IN
    IF next.leaf = None
      THEN \A n \in Leaves(issues) : OneDeep(issues, n) \in {"NEEDS_GRILLING", "DONE"}
      ELSE /\ issues[next.leaf].state = "open"
           /\ next.active <=> \E n \in Leaves(issues) : OneDeep(issues, n) = "IN_PROGRESS"

\* An issue is evidence for one group only: whatever the descriptions of all milestones
\* say, no issue is a member of two groups that Bands counts as done, and all members of
\* such a group are closed and assigned to its milestone (README "Milestone Slice Mapping").
DoneGroups == {d \in (DOMAIN milestones) \X (1..4) :
                 /\ d[2] \in DOMAIN Groups(milestones[d[1]])
                 /\ ~GateOnly(Groups(milestones[d[1]])[d[2]])
                 /\ BandState(issues, milestones[d[1]], d[2]) = "done"}
GroupMembers(d) == MembersOf(Groups(milestones[d[1]])[d[2]])
DoneGroupsShareNothing ==
  page = "milestones" =>
    \A d \in DoneGroups :
      /\ \A n \in GroupMembers(d) : /\ n \in Assigned(issues, milestones[d[1]])
                                    /\ issues[n].state = "closed"
      /\ \A e \in DoneGroups \ {d} : GroupMembers(d) \cap GroupMembers(e) = {}

\* Two pieces of code read the same plan.  Of a milestone whose groups are all delivery
\* groups and list no issue twice, Hybrid asks for no refinement only if Bands has
\* nothing to warn of, and then both count the same groups.
PlainPlan(milestone) ==
  LET groups == Groups(milestone) IN
  \A i \in DOMAIN groups : /\ groups[i].membership = "delivery"
                           /\ \A n \in MembersOf(groups[i]) : Listed(groups, n) = 1
HybridAgreesWithBands ==
  page = "milestones" =>
    \A m \in DOMAIN milestones :
      LET band == Band(issues, milestones[m])
          hybrid == Hybrid(issues, milestones[m])
      IN PlainPlan(milestones[m]) /\ hybrid.status # "refine" =>
           /\ ~band.attention
           /\ <<band.new, band.ready, band.doing, band.done, band.total>>
                = <<hybrid.new, hybrid.ready, hybrid.doing, hybrid.done, hybrid.total>>
           /\ \A i \in DOMAIN Groups(milestones[m]) :
                BarStatus(issues, milestones[m], i) # "refine"

\* The activity of an issue is what it says now: striking out everything a body quotes in
\* fences changes nothing, a fence inside a longer fence included (_delivery_current_status).
FenceStep(open, line) ==
  IF line.kind # "fence" THEN open
  ELSE IF open = <<>> THEN <<line.marker, line.length>>
  ELSE IF line.marker = open[1] /\ line.length >= open[2] /\ line.bare THEN <<>> ELSE open
Quoted(body, i) == FoldLeft(FenceStep, <<>>, SubSeq(body, 1, i)) # <<>>
Spoken(body) ==
  LET kept == {i \in DOMAIN body : body[i].kind # "fence" /\ ~Quoted(body, i)}
  IN [k \in 1..Cardinality(kept) |->
        body[CHOOSE i \in kept : Cardinality({j \in kept : j < i}) = k - 1]]
QuotedStatusIsIgnored ==
  page = "milestones" =>
    \A n \in DOMAIN issues :
      Activity(issues[n]) = Activity([issues[n] EXCEPT !.body = Spoken(@)])

-----------------------------------------------------------------------------
\* What dashboard documents say and the code does not do.

\* _tbp_label_tree: an issue whose parent link is missing or unresolved is listed as
\* unlinked, "so a broken link is visible instead of silently dropped".
EveryIssueIsShown ==
  page = "backlog" =>
    \A n \in DOMAIN issues : issues[n].level # "none" => n \in DOMAIN TbpPage(issues)

\* README: an acceptance gate "is excluded from delivery completion counts".
GatesAreNotCounted ==
  page = "milestones" =>
    \A m \in DOMAIN milestones :
      Hybrid(issues, milestones[m]).total =
        Cardinality({i \in DOMAIN Groups(milestones[m]) : ~GateOnly(Groups(milestones[m])[i])})
=============================================================================
