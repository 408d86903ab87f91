------------------------------- MODULE TbpViews -------------------------------
(***************************************************************************)
(* The states the dashboard shows for the delivery backlog (src/dashboard/ *)
(* app.py): Hoshin, Theme, Feature, Epic and Experiment issues linked by   *)
(* their Parent lines, on the TBP page, in the story map and under the     *)
(* roadmap's milestones.                                                   *)
(*                                                                         *)
(* An issue is a record of what the code extracts from its labels and      *)
(* body: its level (one tbp: label), state, mark (the label that says how  *)
(* it goes), parent (the number its level's Parent line names, or None),   *)
(* whether its measure is written and its child breakdown declared, the    *)
(* boxes of its Outcomes section, and whether a line of it says "pass" and *)
(* is ticked.  Titles, texts and links are left out.                       *)
(***************************************************************************)
EXTENDS Naturals, FiniteSets, FiniteSetsExt, Sequences

None == 0                                   \* no parent link, no milestone
Levels == {"hoshin", "theme", "feature", "epic", "experiment", "none"}
States == {"NEEDS_GRILLING", "READY_TO_PULL", "IN_PROGRESS", "DONE"}

Above == [theme |-> "hoshin", feature |-> "theme", epic |-> "feature", experiment |-> "epic"]

Of(issues, level) == {n \in DOMAIN issues : issues[n].level = level}

-----------------------------------------------------------------------------
\* _tbp_declares_child_breakdown: only three levels have such a section
DeclaresChildBreakdown(issue) ==
  issue.level \in {"theme", "feature", "epic"} /\ issue.breakdown

\* _tbp_theme_gap_is_covered, _tbp_feature_measure_is_covered, and the same test of
\* an Epic in _tbp_outcomes_satisfied
MeasureIsCovered(issue) == issue.measured /\ DeclaresChildBreakdown(issue)

\* _tbp_outcomes_satisfied: the checklist if there is one, else the measure.  The
\* feed has no creation dates, so that no record counts as an old one.
OutcomesSatisfied(issue) ==
  IF issue.outcomes # "none"
    THEN issue.outcomes = "ticked"
    ELSE issue.level \in {"theme", "feature", "epic"} /\ MeasureIsCovered(issue)

\* classify_tbp_state, given the states of the children: what is not defined well
\* enough, or hangs above something that is not ...
NeedsDefinition(issue, childStates) ==
  \/ issue.level \in {"theme", "feature"} /\ ~MeasureIsCovered(issue)
  \/ issue.level = "epic" /\ childStates = {} /\ ~DeclaresChildBreakdown(issue)
  \/ issue.level \in {"hoshin", "none"} /\ "NEEDS_GRILLING" \in childStates

\* ... and what a closed issue lacks to be done; only the roadmap says which issues are
\* experiments, that must have passed
\* mutant: a closed issue with its outcomes needs nothing of its children
Delivered_Childless(issue, childStates, experiment) ==
  OutcomesSatisfied(issue) /\ (experiment => issue.passed)
Delivered(issue, childStates, experiment) ==
  /\ OutcomesSatisfied(issue)
  /\ experiment => issue.passed
  /\ childStates \subseteq {"DONE"}

Classify(issue, childStates, experiment) ==
  CASE NeedsDefinition(issue, childStates) -> "NEEDS_GRILLING"
    [] ~NeedsDefinition(issue, childStates) /\ "IN_PROGRESS" \in childStates -> "IN_PROGRESS"
    [] OTHER ->
         IF issue.state = "closed"
           THEN IF Delivered(issue, childStates, experiment) THEN "DONE" ELSE "NEEDS_GRILLING"
           ELSE CASE issue.mark = "in-progress" -> "IN_PROGRESS"
                  [] issue.mark = "needs-grilling" /\ childStates \subseteq {"DONE"}
                       -> "NEEDS_GRILLING"
                  [] OTHER -> "READY_TO_PULL"

\* a node classified without its children, as every page does with the children of
\* the node it classifies
Alone(issue) == Classify(issue, {}, FALSE)

-----------------------------------------------------------------------------
\* _tbp_label_tree: the issues of a level that name a parent hang below it, if the
\* tree gets there; those that name none are listed apart
Linked(issues, n) == issues[n].level \in DOMAIN Above /\ issues[n].parent # None
Unlinked(issues) == {n \in DOMAIN issues : issues[n].level \in DOMAIN Above
                                            /\ issues[n].parent = None}
Children(issues, n) ==
  {c \in DOMAIN issues : /\ Linked(issues, c) /\ issues[c].parent = n
                         /\ Above[issues[c].level] = issues[n].level}

\* the nodes below the roots, one level after the other
Below(issues, nodes) == UNION {Children(issues, n) : n \in nodes}
InTree(issues) ==
  LET hoshins == Of(issues, "hoshin")
      themes == Below(issues, hoshins)
      features == Below(issues, themes)
      epics == Below(issues, features)
  IN hoshins \cup themes \cup features \cup epics \cup Below(issues, epics)

\* _tbp_roadmap_state, and the state of a node on the TBP page: one level deep
OneDeep(issues, n) ==
  Classify(issues[n], {Alone(issues[c]) : c \in Children(issues, n)}, FALSE)

\* render_tbp: the badge of every issue of the page; a Hoshin's own is taken without
\* its children (_tbp_render_root), an unlinked issue stands alone
TbpPage(issues) ==
  [n \in InTree(issues) \cup Unlinked(issues) |->
     IF issues[n].level = "hoshin" \/ n \in Unlinked(issues) THEN Alone(issues[n])
                                                             ELSE OneDeep(issues, n)]

\* the pipeline panel: everything that is not done
Bucket(issues, state) ==
  {n \in DOMAIN TbpPage(issues) : TbpPage(issues)[n] = state /\ state # "DONE"}

-----------------------------------------------------------------------------
\* _tbp_story_map_counts: how a node's children are doing
StoryMapCounts(issues, n) ==
  LET of(states) == Cardinality({c \in Children(issues, n) : OneDeep(issues, c) \in states})
  IN [new |-> of({"NEEDS_GRILLING"}), ready |-> of({"READY_TO_PULL"}),
      doing |-> of({"IN_PROGRESS"}), done |-> of({"DONE"})]

\* _tbp_roadmap_paths: a path per leaf of the tree, which is named by its leaf
Leaves(issues) == {n \in InTree(issues) : Children(issues, n) = {}}

\* _tbp_next_branch: the last updated leaf in progress, else the first ready one
Later(issues, a, b) ==
  \/ issues[a].updated > issues[b].updated
  \/ issues[a].updated = issues[b].updated /\ a >= b
NextBranch(issues) ==
  LET inState(state) == {n \in Leaves(issues) : OneDeep(issues, n) = state}
      active == inState("IN_PROGRESS")
      ready == inState("READY_TO_PULL")
  IN IF active # {}
       THEN [leaf |-> CHOOSE n \in active : \A m \in active : Later(issues, n, m),
             active |-> TRUE]
       ELSE IF ready # {} THEN [leaf |-> Min(ready), active |-> FALSE]
                          ELSE [leaf |-> None, active |-> FALSE]

-----------------------------------------------------------------------------
\* _roadmap_kind: the label, else the prefix of the title
RoadmapKind(issue) ==
  IF issue.level \in {"feature", "epic", "experiment"} THEN issue.level ELSE issue.title

\* _roadmap_children: Epics of a Feature, Experiments of an Epic
RoadmapChildren(issues, n) ==
  {c \in DOMAIN issues :
     /\ <<RoadmapKind(issues[n]), RoadmapKind(issues[c])>>
          \in {<<"feature", "epic">>, <<"epic", "experiment">>}
     /\ issues[c].parent = n}

\* _roadmap_node: the whole subtree is classified, from the leaves up
RoadmapState(issues) ==
  LET state[n \in DOMAIN issues] ==
        Classify(issues[n], {state[c] : c \in RoadmapChildren(issues, n)},
                 RoadmapKind(issues[n]) = "experiment")
  IN state

\* _roadmap_flatten: a node and everything under it
RoadmapUnder(issues, n) ==
  LET epics == RoadmapChildren(issues, n)
  IN {n} \cup epics \cup UNION {RoadmapChildren(issues, e) : e \in epics}

\* _roadmap_ancestors, the nodes above: whatever issue the Parent line of an Experiment
\* or an Epic names, of any kind.  The loop ends if it meets no issue twice.
RoadmapAbove(issues, n) ==
  LET up(m) == IF /\ RoadmapKind(issues[m]) \in {"epic", "experiment"}
                  /\ issues[m].parent \in DOMAIN issues
                 THEN {issues[m].parent} ELSE {}
      reach[i \in 0..Cardinality(DOMAIN issues)] ==
        IF i = 0 THEN up(n) ELSE reach[i - 1] \cup UNION {up(m) : m \in reach[i - 1]}
  IN reach[Cardinality(DOMAIN issues)]

\* roadmap_html: per milestone its issues and, in the breakdown, all around them
RoadmapBreakdown(issues, milestone) ==
  LET assigned == {n \in DOMAIN issues : issues[n].milestone = milestone}
  IN UNION {RoadmapAbove(issues, n) \cup RoadmapUnder(issues, n) : n \in assigned}
=============================================================================
