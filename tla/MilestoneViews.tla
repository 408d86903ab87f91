----------------------------- MODULE MilestoneViews -----------------------------
(***************************************************************************)
(* How the dashboard's roadmap reads the Slices of a GitHub milestone      *)
(* (src/dashboard/app.py): the groups its description defines, the state   *)
(* of a group from its member issues, and the two views, Bands and Hybrid, *)
(* that count them.                                                        *)
(*                                                                         *)
(* A description or body is a sequence of lines, and a line is a record    *)
(* of its kind and of what the code takes from it.  A text is "" when it   *)
(* is missing, "unfinished" when it holds a placeholder, "url" when it     *)
(* holds a link and "text" otherwise.  Links, order on the page and        *)
(* warning texts are left out; a warning is a name.                        *)
(***************************************************************************)
EXTENDS TbpViews, SequencesExt

Fence(marker, length, bare) ==
  [kind |-> "fence", marker |-> marker, length |-> length, bare |-> bare]
Heading(depth, title) == [kind |-> "heading", depth |-> depth, title |-> title]
Slice(id, title) == [kind |-> "slice", id |-> id, title |-> title]     \* ### Slice id: title
Field(name, text) == [kind |-> "field", name |-> name, text |-> text]
Member(n) == [kind |-> "member", number |-> n]                          \* - #n
Declares(status, prefixed) == [kind |-> "declares", status |-> status, prefixed |-> prefixed]
Text == [kind |-> "text"]

-----------------------------------------------------------------------------
\* _milestone_slice_plan, a line at a time
NewGroup(id, title) ==
  [id |-> id, title |-> title, outcome |-> "", complete |-> "", membership |-> "delivery",
   defined |-> FALSE, evidence |-> "", members |-> <<>>, warned |-> FALSE]

EmptyPlan == [groups |-> <<>>, sections |-> {}, scope |-> FALSE, section |-> "",
              open |-> FALSE, field |-> "", fence |-> ""]

TakeFence(plan, line) ==
  [plan EXCEPT !.fence = IF @ = "" THEN line.marker ELSE IF @ = line.marker THEN "" ELSE @]

TakeHeading(plan, line) ==
  IF line.depth <= 2
    THEN [plan EXCEPT !.section = line.title, !.sections = @ \cup {line.title},
                      !.open = FALSE, !.field = ""]
    ELSE IF line.depth = 3 /\ plan.section = "slices"
      THEN [plan EXCEPT !.open = FALSE, !.field = ""]
      ELSE plan

TakeSlice(plan, line) ==
  IF plan.section = "slices"
    THEN [plan EXCEPT !.groups = Append(@, NewGroup(line.id, line.title)),
                      !.open = TRUE, !.field = ""]
    ELSE plan

\* a line under the group that is open, the last one
Extended(old, more) == IF old = "" THEN more ELSE IF more = "url" THEN "url" ELSE "text"
TakeField(group, line) ==
  CASE line.name = "included"   -> [group EXCEPT !.defined = TRUE, !.warned = @ \/ line.text # ""]
    [] line.name = "outcome"    -> [group EXCEPT !.outcome = line.text]
    [] line.name = "complete"   -> [group EXCEPT !.complete = line.text]
    [] line.name = "membership" -> [group EXCEPT !.membership = line.text]
    [] line.name = "evidence"   -> [group EXCEPT !.evidence = line.text]
    [] line.name = "context"    -> group
TakeEntry(group, line, field) ==
  CASE field = "included"   -> IF line.kind = "member"
                                 THEN [group EXCEPT !.members = Append(@, line.number)]
                                 ELSE [group EXCEPT !.warned = TRUE]
    [] field = "outcome"    -> [group EXCEPT !.outcome = Extended(@, "text")]
    [] field = "complete"   -> [group EXCEPT !.complete = Extended(@, "text")]
    [] field = "membership" -> [group EXCEPT !.membership = "unknown"]
    [] field = "evidence"   -> [group EXCEPT !.evidence = Extended(@, "text")]
    [] field \in {"context", ""} -> group

TakeLine(plan, line) ==
  LET last == Len(plan.groups) IN
  CASE line.kind = "fence" -> TakeFence(plan, line)
    [] line.kind # "fence" /\ plan.fence # "" -> plan
    [] OTHER ->
         CASE line.kind = "heading" -> TakeHeading(plan, line)
           [] line.kind = "slice" -> TakeSlice(plan, line)
           [] OTHER ->
                IF ~plan.open
                  THEN [plan EXCEPT !.scope = @ \/ plan.section = "required scope"]
                  ELSE IF line.kind = "field"
                    THEN [plan EXCEPT !.groups[last] = TakeField(@, line), !.field = line.name]
                    ELSE [plan EXCEPT !.groups[last] = TakeEntry(@, line, plan.field)]

SlicePlan(description) == FoldLeft(TakeLine, EmptyPlan, description)

-----------------------------------------------------------------------------
\* _delivery_current_status: the last declaration at the start of a body or under its
\* status heading, outside fences
StatusStep(seen, line) ==
  CASE line.kind = "fence" ->
         [seen EXCEPT !.fence =
            IF @ = <<>> THEN <<line.marker, line.length>>
            ELSE IF line.marker = @[1] /\ line.length >= @[2] /\ line.bare THEN <<>> ELSE @]
    [] line.kind # "fence" /\ seen.fence # <<>> -> seen
    [] line.kind = "heading" /\ seen.fence = <<>> ->
         [seen EXCEPT !.section = IF line.depth = 2 THEN line.title ELSE "other"]
    [] line.kind = "declares" /\ seen.fence = <<>> ->
         IF seen.section = "status" \/ (seen.section = "" /\ line.prefixed)
           THEN [seen EXCEPT !.status = line.status] ELSE seen
    [] OTHER -> seen

CurrentStatus(body) ==
  FoldLeft(StatusStep, [section |-> "", fence |-> <<>>, status |-> ""], body).status

\* _delivery_issue_activity
Activity(issue) ==
  IF issue.state = "closed" THEN {"closed"}
  ELSE {a \in {"active", "blocked"} :
          \/ a = "active" /\ (\/ issue.mark = "in-progress"
                              \/ CurrentStatus(issue.body)
                                   \in {"in progress", "active", "awaiting evidence"})
          \/ a = "blocked" /\ (\/ issue.mark = "blocked"
                               \/ CurrentStatus(issue.body) = "blocked")}

\* _delivery_activity_html: closed, active and blocked among some issues
Tally(issues, numbers) ==
  [a \in {"closed", "active", "blocked"} |->
     Cardinality({n \in numbers : a \in Activity(issues[n])})]

-----------------------------------------------------------------------------
\* _milestone_group_state
SaysBlocked(issue) == \E i \in DOMAIN issue.body :
  issue.body[i] \in {Declares("blocked", TRUE), Heading(2, "blocked")}
Hindered(issue) == issue.mark \in {"blocked", "needs-grilling"} \/ SaysBlocked(issue)
Readiness(issue) ==
  CASE issue.mark = "in-progress" -> "IN_PROGRESS"
    [] issue.mark = "ready"       -> "READY_TO_PULL"
    [] issue.mark \notin {"in-progress", "ready"} ->
         IF issue.level \in {"theme", "feature", "epic"} THEN Alone(issue)
                                                          ELSE "NEEDS_GRILLING"

GroupState(issues, group, members, milestoneClosed) ==
  LET open == {n \in members : issues[n].state = "open"} IN
  CASE group.warned \/ members = {} -> "new"
    [] ~group.warned /\ members # {} /\ open = {} ->
         IF milestoneClosed \/ group.evidence = "url" THEN "done" ELSE "doing"
    [] OTHER ->
         IF \E n \in open : Hindered(issues[n]) \/ Readiness(issues[n]) = "NEEDS_GRILLING"
           THEN "new"
           ELSE IF \E n \in open : Readiness(issues[n]) = "IN_PROGRESS" THEN "doing" ELSE "ready"

-----------------------------------------------------------------------------
Closed(milestone) == milestone.state = "closed"
Groups(milestone) == SlicePlan(milestone.description).groups
MembersOf(group) == {group.members[i] : i \in DOMAIN group.members}
GateOnly(group) == group.membership = "acceptance-gate-only"
Unfinished(group) == "" \in {group.title, group.outcome, group.complete}
                     \/ "unfinished" \in {group.title, group.outcome, group.complete}
SameId(groups, i) == \E j \in DOMAIN groups \ {i} : groups[j].id = groups[i].id

\* membership[number] of _delivery_mapped_band: how often a milestone lists an issue
Listed(groups, n) ==
  Cardinality({p \in UNION {{i} \X DOMAIN groups[i].members : i \in DOMAIN groups} :
                 groups[p[1]].members[p[2]] = n})

Present(issues, group) == MembersOf(group) \cap DOMAIN issues
Assigned(issues, milestone) == {n \in DOMAIN issues : issues[n].milestone = milestone.number}

\* _delivery_mapped_band: what keeps a group of the Bands view new
BandWarns(issues, milestone, i) ==
  LET groups == Groups(milestone)
      group == groups[i]
  IN \/ group.warned
     \/ SameId(groups, i)
     \/ group.membership \notin {"delivery", "acceptance-gate-only"}
     \/ GateOnly(group) /\ (group.members # <<>> \/ ~group.defined)
     \/ ~GateOnly(group) /\ group.members = <<>>
     \/ Unfinished(group)
     \/ \E n \in MembersOf(group) : \/ Listed(groups, n) > 1
                                    \/ n \notin Assigned(issues, milestone)

BandState(issues, milestone, i) ==
  LET group == Groups(milestone)[i] IN
  IF GateOnly(group) /\ ~BandWarns(issues, milestone, i)
    THEN "gate"
    ELSE GroupState(issues, [group EXCEPT !.warned = BandWarns(issues, milestone, i)],
                    Present(issues, group), Closed(milestone))

Unmapped(issues, milestone) ==
  Assigned(issues, milestone)
    \ UNION {MembersOf(Groups(milestone)[i]) : i \in DOMAIN Groups(milestone)}

Band(issues, milestone) ==
  LET groups == Groups(milestone)
      plan == SlicePlan(milestone.description)
      delivery == {i \in DOMAIN groups : ~GateOnly(groups[i])}
      of(state) == Cardinality({i \in delivery : BandState(issues, milestone, i) = state})
  IN [new |-> of("new"), ready |-> of("ready"), doing |-> of("doing"), done |-> of("done"),
      total |-> Cardinality(delivery),
      attention |-> \/ plan.scope \/ Unmapped(issues, milestone) # {}
                    \/ "shared context" \in plan.sections
                    \/ \E i \in DOMAIN groups : BandWarns(issues, milestone, i)]

-----------------------------------------------------------------------------
\* _delivery_hybrid_summary, which reads the same plan by rules of its own
HybridState(issues, milestone, i) ==
  LET group == Groups(milestone)[i] IN
  GroupState(issues, group, Present(issues, group) \cap Assigned(issues, milestone),
             Closed(milestone))

\* mutant: only the groups matter, not what none of them lists
NeedsRefinement_MappedOnly(issues, milestone) ==
  \E i \in DOMAIN Groups(milestone) :
    \/ SameId(Groups(milestone), i) \/ Unfinished(Groups(milestone)[i])
    \/ HybridState(issues, milestone, i) = "new"
NeedsRefinement(issues, milestone) ==
  LET groups == Groups(milestone)
      plan == SlicePlan(milestone.description)
  IN \/ \E i \in DOMAIN groups :
          \/ SameId(groups, i) \/ Unfinished(groups[i]) \/ groups[i].members = <<>>
          \/ ~(MembersOf(groups[i]) \subseteq Assigned(issues, milestone))
          \/ HybridState(issues, milestone, i) = "new"
     \/ {"shared context", "required scope"} \cap plan.sections # {}
     \/ Unmapped(issues, milestone) # {}

Hybrid(issues, milestone) ==
  LET groups == Groups(milestone)
      of(state) == Cardinality({i \in DOMAIN groups :
                                  HybridState(issues, milestone, i) = state})
  IN [status |-> IF NeedsRefinement(issues, milestone) THEN "refine"
                 ELSE IF Closed(milestone) THEN "done"
                 ELSE IF Tally(issues, Assigned(issues, milestone))["active"] > 0
                        THEN "working" ELSE "next",
      new |-> of("new"), ready |-> of("ready"), doing |-> of("doing"), done |-> of("done"),
      total |-> Len(groups)]

\* _delivery_hybrid_slice_schedule: the colour of a group's bar
BarStatus(issues, milestone, i) ==
  LET group == Groups(milestone)[i]
      warned == \/ group.warned \/ Unfinished(group) \/ group.members = <<>>
                \/ ~(MembersOf(group) \subseteq Assigned(issues, milestone))
      state == GroupState(issues, [group EXCEPT !.warned = warned], Present(issues, group),
                          Closed(milestone))
  IN CASE state = "done" -> "done" [] state = "doing" -> "working"
       [] state = "ready" -> "next" [] state = "new" -> "refine"

\* the column of the bar: when the group was finished, or last touched
BarDate(issues, milestone, i) ==
  LET members == Present(issues, Groups(milestone)[i])
      dates == IF \A n \in members : issues[n].state = "closed"
                 THEN {issues[n].closedAt : n \in members} \ {0} ELSE {}
      updated == {issues[n].updated : n \in members}
  IN Max(IF dates # {} THEN dates ELSE updated \cup {0})

\* _delivery_slice_description: the page of a group, if its identifier is unique among
\* the milestone's, and "unavailable" otherwise
DescribedGroup(milestone, id) ==
  LET found == {i \in DOMAIN Groups(milestone) : Groups(milestone)[i].id = id} IN
  IF Cardinality(found) = 1 THEN Groups(milestone)[CHOOSE i \in found : TRUE].members
                            ELSE <<"unavailable">>
=============================================================================
