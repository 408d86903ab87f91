------------------------------ MODULE GoalViews ------------------------------
(***************************************************************************)
(* What the dashboard reads out of Goal, Feature and Slice issues (src/    *)
(* dashboard/app.py): how far a Goal's capability items are covered, which *)
(* slices are being worked on, and the tallies of the overview.            *)
(*                                                                         *)
(* An issue is a record of what the code extracts from its labels and      *)
(* body: kind, state, the lines of its "What Good Looks Like" section, its *)
(* Parent and Advances links.  Titles, texts and the order of cards on the *)
(* page are left out.                                                      *)
(***************************************************************************)
EXTENDS Naturals, FiniteSets, FiniteSetsExt, Sequences

CONSTANT Records        \* per issue number, the records it may have

VARIABLE feed           \* the issues the pages are read from

None == 0                                   \* no parent link
Lines == {"ticked", "unticked", "bullet", "prose"}

Count(S) == Cardinality(S)
SumOf(S, F(_)) == MapThenSumSet(F, S)
Having(issues, P(_)) == {n \in DOMAIN issues : P(issues[n])}

\* round(part / whole * 100), halves to even
Percent(part, whole) ==
  LET q == (100 * part) \div whole
      r == 2 * ((100 * part) % whole)
  IN IF r > whole \/ (r = whole /\ q % 2 = 1) THEN q + 1 ELSE q

-----------------------------------------------------------------------------
\* goal_good_looks_like: the list items of the section, and how many are ticked
GoodLooksLike(issue) ==
  LET listed == {i \in DOMAIN issue.wgl : issue.wgl[i] # "prose"} IN
  [total |-> Count(listed),
   done |-> Count({i \in listed : issue.wgl[i] = "ticked"}),
   missing |-> listed = {}]

\* goal_wgl_items: the same items by position, item k of "Advances: #goal item k"
WglItems(issue) == 1..Len(SelectSeq(issue.wgl, LAMBDA line : line # "prose"))

\* goal_target_coverage: the share of hand-ticked boxes
TargetCoverage(criteria) == IF criteria.total = 0 THEN 0
                                                  ELSE Percent(criteria.done, criteria.total)

\* issue_covers_goal_target: a "Status: resolved" line
CoversGoalTarget(issue) == issue.resolved

\* goal_feature_slices: the Features of a goal with their Slices
Slices(issues, feature) ==
  Having(issues, LAMBDA i : i.kind = "Slice" /\ i.parentFeature = feature)
Features(issues, goal) ==
  Having(issues, LAMBDA i : i.kind = "Feature" /\ i.parentGoal = goal)

\* _feature_resolved: closed itself, or every one of at least one Slice is
FeatureResolved(issues, feature) ==
  \/ issues[feature].state = "closed"
  \/ /\ Slices(issues, feature) # {}
     /\ \A s \in Slices(issues, feature) : issues[s].state = "closed"

\* goal_wgl_feature_coverage: the goal an Advances line names is matched, not read
Claims(issues, features) == UNION {{a.item : a \in issues[f].advances} : f \in features}

\* mutant: the boxes ticked by hand count
WglCoverage_ByHand(issues, criteria, features) ==
  [claimed |-> Claims(issues, features), resolved |-> {}, percent |-> TargetCoverage(criteria)]

WglCoverage(issues, criteria, features) ==
  LET claimed == Claims(issues, features)
      resolved == Claims(issues, {f \in features : FeatureResolved(issues, f)})
  IN [claimed |-> claimed, resolved |-> resolved,
      percent |-> IF criteria.total = 0 THEN 0 ELSE Percent(Count(resolved), criteria.total)]

-----------------------------------------------------------------------------
\* goal_issue_cards: one card per Goal
Card(issues, g) ==
  LET children == Having(issues, LAMBDA i : i.parentGoal = g)
      closed == {c \in children : issues[c].state = "closed"}
      covered == {c \in children : CoversGoalTarget(issues[c])}
      criteria == GoodLooksLike(issues[g])
      features == Features(issues, g)
      coverage == WglCoverage(issues, criteria, features)
      items == WglItems(issues[g])
  IN [number |-> g, childTotal |-> Count(children), childClosed |-> Count(closed),
      childOpen |-> Count(children) - Count(closed), targetCovered |-> Count(covered),
      childPercent |-> IF children = {} THEN 0 ELSE Percent(Count(covered), Count(children)),
      criteriaTotal |-> criteria.total, criteriaMissing |-> criteria.missing,
      wglResolved |-> Count(coverage.resolved), wglClaimed |-> Count(coverage.claimed),
      unclaimed |-> items \ coverage.claimed,
      unresolvedClaimed |-> (items \cap coverage.claimed) \ coverage.resolved,
      percent |-> coverage.percent, features |-> features]

GoalCards(issues) ==
  {Card(issues, g) : g \in Having(issues, LAMBDA i : i.kind = "Goal")}

\* goal_status: the pill of a card
GoalStatus(card) ==
  CASE card.criteriaTotal = 0                        -> "notchartered"
    [] card.criteriaTotal > 0 /\ card.percent = 100  -> "done"
    [] card.criteriaTotal > 0 /\ card.percent # 100  ->
         IF card.wglClaimed > 0 THEN "progress" ELSE "notstarted"

\* active_work: open Slices whose Feature is linked to a Goal that has a card
ActiveWork(issues) ==
  LET linked == UNION {c.features : c \in GoalCards(issues)} IN
  {s \in DOMAIN issues : /\ issues[s].kind = "Slice" /\ issues[s].state = "open"
                         /\ issues[s].parentFeature \in linked}

\* render_overview: the tallies of the front page
Overview(issues) ==
  LET cards == GoalCards(issues)
      chartered == {c \in cards : c.criteriaTotal > 0}
      items == SumOf(chartered, LAMBDA c : c.criteriaTotal)
      resolved == SumOf(chartered, LAMBDA c : c.wglResolved)
  IN [chartered |-> chartered,
      done |-> {c \in chartered : c.percent = 100},
      inProgress |-> {c \in chartered : c.percent < 100 /\ c.wglClaimed > 0},
      notStarted |-> {c \in chartered : c.wglClaimed = 0},
      gaps |-> SumOf(chartered, LAMBDA c : Count(c.unclaimed)),
      percent |-> IF items = 0 THEN 0 ELSE Percent(resolved, items),
      work |-> ActiveWork(issues)]

-----------------------------------------------------------------------------
\* A page keeps nothing: every step is an edit made on GitHub.
Init == feed = [n \in DOMAIN Records |-> CHOOSE r \in Records[n] : TRUE]

\* external: somebody edits an issue
EditIssue(n) == \E r \in Records[n] \ {feed[n]} : feed' = [feed EXCEPT ![n] = r]

Next == \E n \in DOMAIN feed : EditIssue(n)
Spec == Init /\ [][Next]_feed

-----------------------------------------------------------------------------
\* A card per Goal, with counts and one of the four pills.
TypeOK ==
  \A c \in GoalCards(feed) :
    /\ {c.percent, c.wglClaimed, c.wglResolved} \subseteq Nat
    /\ GoalStatus(c) \in {"notchartered", "done", "progress", "notstarted"}

\* A Goal's percent is proof, not intention: a box ticked by hand moves nothing, and
\* closing an issue never takes any of it back (goal_wgl_feature_coverage: "a
\* hand-ticked checkbox with no Feature behind it is not evidence the gap closed").
PercentOf(issues, g) == (CHOOSE c \in GoalCards(issues) : c.number = g).percent
Ticks(n) == \E i \in DOMAIN feed[n].wgl :
  /\ feed[n].wgl[i] # "prose"
  /\ feed' = [feed EXCEPT ![n].wgl[i] = IF @ = "ticked" THEN "unticked" ELSE "ticked"]
Closes(n) == feed' = [feed EXCEPT ![n].state = "closed"]
EditKeepsProof ==
  \A g \in {n \in DOMAIN feed : feed[n].kind = "Goal"} : \A n \in DOMAIN feed :
    /\ Ticks(n) => PercentOf(feed', g) = PercentOf(feed, g)
    /\ Closes(n) => PercentOf(feed', g) >= PercentOf(feed, g)
ProgressIsProof == [][EditKeepsProof]_feed

\* The invariant it rests on: issues are edited, never made up.
GoalsInv == DOMAIN feed = DOMAIN Records /\ \A n \in DOMAIN Records : feed[n] \in Records[n]
=============================================================================
