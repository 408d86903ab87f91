---------------------------- MODULE ValidationRoute ----------------------------
(***************************************************************************)
(* scripts/ci_validation_routing.py: which commit each validation job must *)
(* run on, what a job's result is sealed with, and when the results of all *)
(* jobs together accept a candidate.  The jobs run on other machines while *)
(* the pull request and the main branch move.                              *)
(*                                                                         *)
(* A tree is the set of the path classes in which it differs from the      *)
(* base's tree; a test file is a path of the class "tests".                *)
(***************************************************************************)
EXTENDS FiniteSets

CONSTANTS
  LinuxJobs       \* ownership, godot, records, python; the launcher's is the Windows job

VARIABLES
  tree,           \* external: the candidate's tree
  plan,           \* plan.json, and for the properties the contract it was made with
  job,            \* the runner of each job: its checkout and what it executed there
  result,         \* result.json of each job, as the aggregation finds it
  report          \* the acceptance report

vars == <<tree, plan, job, result, report>>

Jobs == LinuxJobs \cup {"launcher"}
Commits == {"base", "candidate"}
Classes == {"client", "tooling", "linux", "tests", "stray"}
Contracts == {"none", "invalid", "valid"}
Outcomes == {"none", "green", "partial", "failed"}
Events == {"pull_request", "push", "push_main", "dispatch"}

\* external: what the event, the pull request and main say when the run is planned
Worlds == [event : Events, head : {"candidate", "later"}, open : BOOLEAN, label : BOOLEAN,
           main : {"base", "candidate", "moved"}, contract : Contracts]

NoPlan == [made |-> FALSE, baseline |-> "base", linux |-> "base", windows |-> FALSE,
           contract |-> "none", inputs |-> {}, tests |-> {}]
NoResult == [found |-> FALSE, intact |-> TRUE, ours |-> FALSE, source |-> "base",
             inputs |-> {}, tests |-> {}, green |-> FALSE]
NotRun == [at |-> "none", checkout |-> "base", outcome |-> "none"]

TypeOK ==
  /\ tree \subseteq Classes /\ plan.baseline \in Commits /\ plan.linux \in Commits
  /\ job \in [Jobs -> [at : {"none", "verified", "ran", "sealed", "failed"},
                       checkout : Commits, outcome : Outcomes]]
  /\ report \in {"none", "rejected", "passed"}

Init ==
  /\ tree \in SUBSET Classes /\ plan = NoPlan /\ job = [j \in Jobs |-> NotRun]
  /\ result = [j \in Jobs |-> NoResult] /\ report = "none"

TreeOf(commit) == IF commit = "base" THEN {} ELSE tree

-----------------------------------------------------------------------------
\* plan: the event's candidate against the baseline

\* windows_tooling(): these paths are no input of a Linux job
LinuxInputs(paths) == paths \ {"tooling"}
Differ(a, b) == (a \ b) \cup (b \ a)

\* expected_tests(): the test files of a tree
ExpectedTests(paths) == paths \cap {"tests"}

\* metadata_from_event(): what the event, the pull request and main must agree on
Identified(w) ==
  /\ w.event \in {"pull_request", "push"} => w.open /\ w.head = "candidate" /\ w.main = "base"
  /\ w.event \in {"push_main", "dispatch"} => w.main = "candidate"

BaselineOf(w) == IF w.event = "dispatch" THEN "candidate" ELSE "base"
Labelled(w) == w.event # "dispatch" /\ w.label

\* mutant: the Windows tooling may change without the label
Routable_Tooling(w) ==
  LET changed == Differ(tree, TreeOf(BaselineOf(w))) IN
  /\ ("client" \in changed \/ (Labelled(w) /\ LinuxInputs(changed) # {})) =>
       Labelled(w) /\ w.contract = "valid"
  /\ "stray" \notin changed

\* route(): a client change, or Linux inputs changed under the Windows label, needs the label
\* and a valid contract; tooling needs the label; no path is nobody's
Routable(w) ==
  LET changed == Differ(tree, TreeOf(BaselineOf(w))) IN
  /\ ("client" \in changed \/ (Labelled(w) /\ LinuxInputs(changed) # {})) =>
       Labelled(w) /\ w.contract = "valid"
  /\ "tooling" \in changed => Labelled(w)
  /\ "stray" \notin changed

\* mutant: the label alone lets the baseline stand for the candidate
ReuseBaseline_Labelled(w) == Labelled(w)

\* the baseline's results stand for the candidate's only if the Linux inputs are the same
ReuseBaseline(w) == Labelled(w) /\ LinuxInputs(tree) = LinuxInputs(TreeOf(BaselineOf(w)))

LinuxRef(w) == IF ReuseBaseline(w) THEN BaselineOf(w) ELSE "candidate"

\* planned_expected_tests(): of the tree that the jobs execute
PlannedTests(w) == ExpectedTests(TreeOf(LinuxRef(w)))

\* a plan that cannot be made is no plan, and nothing runs
Plan ==
  /\ ~plan.made
  /\ \E w \in Worlds :
       /\ Identified(w) /\ Routable(w)
       /\ plan' = [made |-> TRUE, baseline |-> BaselineOf(w), linux |-> LinuxRef(w),
                   windows |-> Labelled(w), contract |-> w.contract,
                   inputs |-> LinuxInputs(TreeOf(LinuxRef(w))),
                   tests |-> PlannedTests(w)]
  /\ UNCHANGED <<tree, job, result, report>>

-----------------------------------------------------------------------------
\* The jobs

SourceRef(j) == IF j = "launcher" THEN "candidate" ELSE plan.linux

Sets(j, state) == job' = [job EXCEPT ![j] = state]

\* external: the runner checks a commit out, the right one or what it had, or breaks down; a
\* Linux job then runs verify-source
Checkout(j) ==
  /\ plan.made /\ job[j].at = "none"
  /\ \E c \in Commits :
       LET verified == j = "launcher" \/ (c = plan.linux /\ LinuxInputs(TreeOf(c)) = plan.inputs) IN
       \E at \in {"verified", "failed"} :
         /\ at = "verified" => verified
         /\ Sets(j, [at |-> at, checkout |-> c, outcome |-> "none"])
  /\ UNCHANGED <<tree, plan, result, report>>

\* external: the tests run there: all with success, some of them only, or with failures
Execute(j) ==
  /\ job[j].at = "verified"
  /\ \E outcome \in Outcomes \ {"none"} :
       Sets(j, [job[j] EXCEPT !.at = "ran", !.outcome = outcome])
  /\ UNCHANGED <<tree, plan, result, report>>

\* the evidence a job leaves: what it executed, without a failure or a skip
Executed(j) ==
  IF job[j].outcome = "green" THEN ExpectedTests(TreeOf(job[j].checkout)) ELSE {"fewer"}

\* seal(): the checkout is the plan's, nothing failed, and exactly the expected tests ran
Seal(j) ==
  /\ job[j].at = "ran"
  /\ IF /\ job[j].checkout = SourceRef(j) /\ job[j].outcome # "failed"
        /\ Executed(j) = plan.tests
       THEN /\ Sets(j, [job[j] EXCEPT !.at = "sealed"])
            /\ result' = [result EXCEPT ![j] =
                 [found |-> TRUE, intact |-> TRUE, ours |-> TRUE, source |-> SourceRef(j),
                  inputs |-> plan.inputs, tests |-> Executed(j), green |-> TRUE]]
       ELSE Sets(j, [job[j] EXCEPT !.at = "failed"]) /\ UNCHANGED result
  /\ UNCHANGED <<tree, plan, report>>

-----------------------------------------------------------------------------
\* aggregate

\* reconcile(): every required job's result is of this candidate, source and input, and complete
Reconciled ==
  \A j \in Jobs :
    /\ result[j].found /\ result[j].ours
    /\ result[j].source = SourceRef(j) /\ result[j].inputs = plan.inputs
    /\ result[j].tests = plan.tests

\* the job of the aggregation waits for all the others, whatever became of them
Ended == report = "none" /\ (plan.made => \A j \in Jobs : job[j].at \in {"sealed", "failed"})

Aggregate ==
  /\ Ended
  /\ report' = (IF plan.made /\ (\A j \in Jobs : result[j].intact) /\ Reconciled
                  THEN "passed" ELSE "rejected")
  /\ UNCHANGED <<tree, plan, job, result>>

-----------------------------------------------------------------------------
\* External: on the way to the aggregation an artifact is damaged, or another run's is found

Damage(j) ==
  /\ Ended /\ result[j].found /\ result[j].intact
  /\ result' = [result EXCEPT ![j].intact = FALSE]
  /\ UNCHANGED <<tree, plan, job, report>>

Mistake(j) ==
  /\ Ended /\ plan.made /\ ~result[j].found
  /\ \E c \in Commits, green \in BOOLEAN :
       result' = [result EXCEPT ![j] =
         [found |-> TRUE, intact |-> TRUE, ours |-> FALSE, source |-> c, green |-> green,
          inputs |-> LinuxInputs(TreeOf(c)), tests |-> ExpectedTests(TreeOf(c))]]
  /\ UNCHANGED <<tree, plan, job, report>>

Next ==
  \/ Plan \/ Aggregate
  \/ \E j \in Jobs : Checkout(j) \/ Execute(j) \/ Seal(j) \/ Damage(j) \/ Mistake(j)
Spec == Init /\ [][Next]_vars

-----------------------------------------------------------------------------
\* A candidate that is accepted was itself validated: every Linux job ran with success on a tree
\* whose inputs are the candidate's own, all the tests that the candidate has, and the launcher
\* on the candidate (ci_validation_routing.py:103-111,
\* 119-139, 238-242 and 420-443).
AcceptedIsValidated ==
  report = "passed" =>
    \A j \in Jobs :
      /\ result[j].green /\ result[j].intact
      /\ result[j].tests = ExpectedTests(tree)
      /\ LinuxInputs(TreeOf(result[j].source)) = LinuxInputs(tree)
      /\ j = "launcher" => result[j].source = "candidate"

\* An accepted change of the client or of the Windows tooling was planned with the Windows gate,
\* and nothing in it belongs to nobody (ci_validation_routing.py:80-106).
AcceptedIsOwned ==
  (report = "passed" /\ plan.baseline = "base") =>
    /\ tree \cap {"client", "tooling"} # {} => plan.windows
    /\ "client" \in tree => plan.contract = "valid"
    /\ "stray" \notin tree

-----------------------------------------------------------------------------
\* What is true between any two steps: a plan is one that some world allowed, this run's results
\* are the sealed ones, and what was accepted is what the aggregation saw.
Planned(w) ==
  /\ Identified(w) /\ Routable(w)
  /\ plan = [made |-> TRUE, baseline |-> BaselineOf(w), linux |-> LinuxRef(w),
             windows |-> Labelled(w), contract |-> w.contract,
             inputs |-> LinuxInputs(TreeOf(LinuxRef(w))), tests |-> PlannedTests(w)]

RouteInv ==
  /\ tree \subseteq Classes
  /\ DOMAIN job = Jobs /\ DOMAIN result = Jobs
  /\ IF plan.made THEN \E w \in Worlds : Planned(w) ELSE plan = NoPlan
  /\ ~plan.made => \A j \in Jobs : job[j] = NotRun
  /\ \A j \in Jobs : result[j] \in [found : BOOLEAN, intact : BOOLEAN, ours : BOOLEAN, source : Commits,
                                    inputs : SUBSET Classes, tests : SUBSET Classes, green : BOOLEAN]
  /\ \A j \in Jobs : result[j].ours => result[j].green
  /\ report = "passed" =>
       /\ plan.made /\ \A j \in Jobs : job[j].at \in {"sealed", "failed"}
       /\ \A j \in Jobs : result[j].intact
       /\ Reconciled
=============================================================================
