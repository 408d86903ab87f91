-------------------------------- MODULE Operator --------------------------------
(***************************************************************************)
(* The operator control plane (src/infra/operator): requests are handled   *)
(* on a thread pool; a lifecycle action runs a command on the host and is  *)
(* then recorded as a job in an SQLite audit log, all through one          *)
(* connection; a control action is forwarded to the game server, which     *)
(* keeps a drain flag and a degraded flag.                                 *)
(*                                                                         *)
(* A caller is the scopes its token proves, or NoIdentity.  Tokens, ids    *)
(* and times are left out; a service is up or down.                        *)
(***************************************************************************)
EXTENDS Naturals, Sequences, SequencesExt

CONSTANTS
  Requests,       \* bound: the requests that may be made, each once
  Services        \* names of the allowlist

VARIABLES
  request,        \* per request: where it is, who asks what, and its answer
  unit,           \* the host's services
  late,           \* effects of commands that were given up and still run
  open,           \* rows inserted and not yet committed, in the one transaction
  audit,          \* rows committed to the audit database
  game,           \* the game server's flags
  effects         \* history: the requests whose effect has happened

vars == <<request, unit, late, open, audit, game, effects>>

NoIdentity == {"none"}
Identities == {NoIdentity, {}, {"lifecycle"}, {"*"}, {"control"}}
Lifecycle == {"start", "stop", "restart"}
Control == {"drain", "set_degraded"}
Unknown == "unknown_service"
NoAsk == [by |-> NoIdentity, action |-> "none", target |-> Unknown]
Asks == [by : Identities, action : Lifecycle \cup Control, target : Services \cup {Unknown}]
Answers == {"none", "unauthorized", "denied", "unknown", "succeeded", "failed", "accepted",
            "rejected", "error"}
Steps == {"idle", "arrived", "run", "insert", "commit", "forward", "done"}

Row(r) == [request |-> r, action |-> request[r].ask.action, target |-> request[r].ask.target,
           outcome |-> request[r].answer]

TypeOK ==
  /\ request \in [Requests -> [at : Steps, ask : Asks \cup {NoAsk}, answer : Answers]]
  /\ unit \in [Services -> BOOLEAN]
  /\ late \subseteq Requests /\ effects \subseteq Requests
  /\ game \in [draining : BOOLEAN, degraded : BOOLEAN]
  /\ \A s \in {open, audit} : \A i \in DOMAIN s : s[i].request \in Requests

Init ==
  /\ request = [r \in Requests |-> [at |-> "idle", ask |-> NoAsk, answer |-> "none"]]
  /\ unit \in [Services -> {TRUE}]
  /\ late = {} /\ effects = {}
  /\ open = <<>> /\ audit = <<>>
  /\ game = [draining |-> FALSE, degraded |-> FALSE]

-----------------------------------------------------------------------------
Ask(r) == request[r].ask
Goes(r, step) == request' = [request EXCEPT ![r].at = step]
Answer(r, answer) == request' = [request EXCEPT ![r].at = "done", ![r].answer = answer]
HasScope(r, scope) == "*" \in Ask(r).by \/ scope \in Ask(r).by

Arrive(r) ==
  /\ request[r].at = "idle"
  /\ \E ask \in Asks : request' = [request EXCEPT ![r].at = "arrived", ![r].ask = ask]
  /\ UNCHANGED <<unit, late, open, audit, game, effects>>

\* the routes: require_operator, require_scope, then the allowlist of _lifecycle
Dispatch(r) ==
  /\ request[r].at = "arrived"
  /\ \/ Ask(r).by = NoIdentity /\ Answer(r, "unauthorized")
     \/ /\ Ask(r).by # NoIdentity /\ Ask(r).action \in Lifecycle
        /\ \/ ~HasScope(r, "lifecycle") /\ Answer(r, "denied")
           \/ HasScope(r, "lifecycle") /\ Ask(r).target = Unknown /\ Answer(r, "unknown")
           \/ HasScope(r, "lifecycle") /\ Ask(r).target # Unknown /\ Goes(r, "run")
     \/ /\ Ask(r).by # NoIdentity /\ Ask(r).action \in Control
        /\ Goes(r, "forward")
  /\ UNCHANGED <<unit, late, open, audit, game, effects>>

\* RealServiceController.run: the command succeeds, fails, or is given up after 30
\* seconds, when the host may carry it out all the same, now or later
Effect(r) == unit' = [unit EXCEPT ![Ask(r).target] = Ask(r).action # "stop"]

Run(r) ==
  /\ request[r].at = "run"
  /\ \/ /\ Effect(r) /\ effects' = effects \cup {r}
        /\ request' = [request EXCEPT ![r].at = "insert", ![r].answer = "succeeded"]
        /\ UNCHANGED late
     \/ /\ late' \in {late, late \cup {r}}
        /\ request' = [request EXCEPT ![r].at = "insert", ![r].answer = "failed"]
        /\ UNCHANGED <<unit, effects>>
  /\ UNCHANGED <<open, audit, game>>

LateEffect(r) ==
  /\ r \in late
  /\ late' = late \ {r}
  /\ Effect(r) /\ effects' = effects \cup {r}
  /\ UNCHANGED <<request, open, audit, game>>

\* record(): the INSERT opens the connection's transaction or joins the one another
\* thread has open, and either thread's commit commits both.  Either may raise.
Insert(r) ==
  /\ request[r].at = "insert"
  /\ \/ open' = Append(open, Row(r)) /\ Goes(r, "commit")
     \/ UNCHANGED open /\ Answer(r, "error")
  /\ UNCHANGED <<unit, late, audit, game, effects>>

\* mutant: a commit that fails rolls back what other threads have inserted
Commit_RollsBack(r) ==
  /\ request[r].at = "commit"
  /\ \/ /\ audit' = audit \o open /\ open' = <<>>
        /\ Answer(r, request[r].answer)
     \/ UNCHANGED audit /\ open' = <<>> /\ Answer(r, "error")
  /\ UNCHANGED <<unit, late, game, effects>>

Commit(r) ==
  /\ request[r].at = "commit"
  /\ \/ /\ audit' = audit \o open /\ open' = <<>>
        /\ Answer(r, request[r].answer)
     \/ UNCHANGED <<audit, open>> /\ Answer(r, "error")
  /\ UNCHANGED <<unit, late, game, effects>>

\* POST /control with a control action: the game server checks the scope, applies it
\* and answers; a refusal is an HTTP error, and every error reads "executor_unavailable".
GameState(r) ==
  CASE Ask(r).action = "drain"        -> [game EXCEPT !.draining = TRUE]
    [] Ask(r).action = "set_degraded" -> [game EXCEPT !.degraded = TRUE]

Forward(r) ==
  /\ request[r].at = "forward"
  /\ \/ /\ HasScope(r, "control")
        /\ game' = GameState(r)
        /\ effects' = effects \cup {r}
        /\ Answer(r, "accepted") \/ Answer(r, "rejected")
     \/ UNCHANGED <<game, effects>> /\ Answer(r, "rejected")
  /\ UNCHANGED <<unit, late, open, audit>>

\* The control plane dies: its threads and its open transaction are gone.
Crash ==
  /\ \E r \in Requests : request[r].at \notin {"idle", "done"}
  /\ request' = [r \in Requests |-> IF request[r].at \in {"idle", "done"} THEN request[r]
                                    ELSE [request[r] EXCEPT !.at = "done", !.answer = "error"]]
  /\ late' \in SUBSET ({r \in Requests : request[r].at = "run"} \cup late)
  /\ late \subseteq late'
  /\ open' = <<>>
  /\ UNCHANGED <<unit, audit, game, effects>>

Next ==
  \/ \E r \in Requests :
       \/ Arrive(r) \/ Dispatch(r) \/ Run(r) \/ LateEffect(r) \/ Insert(r) \/ Commit(r)
       \/ Forward(r)
  \/ Crash

Spec == Init /\ [][Next]_vars

-----------------------------------------------------------------------------
\* Whoever is told that a lifecycle action succeeded or failed finds the job in the
\* audit log, once and with that outcome, although another thread's commit may have
\* written it (jobs.py: every mutating operator action is wrapped in a Job).
RowsOf(r) == {i \in DOMAIN audit : audit[i].request = r}
AnsweredIsAudited ==
  \A r \in Requests :
    request[r].at = "done" /\ request[r].answer \in {"succeeded", "failed"} =>
      \E i \in RowsOf(r) : /\ RowsOf(r) = {i}
                           /\ audit[i] = Row(r)

\* The audit log only tells of commands that ran: a row that says "succeeded" is about
\* an action whose effect has happened, and nothing refused ever happened
\* (operations.py: "nothing runs, nothing is audited").
AuditIsTrue ==
  /\ \A i \in DOMAIN audit : audit[i].outcome = "succeeded" => audit[i].request \in effects
  /\ \A r \in Requests :
       request[r].answer \in {"unauthorized", "denied", "unknown"} =>
         r \notin effects \cup late /\ RowsOf(r) = {}

\* Every effect has a caller whose scopes allow it.
EffectsAreAllowed ==
  \A r \in effects \cup late :
    HasScope(r, IF Ask(r).action \in Lifecycle THEN "lifecycle" ELSE "control")
      /\ Ask(r).by # NoIdentity

\* Committed rows stay, in their order, whatever threads and crashes do.
OperatorAppends == IsPrefix(audit, audit')
AuditAppendOnly == [][OperatorAppends]_audit
-----------------------------------------------------------------------------
\* What is true between any two steps of any threads: what a request has come to, what
\* its rows say of it, and that it has one at most.
Recorded == {"succeeded", "failed"}
Rows == [request : Requests, action : Lifecycle, target : Services, outcome : Recorded]

Allowed(r) ==
  /\ Ask(r).by # NoIdentity
  /\ HasScope(r, IF Ask(r).action \in Lifecycle THEN "lifecycle" ELSE "control")

RequestInv(r) ==
  /\ request[r].at \in {"idle", "arrived", "run", "forward"} =>
       request[r].answer = "none" /\ r \notin effects \cup late
  /\ request[r].at \in {"run", "insert", "commit"} =>
       Allowed(r) /\ Ask(r).action \in Lifecycle /\ Ask(r).target \in Services
  /\ request[r].at = "forward" => Ask(r).by # NoIdentity /\ Ask(r).action \in Control
  /\ request[r].at \in {"insert", "commit"} => request[r].answer \in Recorded
  /\ request[r].answer = "succeeded" => r \in effects
  /\ request[r].answer \in {"unauthorized", "denied", "unknown"} =>
       request[r].at = "done" /\ r \notin effects \cup late
  /\ r \in effects \cup late => Allowed(r)

RowInv(row) ==
  LET r == row.request IN
  /\ request[r].at \in {"commit", "done"} /\ request[r].answer \in Recorded \cup {"error"}
  /\ request[r].answer \in Recorded => row = Row(r)
  /\ row.outcome = "succeeded" => r \in effects

OperatorInv ==
  /\ request \in [Requests -> [at : Steps, ask : Asks \cup {NoAsk}, answer : Answers]]
  /\ late \subseteq Requests /\ effects \subseteq Requests
  /\ open \in Seq(Rows) /\ audit \in Seq(Rows)
  /\ \A r \in Requests : RequestInv(r)
  /\ \A i \in 1..Len(open) : RowInv(open[i])
  /\ \A i \in 1..Len(audit) : RowInv(audit[i])
  /\ \A i, j \in 1..Len(open) : open[i].request = open[j].request => i = j
  /\ \A i, j \in 1..Len(audit) : audit[i].request = audit[j].request => i = j
  /\ \A i \in 1..Len(open), j \in 1..Len(audit) : open[i].request # audit[j].request
  /\ \A r \in Requests : request[r].at = "commit" =>
       \/ \E i \in 1..Len(open) : open[i].request = r
       \/ \E i \in 1..Len(audit) : audit[i].request = r
  /\ \A r \in Requests : request[r].at = "done" /\ request[r].answer \in Recorded =>
       \E i \in 1..Len(audit) : audit[i].request = r
=============================================================================
