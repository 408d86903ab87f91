----------------------------- MODULE PairedServer -----------------------------
(***************************************************************************)
(* scripts/paired_server.py: a supervisor that runs a game server in a     *)
(* container of its own for one validation run, the commands that steer it *)
(* (start, finish, abort), each a process of its own that talks to the     *)
(* supervisor through files, and what it leaves behind.                    *)
(*                                                                         *)
(* Time is kept by latches: a deadline has passed or not.  Files written   *)
(* by the game are the last thing it observed.                             *)
(***************************************************************************)
EXTENDS Naturals

CONSTANTS
  MaxAck          \* bound: input sequences the game acknowledges

VARIABLES
  run,            \* report.json: its status, identity, and whether it is finished
  sup,            \* the supervisor: its place in supervise(), its report and its locals
  control,        \* control.json
  cli,            \* a finish or abort command between its read and its write
  docker,         \* external: the container and the network under this run's names
  private,        \* the private state tree exists
  game,           \* external: health.json, admission.json, and what is true of the client
  late,           \* which deadlines have passed: the run's, two seconds since the finish
  metAfter        \* history: the client was seen admitted after the finish was received

vars == <<run, sup, control, cli, docker, private, game, late, metAfter>>

Scenarios == {"input", "pair"}        \* authenticated-input-ack-v1, and the other three
Builds == {"early", "full"}           \* server_build before and after it was verified
Seqs == 0..MaxAck                     \* a sequence plus one: 0 is none

NoControl == [action |-> "none", build |-> "early", good |-> FALSE, seq |-> 0]
NoRun == [status |-> "none", build |-> "early", scenario |-> "input", done |-> FALSE]
Asleep == [at |-> "none", status |-> "none", build |-> "early", ownsNetwork |-> FALSE,
           ownsContainer |-> FALSE, seen |-> FALSE, read |-> NoControl, received |-> FALSE,
           base |-> 0, met |-> FALSE, dirty |-> FALSE]
NoGame == [health |-> "none", moved |-> FALSE, in |-> FALSE, ack |-> 0,
           file |-> [there |-> FALSE, in |-> FALSE, ack |-> 0, fresh |-> FALSE]]

TypeOK ==
  /\ run.status \in {"none", "accepted", "starting", "ready", "server_passed", "failed"}
  /\ sup.at \in {"none", "verify", "reserve", "network", "container", "look", "health",
                 "judge", "stop", "container_rm", "network_rm", "state_rm", "write", "ended", "killed"}
  /\ control.action \in {"none", "abort", "reject", "finish"} /\ control.seq \in Seqs
  /\ docker \in [container : {"absent", "running", "exited"}, network : {"absent", "ours", "foreign"}]
  /\ {game.ack, game.file.ack, sup.base} \subseteq Seqs

Init ==
  /\ run = NoRun /\ sup = Asleep /\ control = NoControl /\ cli = NoControl
  /\ docker = [container |-> "absent", network |-> "absent"]
  /\ private = FALSE /\ game = NoGame /\ metAfter = FALSE
  /\ late = [run |-> FALSE, finish |-> FALSE]

-----------------------------------------------------------------------------
\* The commands

\* start(): the run directory, the accepted report, the detached supervisor
Start ==
  /\ run.status = "none"
  /\ \E scenario \in Scenarios :
       run' = [status |-> "accepted", build |-> "early", scenario |-> scenario, done |-> FALSE]
  /\ sup' = [Asleep EXCEPT !.at = "verify", !.status = "accepted"]
  /\ UNCHANGED <<control, cli, docker, private, game, late, metAfter>>

\* check_client() and its relatives: the identity is the report's, the claims are good
Accepts(report, evidence) == evidence.good /\ evidence.build = report.build

\* finish, abort: the report is read and, unless it is finished, a control is made; evidence
\* that does not fit the report makes it a rejection
ReadReport ==
  /\ cli.action = "none" /\ run.status # "none" /\ ~run.done
  /\ \/ cli' = [NoControl EXCEPT !.action = "abort"]
     \/ \E evidence \in [action : {"finish"}, build : Builds, good : BOOLEAN, seq : Seqs \ {0}] :
          cli' = IF Accepts(run, evidence) THEN evidence ELSE [NoControl EXCEPT !.action = "reject"]
  /\ UNCHANGED <<run, sup, control, docker, private, game, late, metAfter>>

WriteControl ==
  /\ cli.action # "none"
  /\ control' = cli /\ cli' = NoControl
  /\ UNCHANGED <<run, sup, docker, private, game, late, metAfter>>

-----------------------------------------------------------------------------
\* supervise(): the set-up

Goes(step) == sup' = [sup EXCEPT !.at = step]
\* the loop is left; what it kept in locals is forgotten
Leaves(s, status) ==
  [Asleep EXCEPT !.at = "stop", !.status = status, !.build = s.build,
                 !.ownsNetwork = s.ownsNetwork, !.ownsContainer = s.ownsContainer]
Fails == sup' = Leaves(sup, "failed")
Passes == sup' = Leaves(sup, "server_passed")

\* the artifact, the runtime and the image are what the request names
Verify ==
  /\ sup.at = "verify"
  /\ Fails \/ sup' = [sup EXCEPT !.at = "reserve", !.build = "full"]
  /\ UNCHANGED <<run, control, cli, docker, private, game, late, metAfter>>

\* the port is reserved, the private tree made, and the network must not exist
Reserve ==
  /\ sup.at = "reserve"
  /\ \/ Fails /\ private' \in BOOLEAN
     \/ /\ docker.network = "absent" /\ private' = TRUE
        /\ sup' = [sup EXCEPT !.at = "network", !.ownsNetwork = TRUE]
  /\ UNCHANGED <<run, control, cli, docker, game, late, metAfter>>

CreateNetwork ==
  /\ sup.at = "network"
  /\ \/ docker.network = "absent" /\ docker' = [docker EXCEPT !.network = "ours"] /\ Goes("container")
     \/ Fails /\ UNCHANGED docker
  /\ UNCHANGED <<run, control, cli, private, game, late, metAfter>>

\* docker run: a command that failed, or was cut off, may have made the container
RunContainer ==
  LET owner == [sup EXCEPT !.ownsContainer = TRUE] IN
  /\ sup.at = "container"
  /\ \/ /\ docker' = [docker EXCEPT !.container = "running"]
        /\ sup' = [owner EXCEPT !.at = "look", !.status = "starting"]
        /\ run' = [run EXCEPT !.status = "starting", !.build = sup.build]
     \/ /\ \E left \in {"absent", "running", "exited"} : docker' = [docker EXCEPT !.container = left]
        /\ sup' = Leaves(owner, "failed")
        /\ UNCHANGED run
  /\ UNCHANGED <<control, cli, private, game, late, metAfter>>

-----------------------------------------------------------------------------
\* supervise(): one turn of the loop is Look, Health, Judge

\* mutant: a container that is gone is not noticed
Look_ControlOnly ==
  /\ sup.at = "look"
  /\ \/ Fails
     \/ (late.run \/ control.action \in {"abort", "reject"}) /\ Fails
     \/ /\ ~late.run /\ control.action \notin {"abort", "reject"}
        /\ sup' = [sup EXCEPT !.at = "health", !.read = control]
  /\ UNCHANGED <<run, control, cli, docker, private, game, late, metAfter>>

\* a signal, the deadline, an abort or a rejection, or a container that is gone, ends it
Look ==
  /\ sup.at = "look"
  /\ \/ Fails                                             \* a signal, or docker itself failed
     \/ /\ late.run \/ control.action \in {"abort", "reject"} \/ docker.container # "running"
        /\ Fails
     \/ /\ ~late.run /\ control.action \notin {"abort", "reject"} /\ docker.container = "running"
        /\ sup' = [sup EXCEPT !.at = "health", !.read = control]
  /\ UNCHANGED <<run, control, cli, docker, private, game, late, metAfter>>

Healthy == game.health = "sound"
Progress == game.moved /\ sup.seen     \* healthy(health, now, previous_tick) and previous_tick >= 0

\* the health on file: progress makes the server ready, if engine, authentication and
\* storage are in order; once ready it must stay healthy and keep its client
Health ==
  LET nowReady == sup.status = "starting" /\ Healthy /\ Progress
      status   == IF nowReady THEN "ready" ELSE sup.status
      watches  == status = "ready" /\ run.scenario = "input" /\ game.file.there IN
  /\ sup.at = "health"
  /\ IF game.health = "none"
       THEN Goes("judge") /\ UNCHANGED <<run, game>>
       ELSE \/ nowReady /\ Fails /\ UNCHANGED <<run, game>>
            \/ /\ run' = IF nowReady THEN [run EXCEPT !.status = "ready", !.build = sup.build] ELSE run
               /\ game' = [game EXCEPT !.moved = FALSE]
               /\ IF \/ status = "ready" /\ ~Healthy
                     \/ watches /\ sup.met /\ ~game.file.in
                    THEN Fails
                    ELSE sup' = [sup EXCEPT !.at = "judge", !.status = status, !.seen = TRUE,
                                            !.met = @ \/ (watches /\ game.file.in)]
  /\ UNCHANGED <<control, cli, docker, private, late, metAfter>>

\* nothing to judge yet: a server that is not ready may have run out of its time for that
NextTurn(s) == sup' = [s EXCEPT !.at = "look", !.read = NoControl]
Waits == NextTurn(sup) \/ (sup.status = "starting" /\ Fails)

\* the evidence of two clients, or of a forced timeout, against what the game has recorded
JudgePair ==
  /\ run.scenario = "pair"
  /\ Fails \/ (Accepts(sup, sup.read) /\ Passes)
  /\ UNCHANGED <<game, metAfter>>

\* the input scenario: the game must observe the client, admitted and with an input it had
\* not acknowledged at the time, after the finish was received, within two seconds
JudgeInput ==
  LET file  == game.file
      base  == IF sup.received THEN sup.base ELSE file.ack
      fresh == sup.received /\ file.fresh
      enough == file.ack >= base + 1 /\ file.ack >= sup.read.seq
      told == [sup EXCEPT !.received = TRUE, !.base = base] IN
  /\ run.scenario = "input"
  /\ IF ~Accepts(sup, sup.read) \/ ~file.there \/ sup.status # "ready" \/ ~Healthy
       THEN Fails /\ UNCHANGED game
       ELSE /\ game' = IF sup.received THEN game ELSE [game EXCEPT !.file.fresh = FALSE]
            /\ \/ fresh /\ Fails                                  \* the journey is not stored
               \/ fresh /\ ~file.in /\ Fails
               \/ fresh /\ file.in /\ enough /\ Passes
               \/ ~(fresh /\ file.in /\ enough) /\ ~(fresh /\ ~file.in)
                  /\ IF sup.received /\ late.finish THEN Fails ELSE NextTurn(told)
  /\ UNCHANGED metAfter

Judge ==
  /\ sup.at = "judge"
  /\ IF sup.read.action = "finish" THEN JudgePair \/ JudgeInput
                                   ELSE Waits /\ UNCHANGED <<game, metAfter>>
  /\ UNCHANGED <<run, control, cli, docker, private, late>>

-----------------------------------------------------------------------------
\* supervise(): the clean-up, whatever happened

\* docker stop, the exit state, the logs: each may fail, and then so has the run
Stop ==
  /\ sup.at = "stop"
  /\ IF ~sup.ownsContainer THEN Goes("network_rm") /\ UNCHANGED docker
     ELSE /\ docker' \in {docker, [docker EXCEPT !.container = IF @ = "running" THEN "exited" ELSE @]}
          /\ \/ sup' = [sup EXCEPT !.at = "container_rm", !.status = "failed"]
             \/ docker'.container = "exited" /\ Goes("container_rm")
  /\ UNCHANGED <<run, control, cli, private, game, late, metAfter>>

\* remove_owned(): what is there must carry this run's label, and its absence be listed
\* mutant: whatever has the name is removed
RemoveOwned_ByName(kind) ==
  LET gone == [docker EXCEPT ![kind] = "absent"] IN
  IF docker[kind] = "absent" THEN {docker} \X BOOLEAN
                             ELSE {<<gone, TRUE>>, <<gone, FALSE>>, <<docker, FALSE>>}
RemoveOwned(kind) ==
  LET gone == [docker EXCEPT ![kind] = "absent"] IN
  CASE docker[kind] = "absent"  -> {docker} \X BOOLEAN
    [] docker[kind] = "foreign" -> {<<docker, FALSE>>}
    [] OTHER                    -> {<<gone, TRUE>>, <<gone, FALSE>>, <<docker, FALSE>>}

Cleans(at, owns, kind, next) ==
  /\ sup.at = at
  /\ IF ~owns THEN Goes(next) /\ UNCHANGED docker
     ELSE \E outcome \in RemoveOwned(kind) :
            /\ docker' = outcome[1]
            /\ sup' = [sup EXCEPT !.at = next, !.dirty = @ \/ ~outcome[2]]
  /\ UNCHANGED <<run, control, cli, private, game, late, metAfter>>

RemoveContainer == Cleans("container_rm", sup.ownsContainer, "container", "network_rm")
RemoveNetwork == Cleans("network_rm", sup.ownsNetwork, "network", "state_rm")

RemoveState ==
  /\ sup.at = "state_rm"
  /\ \/ private' = FALSE /\ Goes("write")
     \/ private /\ private' = TRUE /\ sup' = [sup EXCEPT !.at = "write", !.dirty = TRUE]
  /\ UNCHANGED <<run, control, cli, docker, game, late, metAfter>>

\* what is outstanding overrides success
\* mutant: the verdict stands whatever could not be removed
WriteReport_Verdict ==
  /\ sup.at = "write"
  /\ run' = [run EXCEPT !.status = sup.status, !.build = sup.build, !.done = TRUE]
  /\ Goes("ended")
  /\ UNCHANGED <<control, cli, docker, private, game, late, metAfter>>

WriteReport ==
  /\ sup.at = "write"
  /\ run' = [run EXCEPT !.status = IF sup.dirty THEN "failed" ELSE sup.status,
                        !.build = sup.build, !.done = TRUE]
  /\ Goes("ended")
  /\ UNCHANGED <<control, cli, docker, private, game, late, metAfter>>

Supervise ==
  \/ Verify \/ Reserve \/ CreateNetwork \/ RunContainer
  \/ Look \/ Health \/ Judge
  \/ Stop \/ RemoveContainer \/ RemoveNetwork \/ RemoveState \/ WriteReport

-----------------------------------------------------------------------------
\* What the supervisor does not control; what the game does is read by the loop only
Watched == docker.container = "running" /\ sup.at \in {"look", "health", "judge"}

Kill ==
  /\ sup.at \notin {"none", "ended", "killed"}
  /\ Goes("killed")
  /\ UNCHANGED <<run, control, cli, docker, private, game, late, metAfter>>

\* the container ends by itself: the server died, or timeout(1), its entry point, stopped it
ContainerEnds ==
  /\ docker.container = "running"
  /\ docker' = [docker EXCEPT !.container = "exited"]
  /\ UNCHANGED <<run, sup, control, cli, private, game, late, metAfter>>

\* somebody else takes the name of the network
OthersNetwork ==
  /\ docker.network = "absent" /\ run.status = "accepted"
  /\ docker' = [docker EXCEPT !.network = "foreign"]
  /\ UNCHANGED <<run, sup, control, cli, private, game, late, metAfter>>

\* the server writes its health as it ticks, or stops writing until the file is stale
Beat ==
  /\ Watched
  /\ \/ game' = [game EXCEPT !.health = "sound", !.moved = TRUE]
     \/ game.health = "sound" /\ game' = [game EXCEPT !.health = "stale", !.moved = FALSE]
  /\ UNCHANGED <<run, sup, control, cli, docker, private, late, metAfter>>

\* a client comes, has an input acknowledged, goes
ClientActs ==
  /\ Watched /\ run.scenario = "input"
  /\ game' \in {[game EXCEPT !.in = ~@, !.ack = 0]} \cup
       (IF game.in /\ game.ack < MaxAck THEN {[game EXCEPT !.ack = @ + 1]} ELSE {})
  /\ UNCHANGED <<run, sup, control, cli, docker, private, late, metAfter>>

\* the fixture's observer writes admission.json
Observe ==
  /\ Watched /\ run.scenario = "input"
  /\ game' = [game EXCEPT !.file = [there |-> TRUE, in |-> game.in, ack |-> game.ack, fresh |-> TRUE]]
  /\ metAfter' = (metAfter \/ (sup.received /\ game.in))
  /\ UNCHANGED <<run, sup, control, cli, docker, private, late>>

Deadline ==
  /\ run.status # "none"
  /\ \E which \in {"run", "finish"} :
       /\ which = "finish" => sup.received
       /\ ~late[which] /\ late' = [late EXCEPT ![which] = TRUE]
  /\ UNCHANGED <<run, sup, control, cli, docker, private, game, metAfter>>

Next ==
  \/ Start \/ ReadReport \/ WriteControl
  \/ Supervise \/ Kill
  \/ ContainerEnds \/ OthersNetwork \/ Beat \/ ClientActs \/ Observe \/ Deadline

\* The supervisor is scheduled; timeout(1) and the clock do their work.
Fairness ==
  /\ WF_vars(Supervise)
  /\ WF_vars(ContainerEnds)

Spec == Init /\ [][Next]_vars /\ Fairness

-----------------------------------------------------------------------------
\* A run reports success only when nothing of it is left - no container, no network of its
\* own, no private state - and, of a single client, only if the game has seen that client
\* in the world after the supervisor had received the finish.
PassIsEarned ==
  run.done /\ run.status = "server_passed" =>
    /\ docker.container = "absent" /\ docker.network # "ours" /\ ~private
    /\ run.scenario = "input" => metAfter

\* A network that another owner made under the name is never removed.
NetworkStays == docker.network = "foreign" => docker'.network = "foreign"
OthersNetworkStays == [][NetworkStays]_vars

\* Every run that is accepted is reported on in the end, unless the supervisor is killed;
\* and no container runs for ever, not even then.
Accepted == run.status = "accepted"
Settled == run.done \/ sup.at = "killed"
RunsAreReported == Accepted ~> Settled

-----------------------------------------------------------------------------
\* What is true between any two steps: what a verdict of the supervisor rests on, what it has
\* cleared away unless it says otherwise, and what a fresh observation proves.
Cleaning == {"stop", "container_rm", "network_rm", "state_rm", "write", "ended"}

ClearInv ==
  /\ sup.status = "server_passed" => /\ sup.ownsContainer /\ sup.ownsNetwork
                                     /\ sup.at \in Cleaning \cup {"killed"}
  /\ sup.ownsContainer => sup.ownsNetwork
  /\ sup.at \in {"look", "health", "judge"} => sup.ownsContainer
  /\ sup.at \in {"network", "container"} => sup.ownsNetwork
  /\ ~sup.dirty =>
       /\ sup.at \in {"network_rm", "state_rm", "write", "ended"} /\ sup.ownsContainer =>
            docker.container = "absent"
       /\ sup.at \in {"state_rm", "write", "ended"} /\ sup.ownsNetwork => docker.network # "ours"
       /\ sup.at \in {"write", "ended"} => ~private

Statuses == {"none", "accepted", "starting", "ready", "server_passed", "failed"}
Controls == [action : {"none", "abort", "reject", "finish"}, build : Builds, good : BOOLEAN, seq : Seqs]
Reports == [status : Statuses, build : Builds, scenario : Scenarios, done : BOOLEAN]
Supervisors == [at : {"none", "verify", "reserve", "network", "container", "look", "health", "judge",
                      "killed"} \cup Cleaning,
                status : Statuses, build : Builds, ownsNetwork : BOOLEAN, ownsContainer : BOOLEAN,
                seen : BOOLEAN, read : Controls, received : BOOLEAN, base : Seqs, met : BOOLEAN,
                dirty : BOOLEAN]
Dockers == [container : {"absent", "running", "exited"}, network : {"absent", "ours", "foreign"}]
Games == [health : {"none", "sound", "stale"}, moved : BOOLEAN, in : BOOLEAN, ack : Seqs,
          file : [there : BOOLEAN, in : BOOLEAN, ack : Seqs, fresh : BOOLEAN]]

PairedInv ==
  /\ run \in Reports /\ sup \in Supervisors /\ control \in Controls /\ cli \in Controls
  /\ docker \in Dockers /\ private \in BOOLEAN /\ game \in Games
  /\ late \in [run : BOOLEAN, finish : BOOLEAN] /\ metAfter \in BOOLEAN
  /\ ClearInv
  /\ sup.received /\ game.file.fresh /\ game.file.in => metAfter
  /\ sup.status = "server_passed" /\ run.scenario = "input" => metAfter
  /\ run.status = "server_passed" => run.done
  /\ run.done => /\ sup.at = "ended"
                 /\ run.status = "server_passed" => sup.status = "server_passed" /\ ~sup.dirty
=============================================================================
