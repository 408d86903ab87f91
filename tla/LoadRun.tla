-------------------------------- MODULE LoadRun --------------------------------
(***************************************************************************)
(* scripts/run_m4_baseline.py and scripts/m4_baseline_report.py: one load  *)
(* run of a game server in a container of its own with its load peers,     *)
(* what the run takes as evidence, what it clears away, and what it        *)
(* reports.  The measured samples are one boolean of the observation.      *)
(***************************************************************************)
EXTENDS Naturals

VARIABLES
  step,           \* the place in main()
  args,           \* the parsed command line, and what the source tree looked like
  report,         \* errors were recorded, it was passed, it was written; the last competition
  known,          \* main()'s locals: what it made, what it knows
  server,         \* external: the container and the docker client that runs it
  observation,    \* external: server-observation.json
  peers,          \* external: the load peers, as a group
  probe,          \* external: the engine probe's container exists
  artifact,       \* external: the extracted source is the one that was fingerprinted
  others,         \* external: an engine that is not this run's is running now
  late,           \* the deadline of the current wait has passed
  alone           \* history: no look at the other engines has found one

vars == <<step, args, report, known, server, observation, peers, probe, artifact, others, late,
          alone>>
world == <<server, observation, peers, probe, artifact, others, late>>

NoObservation == [status |-> "none", sound |-> FALSE]
NoArgs == [ticks |-> 60, supported |-> FALSE, audit |-> FALSE, dirty |-> FALSE]
Unknown == [private |-> FALSE, fingerprints |-> FALSE, client |-> FALSE, read |-> NoObservation,
            judged |-> FALSE, interrupted |-> FALSE, groups |-> FALSE, absent |-> FALSE]

Running == {"qualify", "prepare", "engine", "launch", "setup", "spawn", "watch", "ended"}
Clearing == {"containers", "groups", "logs", "inventory", "private", "judge"}

TypeOK ==
  /\ step \in {"parse", "exited", "ended_early"} \cup Running \cup Clearing
  /\ args \in [ticks : {60, 1000}, supported : BOOLEAN, audit : BOOLEAN, dirty : BOOLEAN]
  /\ report \in [errors : BOOLEAN, passed : BOOLEAN, written : BOOLEAN]
  /\ server \in [container : {"absent", "running", "gone"}, client : {"none", "running", "ok", "failed"},
                 script : BOOLEAN]
  /\ observation \in [status : {"none", "setup_ready", "complete"}, sound : BOOLEAN]
  /\ peers \in {"none", "running", "ok", "failed", "stopped"}

Init ==
  /\ step = "parse" /\ args = NoArgs /\ known = Unknown /\ observation = NoObservation
  /\ report = [errors |-> FALSE, passed |-> FALSE, written |-> FALSE]
  /\ server = [container |-> "absent", client |-> "none", script |-> FALSE]
  /\ peers = "none" /\ probe = FALSE /\ artifact = TRUE /\ others \in BOOLEAN
  /\ late = FALSE /\ alone = TRUE

-----------------------------------------------------------------------------
\* main(): the steps of the try block

\* parse_arguments() and the head of the report; supported load is a run of 1000 ticks
Parse ==
  /\ step = "parse" /\ step' = "qualify"
  /\ args' \in {a \in [ticks : {60, 1000}, supported : BOOLEAN, audit : BOOLEAN, dirty : BOOLEAN] :
                 a.supported => a.ticks = 1000}
  /\ UNCHANGED <<report, known, world, alone>>

\* an error of the kinds the handler names is recorded; any other leaves no record
Raises(recorded) ==
  /\ step' = "containers"
  /\ report' = [report EXCEPT !.errors = @ \/ recorded]

Failed == Raises(TRUE)

\* what no handler catches: an interrupt, a number that does not parse
Interrupt ==
  /\ step \in Running
  /\ Raises(FALSE) /\ known' = [known EXCEPT !.interrupted = TRUE]
  /\ UNCHANGED <<args, world, alone>>

\* the process is killed, or the finally block raises what nothing catches: no report
EndEarly ==
  /\ step \in Running \cup Clearing /\ step' = "ended_early"
  /\ UNCHANGED <<args, report, known, world, alone>>

\* the baseline services run, no other engine does, the probe's code and the tree qualify
Qualify ==
  /\ step = "qualify"
  /\ \/ Failed /\ UNCHANGED alone                        \* a service or the engine is missing
     \/ /\ alone' = ~others
        /\ IF args.audit /\ ~others /\ ~args.dirty
             THEN step' = "prepare" /\ UNCHANGED report
             ELSE Failed
  /\ UNCHANGED <<args, known, world>>

\* a private tree, the committed archive extracted and imported in it, and fingerprinted
Prepare ==
  /\ step = "prepare"
  /\ \/ /\ known' = [known EXCEPT !.private = TRUE, !.fingerprints = TRUE]
        /\ step' = "engine" /\ UNCHANGED report
     \/ \E made \in BOOLEAN : known' = [known EXCEPT !.private = made] /\ Failed
  /\ UNCHANGED <<args, world, alone>>

\* the image's engine must be the peers'; a probe that was cut off may stay
ProbeEngine ==
  /\ step = "engine"
  /\ \/ step' = "launch" /\ UNCHANGED <<report, probe>>
     \/ probe' \in BOOLEAN /\ Failed
  /\ UNCHANGED <<args, known, server, observation, peers, artifact, others, late, alone>>

\* docker run as a child: the container appears when the client gets to it
Launch ==
  /\ step = "launch"
  /\ \/ Failed /\ UNCHANGED <<known, server, late>>
     \/ /\ step' = "setup" /\ known' = [known EXCEPT !.client = TRUE] /\ late' = FALSE
        /\ server' = [server EXCEPT !.client = "running"] /\ UNCHANGED report
  /\ UNCHANGED <<args, observation, peers, probe, artifact, others, alone>>

ClientGone == server.client \in {"ok", "failed"}

\* one turn of the 30 s wait for setup_ready
AwaitSetup ==
  /\ step = "setup" /\ known' = [known EXCEPT !.read = observation]
  /\ \/ late /\ Failed
     \/ /\ ~late
        /\ IF observation.status = "setup_ready"
             THEN step' = "spawn" /\ UNCHANGED report
             ELSE ClientGone /\ Failed
  /\ UNCHANGED <<args, world, alone>>

\* the container's process must be there; then the peers, one after the other
SpawnPeers ==
  /\ step = "spawn"
  /\ \/ /\ server.container = "running" /\ step' = "watch" /\ UNCHANGED report
        /\ peers' = "running" /\ late' = FALSE
     \/ /\ Failed /\ UNCHANGED late
        /\ \/ UNCHANGED peers                             \* no container, or the first failed
           \/ server.container = "running" /\ peers' = "running"
  /\ UNCHANGED <<args, known, server, observation, probe, artifact, others, alone>>

\* one turn of the watch: the client's exit or the deadline ends it; the cgroup is gone with
\* the container, which is only right once the observation is complete; then the peers, then
\* the other engines
Watch ==
  /\ step = "watch"
  /\ \/ ClientGone /\ step' = "ended" /\ UNCHANGED <<report, alone>>
     \/ late /\ ~ClientGone /\ Failed /\ UNCHANGED alone
     \/ /\ ~late /\ ~ClientGone /\ server.container = "gone"
        /\ Failed /\ UNCHANGED alone                     \* not complete, or no exit in 5 s
     \/ /\ ~late /\ ~ClientGone /\ server.container = "running"
        /\ IF peers # "running" THEN Failed /\ UNCHANGED alone
           ELSE others /\ Failed /\ alone' = FALSE
  /\ UNCHANGED <<args, known, world>>

\* the peers are told to stop and awaited; exits that are not zero, or late, are errors
Ended ==
  /\ step = "ended"
  /\ \/ Failed /\ UNCHANGED <<known, peers>>              \* a peer that does not stop in time
     \/ \E last \in (IF peers = "running" THEN {"ok", "failed"} ELSE {peers}) :
          /\ peers' = last
          /\ known' = [known EXCEPT !.read = observation, !.judged = TRUE]
          /\ IF server.client = "ok" /\ last = "ok"
               THEN step' = "containers" /\ UNCHANGED report
               ELSE Failed
  /\ UNCHANGED <<args, server, observation, probe, artifact, others, late, alone>>

-----------------------------------------------------------------------------
\* main(): the steps of the finally block

\* docker stop and rm if a client was started, and the probe's rm.  No exit status is looked
\* at: what a command left behind and what is recorded of it are independent
RemoveContainers ==
  /\ step = "containers" /\ step' = "groups"
  /\ \E recorded \in BOOLEAN : report' = [report EXCEPT !.errors = @ \/ recorded]
  /\ \/ UNCHANGED server
     \/ known.client /\ server.container = "running" /\ server' = [server EXCEPT !.container = "gone"]
  /\ probe' \in {probe, FALSE}
  /\ UNCHANGED <<args, known, observation, peers, artifact, others, late, alone>>

\* stop_owned_group() of every process spawned: TERM, then KILL; it may not empty the group
StopGroups ==
  /\ step = "groups" /\ step' = "logs"
  /\ \E emptied \in BOOLEAN :
       /\ emptied \/ known.client
       /\ known' = [known EXCEPT !.groups = emptied]
       /\ emptied =>
            /\ server' = [server EXCEPT !.client = IF @ = "running" THEN "failed" ELSE @]
            /\ peers' = IF peers = "running" THEN "stopped" ELSE peers
       /\ ~emptied => UNCHANGED <<server, peers>>
  /\ UNCHANGED <<args, report, observation, probe, artifact, others, late, alone>>

\* the observation is read again; a script error in a log is an error of the run
ReadLogs ==
  /\ step = "logs" /\ step' = "inventory"
  /\ known' = [known EXCEPT !.read = IF observation = NoObservation THEN @ ELSE observation]
  /\ report' = [report EXCEPT !.errors = @ \/ server.script]
  /\ UNCHANGED <<args, world, alone>>

\* mutant: docker ls that failed reads as no container
Inventory_OfSilence ==
  /\ step = "inventory" /\ step' = "private"
  /\ \E answered \in BOOLEAN :
       known' = [known EXCEPT !.absent = ~answered \/ (server.container # "running" /\ ~probe)]
  /\ report' = [report EXCEPT !.errors = @ \/ (known.fingerprints /\ ~artifact)]
  /\ UNCHANGED <<args, world, alone>>

\* docker ls of the two names (a failure is not absence), then the fingerprints
Inventory ==
  /\ step = "inventory" /\ step' = "private"
  /\ \E answered \in BOOLEAN :
       known' = [known EXCEPT !.absent = answered /\ server.container # "running" /\ ~probe]
  /\ report' = [report EXCEPT !.errors = @ \/ (known.fingerprints /\ ~artifact)]
  /\ UNCHANGED <<args, world, alone>>

\* the private tree goes only once nothing can be using it
RemovePrivate ==
  /\ step = "private" /\ step' = "judge"
  /\ IF known.private /\ known.groups /\ known.absent
       THEN \/ known' = [known EXCEPT !.private = FALSE] /\ UNCHANGED report
            \/ report' = [report EXCEPT !.errors = TRUE] /\ UNCHANGED known
       ELSE report' = [report EXCEPT !.errors = @ \/ known.private] /\ UNCHANGED known
  /\ UNCHANGED <<args, world, alone>>

Cleaned == known.absent /\ known.groups /\ ~known.private

\* m4_baseline_report.evaluate(): every check of the observation holds, and the cleanup's
Evaluate(seen, errors) ==
  seen.status = "complete" /\ seen.sound /\ args.audit /\ ~errors /\ Cleaned /\ ~args.supported

Judge ==
  /\ step = "judge" /\ step' = "exited"
  /\ report' = [report EXCEPT !.written = TRUE,
                  !.passed = Evaluate(known.read, report.errors) /\ ~report.errors
                             /\ args.ticks = 1000]
  /\ UNCHANGED <<args, known, world, alone>>

-----------------------------------------------------------------------------
\* The world around it

\* the client starts the container; a client that was stopped starts nothing
ContainerStarts ==
  /\ server.client = "running" /\ server.container = "absent"
  /\ server' = [server EXCEPT !.container = "running"]
  /\ UNCHANGED <<step, args, report, known, observation, peers, probe, artifact, others, late,
                 alone>>

\* the server writes its observation: set up, later complete with samples that qualify or not
Observe ==
  /\ server.container = "running"
  /\ \/ /\ observation.status = "none"
        /\ observation' = [status |-> "setup_ready", sound |-> FALSE]
     \/ /\ observation.status = "setup_ready" /\ peers # "none"
        /\ \E sound \in BOOLEAN : observation' = [status |-> "complete", sound |-> sound]
  /\ UNCHANGED <<step, args, report, known, server, peers, probe, artifact, others, late, alone>>

\* a script error is printed to a log: a peer's, or the output of the docker client
ScriptError ==
  /\ ~server.script
  /\ peers = "running" \/ (server.container = "running" /\ server.client = "running")
  /\ server' = [server EXCEPT !.script = TRUE]
  /\ UNCHANGED <<step, args, report, known, observation, peers, probe, artifact, others, late,
                 alone>>

\* the server exits, and with --rm its container goes; its client follows, or failed by itself
ContainerExits ==
  /\ server.container = "running" /\ server' = [server EXCEPT !.container = "gone"]
  /\ UNCHANGED <<step, args, report, known, observation, peers, probe, artifact, others, late,
                 alone>>

ClientExits ==
  /\ server.client = "running" /\ server.container # "running"
  /\ server' \in {[server EXCEPT !.client = c] : c \in {"ok", "failed"}}
  /\ UNCHANGED <<step, args, report, known, observation, peers, probe, artifact, others, late,
                 alone>>

PeersExit ==
  /\ peers = "running" /\ peers' \in {"ok", "failed"}
  /\ UNCHANGED <<step, args, report, known, server, observation, probe, artifact, others, late,
                 alone>>

\* a peer's engine writes into the source tree it was started on
ArtifactChanges ==
  /\ peers = "running" /\ artifact /\ artifact' = FALSE
  /\ UNCHANGED <<step, args, report, known, server, observation, peers, probe, others, late,
                 alone>>

OthersChange ==
  /\ step \in Running /\ others' = ~others
  /\ UNCHANGED <<step, args, report, known, server, observation, peers, probe, artifact, late,
                 alone>>

Expire ==
  /\ step \in {"setup", "watch"} /\ ~late /\ late' = TRUE
  /\ UNCHANGED <<step, args, report, known, server, observation, peers, probe, artifact, others,
                 alone>>

Steps ==
  \/ Parse \/ Qualify \/ Prepare \/ ProbeEngine \/ Launch \/ AwaitSetup \/ SpawnPeers \/ Watch
  \/ Ended \/ RemoveContainers \/ StopGroups \/ ReadLogs \/ Inventory \/ RemovePrivate \/ Judge
Environment ==
  \/ Interrupt \/ EndEarly \/ ContainerStarts \/ Observe \/ ScriptError \/ ContainerExits
  \/ ClientExits \/ PeersExit \/ ArtifactChanges \/ OthersChange \/ Expire
Next == Steps \/ Environment
Spec == Init /\ [][Next]_vars

-----------------------------------------------------------------------------
\* A report that passes vouches for a clean, lonely, complete run: the container and its client
\* and the peers are gone, the probe too, the private tree is removed, the artifact is the one
\* fingerprinted, no look found another engine, and, unless the run was interrupted, the peers
\* and the server ended by themselves with success (run_m4_baseline.py:346-408).
PassIsEarned ==
  report.passed =>
    /\ observation.status = "complete" /\ observation.sound /\ args.ticks = 1000 /\ alone
    /\ server.container # "running" /\ ~probe /\ ~known.private /\ artifact /\ ~server.script
    /\ server.client # "running" /\ peers # "running"
    /\ known.interrupted \/ (known.judged /\ peers = "ok" /\ server.client = "ok")

\* The private tree is never removed under a container or a process that may still use it
\* (run_m4_baseline.py:387-392).
PrivateIsUnused ==
  known.private /\ ~known'.private =>
    server.container # "running" /\ server.client # "running" /\ peers # "running"
PrivateOutlivesItsUsers == [][PrivateIsUnused]_vars

-----------------------------------------------------------------------------
\* What is true between any two steps: what the run made by when, what its record of the peers,
\* the container and the observation still says of them, and which trouble is an error by then.
Cleared == {"groups", "logs", "inventory", "private", "judge", "exited"}

WorldInv ==
  /\ observation.status = "complete" => peers # "none"
  /\ server.container = "absent" => observation = NoObservation /\ peers = "none"
  /\ server.client = "none" => server.container = "absent"
  /\ peers # "none" => known.fingerprints
  /\ ~artifact => known.fingerprints
  /\ known.read.status = "complete" => known.read = observation
  /\ step \in {"engine", "launch", "setup", "spawn", "watch", "ended"} => known.fingerprints
  /\ step \in {"parse", "qualify", "prepare"} => ~known.private

ClearedInv ==
  /\ known.groups => /\ server.client # "running" /\ peers # "running"
                     /\ step \in (Cleared \ {"groups"}) \cup {"ended_early"}
  /\ known.absent /\ known.groups => server.container # "running" /\ ~probe
  /\ known.absent => ~probe /\ step \in {"private", "judge", "exited", "ended_early"}
  /\ step \in Cleared \ {"groups", "logs"} /\ ~report.errors /\ known.groups => ~server.script
  /\ step \in {"private", "judge", "exited"} /\ ~report.errors /\ known.groups => artifact

VerdictInv ==
  /\ ~alone => report.errors
  /\ step \in Clearing \cup {"exited"} /\ ~report.errors /\ ~known.interrupted =>
       known.judged /\ peers = "ok" /\ server.client = "ok"
  /\ report.passed =>
       /\ step = "exited" /\ ~report.errors /\ args.ticks = 1000
       /\ known.read.status = "complete" /\ known.read.sound /\ Cleaned

Knowledge == [private : BOOLEAN, fingerprints : BOOLEAN, client : BOOLEAN,
              read : [status : {"none", "setup_ready", "complete"}, sound : BOOLEAN],
              judged : BOOLEAN, interrupted : BOOLEAN, groups : BOOLEAN, absent : BOOLEAN]

LoadInv ==
  /\ TypeOK /\ known \in Knowledge
  /\ probe \in BOOLEAN /\ artifact \in BOOLEAN /\ others \in BOOLEAN /\ late \in BOOLEAN
  /\ alone \in BOOLEAN
  /\ WorldInv /\ ClearedInv /\ VerdictInv
=============================================================================
