-------------------------------- MODULE MCTools --------------------------------
(* The services and tools around the game for TLC: the operator and enrollment services,  *)
(* the paired server, the load run, the macOS client tools, the routing of validation and *)
(* the preparation of a Godot project.  They share no state, so that a behaviour is one of *)
(* a program of the seven, which says what the shared variables stand for; a variable that *)
(* a program lacks keeps its value.                                                        *)
EXTENDS Programs, Naturals, FiniteSets

CONSTANTS
  Requests, Services, Threads, MaxAttempts, Window, Lockout, Slack, MaxTime, MaxAck, LinuxJobs

ASSUME ToolsAssumption == MaxAck \in Nat
ASSUME LimiterAssumption ==
  /\ {MaxAttempts, Window, Lockout} \subseteq Nat \ {0} /\ {Slack, MaxTime} \subseteq Nat
  /\ Threads # {} /\ IsFiniteSet(Threads)

Operators == INSTANCE Operator WITH
  request <- v1, unit <- v2, late <- v3, open <- v4, audit <- v5, game <- v6, effects <- v7
Enrollments == INSTANCE Enrollment WITH
  kind <- v1, clock <- v2, events <- v3, holder <- v4, lock <- v5, thread <- v6, known <- v7,
  raced <- v8, counted <- v9
Paired == INSTANCE PairedServer WITH
  run <- v1, sup <- v2, control <- v3, cli <- v4, docker <- v5, private <- v6, game <- v7,
  late <- v8, metAfter <- v9
Load == INSTANCE LoadRun WITH
  step <- v1, args <- v2, report <- v3, known <- v4, server <- v5, observation <- v6,
  peers <- v7, probe <- v8, artifact <- v9, others <- v10, late <- v11, alone <- v12
Mac == INSTANCE MacClient WITH
  tool <- v1, step <- v2, failing <- v3, report <- v4, output <- v5, temp <- v6,
  override <- v7, changed <- v8, tainted <- v9
Route == INSTANCE ValidationRoute WITH
  tree <- v1, plan <- v2, job <- v3, result <- v4, report <- v5
Prepare == INSTANCE PrepareProject WITH
  step <- v1, phase <- v2, source <- v3, copy <- v4, known <- v5, report <- v6, saved <- v7,
  trial <- v8

ToolsInit ==
  \/ program = "operator" /\ Operators!Init /\ Idle7
  \/ program = "enrollment" /\ Enrollments!Init /\ Idle9
  \/ program = "paired" /\ Paired!Init /\ Idle9
  \/ program = "load" /\ Load!Init
  \/ program = "mac" /\ Mac!Init /\ Idle9
  \/ program = "route" /\ Route!Init /\ Idle5
  \/ program = "prepare" /\ Prepare!Init /\ Idle8

ToolsNext ==
  \/ program = "operator" /\ Operators!Next /\ UNCHANGED after7
  \/ program = "enrollment" /\ Enrollments!Next /\ UNCHANGED after9
  \/ program = "paired" /\ Paired!Next /\ UNCHANGED after9
  \/ program = "load" /\ Load!Next /\ UNCHANGED program
  \/ program = "mac" /\ Mac!Next /\ UNCHANGED after9
  \/ program = "route" /\ Route!Next /\ UNCHANGED after5
  \/ program = "prepare" /\ Prepare!Next /\ UNCHANGED after8

\* the fairness of PairedServer; the others have none
ToolsFairness ==
  /\ WF_all(program = "paired" /\ Paired!Supervise /\ UNCHANGED after9)
  /\ WF_all(program = "paired" /\ Paired!ContainerEnds /\ UNCHANGED after9)

ToolsSpec == ToolsInit /\ [][ToolsNext]_all /\ ToolsFairness

-----------------------------------------------------------------------------
\* The service told the truth to whoever asked, and to the audit log (Operator).
AuditIsComplete ==
  program = "operator" =>
    Operators!AnsweredIsAudited /\ Operators!AuditIsTrue /\ Operators!EffectsAreAllowed

\* Guesses at a password are bounded, threads included (Enrollment).
AttemptsAreBounded == program = "enrollment" => Enrollments!AttemptsAreBounded

\* A success on record has been earned: the paired server's, the load run's, the macOS
\* tools' and the prepared project's (PassIsEarned of each module); and what an accepted
\* pull request changed has been validated, by a run for that very tree or one that owned
\* all its changes (ValidationRoute).
PassesAreEarned ==
  /\ program = "paired" => Paired!PassIsEarned
  /\ program = "load" => Load!PassIsEarned
  /\ program = "mac" => Mac!PassIsEarned
  /\ program = "prepare" => Prepare!PassIsEarned
  /\ program = "route" => Route!AcceptedIsValidated /\ Route!AcceptedIsOwned

\* A failure on record says what it leaves behind: an output that could not be removed, a
\* project file that somebody else has changed (MacClient, PrepareProject).
FailuresAreSaid ==
  /\ program = "mac" => Mac!FailureLeavesNothing
  /\ program = "prepare" => Prepare!LostIsSaid

\* No clean-up takes what it does not own, or what is still in use: networks, outputs and
\* private trees stay, and so do rows of the audit log.
OthersStay ==
  [][/\ program = "paired" => Paired!NetworkStays
     /\ program = "mac" => Mac!OutputStays
     /\ program = "load" => Load!PrivateIsUnused
     /\ program = "operator" => Operators!OperatorAppends]_all

\* An accepted run is reported on in the end, unless its supervisor is killed (PairedServer).
RunsAreReported ==
  (program = "paired" /\ Paired!Accepted) ~> (program # "paired" \/ Paired!Settled)
=============================================================================
