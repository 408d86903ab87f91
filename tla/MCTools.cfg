\* Two requests of one service, two threads at a limiter of two attempts, one acknowledged
\* input, one job that only Linux runs.
SPECIFICATION ToolsSpec
CONSTANTS
  Requests = {r1, r2}
  Services = {s1}
  Threads = {t1, t2}
  MaxAttempts = 2
  Window = 1
  Lockout = 2
  Slack = 1
  MaxTime = 3
  MaxAck = 1
  LinuxJobs = {"godot"}
INVARIANTS AuditIsComplete AttemptsAreBounded PassesAreEarned FailuresAreSaid
PROPERTIES OthersStay RunsAreReported
CHECK_DEADLOCK FALSE
