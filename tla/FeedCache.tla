------------------------------ MODULE FeedCache ------------------------------
(***************************************************************************)
(* The GitHub feed the dashboard serves (src/dashboard/github_cache.py):   *)
(* a snapshot in memory, its copy on disk, one refresh thread at a time    *)
(* and the scheduler thread that starts it when a refresh is due.  A feed  *)
(* is its version; what a fetch collects is the subject of FeedFetch.      *)
(*                                                                         *)
(* Time is relative: ages and delays are counted in ticks up to Interval,  *)
(* which is all the comparisons of the code tell apart.                    *)
(***************************************************************************)
EXTENDS Naturals

CONSTANTS
  Interval,       \* GITHUB_ISSUE_CACHE_SECONDS, in ticks, at least one
  MaxVersions     \* bound: how many feeds GitHub hands out

VARIABLES
  up,             \* the process runs
  file,           \* the cache file: a snapshot, Absent or Unreadable
  snapshot,       \* _snapshot: the feed in memory and its age
  error,          \* _error is not empty
  refreshing,     \* _refreshing (and the complement of _done)
  due,            \* ticks until _next_due
  wake,           \* the event _wake
  scheduler,      \* where _schedule is, and the delay it sleeps for
  refresh,        \* where _refresh is, the feed it brings, its temporary file
  served          \* history: the newest version a reader has been given

cacheVars == <<up, file, snapshot, error, refreshing, due, wake, scheduler,
               refresh, served>>

Smaller(a, b) == IF a < b THEN a ELSE b
Snapshots == [version : 1..MaxVersions, age : 0..Interval]
NoSnapshot == [version |-> 0, age |-> Interval]     \* updated_at reads 0
Absent == NoSnapshot                                \* no cache file
Unreadable == [version |-> 0, age |-> 0]            \* not a snapshot of this repository
NoRefresh == [at |-> "none", feed |-> NoSnapshot, temporary |-> FALSE]

FeedCacheTypeOK ==
  /\ file \in Snapshots \cup {Absent, Unreadable}
  /\ snapshot \in Snapshots \cup {NoSnapshot}
  /\ due \in 0..Interval
  /\ scheduler \in [at : {"check", "plan", "wait", "clear"}, delay : 0..Interval]
  /\ refresh \in [at : {"none", "fetch", "write", "replace", "publish", "failed", "cleanup",
                        "finish"},
                  feed : Snapshots \cup {NoSnapshot}, temporary : BOOLEAN]
  /\ {up, error, refreshing, wake} \subseteq BOOLEAN

-----------------------------------------------------------------------------
\* __init__ and start(): the state of a process that has just loaded the file.
\* Without a snapshot that is valid and of this repository there is none, an error
\* says so and a refresh is due.
Loaded ==
  IF file \in Snapshots
    THEN [snapshot |-> file, error |-> FALSE, due |-> Interval - file.age]
    ELSE [snapshot |-> NoSnapshot, error |-> TRUE, due |-> 0]

FeedCacheInit ==
  /\ file \in {Absent, Unreadable}
  /\ up = TRUE
  /\ snapshot = Loaded.snapshot /\ error = Loaded.error /\ due = Loaded.due
  /\ refreshing = FALSE /\ refresh = NoRefresh
  /\ wake = FALSE
  /\ scheduler = [at |-> "check", delay |-> 0]
  /\ served = 0

\* read(): what a handler is told, all under the lock
Read == [version |-> snapshot.version, refreshing |-> refreshing,
         stale |-> error \/ snapshot.age = Interval]

\* request_refresh(): one refresh at a time; a scheduled one only when it is due
MayRefresh(onlyIfDue) == ~refreshing /\ (onlyIfDue => due = 0)

RequestRefresh(onlyIfDue) ==
  IF MayRefresh(onlyIfDue)
    THEN /\ refreshing' = TRUE
         /\ due' = Interval
         /\ refresh' = [NoRefresh EXCEPT !.at = "fetch"]
    ELSE UNCHANGED <<refreshing, due, refresh>>

-----------------------------------------------------------------------------
\* _refresh(), step by step; every step that does I/O may raise.
Raise == refresh' = [refresh EXCEPT !.at = "failed"]
At(step, next) == up /\ refresh.at = step /\ refresh' = [refresh EXCEPT !.at = next]
Restless == UNCHANGED <<up, snapshot, error, refreshing, due, wake, scheduler, served>>

Fetch ==
  /\ up /\ refresh.at = "fetch"
  /\ \/ /\ snapshot.version < MaxVersions
        /\ refresh' = [refresh EXCEPT !.at = "write",
                        !.feed = [version |-> snapshot.version + 1, age |-> 0]]
     \/ Raise
  /\ UNCHANGED file /\ Restless

\* mutant: the feed is published before it is on disk
WriteTemporary_Publishes ==
  /\ up /\ refresh.at = "write"
  /\ \E made \in BOOLEAN, next \in {"publish", "failed"} :
       /\ next = "publish" => made
       /\ refresh' = [refresh EXCEPT !.at = next, !.temporary = made]
  /\ UNCHANGED file /\ Restless

WriteTemporary ==
  /\ up /\ refresh.at = "write"
  /\ \E made \in BOOLEAN, next \in {"replace", "failed"} :
       /\ next = "replace" => made
       /\ refresh' = [refresh EXCEPT !.at = next, !.temporary = made]
  /\ UNCHANGED file /\ Restless

Replace ==
  /\ up /\ refresh.at = "replace"
  /\ \/ /\ refresh' = [refresh EXCEPT !.at = "publish", !.temporary = FALSE]
        /\ file' = refresh.feed
     \/ Raise /\ UNCHANGED file
  /\ Restless

Publish ==
  /\ At("publish", "cleanup")
  /\ snapshot' = refresh.feed
  /\ error' = FALSE
  /\ UNCHANGED <<up, file, refreshing, due, wake, scheduler, served>>

Fail ==
  /\ At("failed", "cleanup")
  /\ error' = TRUE
  /\ UNCHANGED <<up, file, snapshot, refreshing, due, wake, scheduler, served>>

\* the temporary file, if it is still there, is removed or stays for good
Cleanup ==
  /\ At("cleanup", "finish")
  /\ error' \in IF refresh.temporary THEN {error, TRUE} ELSE {error}
  /\ UNCHANGED <<up, file, snapshot, refreshing, due, wake, scheduler, served>>

\* mutant: a refresh that failed keeps the flag up
Finish_AfterSuccess ==
  /\ up /\ refresh.at = "finish"
  /\ refresh' = NoRefresh
  /\ refreshing' = error
  /\ due' = Interval
  /\ wake' = TRUE
  /\ UNCHANGED <<up, file, snapshot, error, scheduler, served>>

Finish ==
  /\ up /\ refresh.at = "finish"
  /\ refresh' = NoRefresh
  /\ refreshing' = FALSE
  /\ due' = Interval
  /\ wake' = TRUE
  /\ UNCHANGED <<up, file, snapshot, error, scheduler, served>>

RefreshThread == Fetch \/ WriteTemporary \/ Replace \/ Publish \/ Fail \/ Cleanup \/ Finish

-----------------------------------------------------------------------------
\* _schedule(): refresh if due, plan the delay, sleep until it passed or the
\* event is set, clear the event.
Check ==
  /\ up /\ scheduler.at = "check"
  /\ RequestRefresh(TRUE)
  /\ scheduler' = [scheduler EXCEPT !.at = "plan"]
  /\ UNCHANGED <<up, file, snapshot, error, wake, served>>

PlanDelay ==
  /\ up /\ scheduler.at = "plan"
  /\ scheduler' = [at |-> "wait", delay |-> due]
  /\ UNCHANGED <<up, file, snapshot, error, refreshing, due, wake, refresh, served>>

Awake ==
  /\ up /\ scheduler.at = "wait" /\ (wake \/ scheduler.delay = 0)
  /\ scheduler' = [at |-> "clear", delay |-> 0]
  /\ UNCHANGED <<up, file, snapshot, error, refreshing, due, wake, refresh, served>>

ClearWake ==
  /\ up /\ scheduler.at = "clear"
  /\ wake' = FALSE
  /\ scheduler' = [scheduler EXCEPT !.at = "check"]
  /\ UNCHANGED <<up, file, snapshot, error, refreshing, due, refresh, served>>

Schedule == Check \/ PlanDelay \/ Awake \/ ClearWake

-----------------------------------------------------------------------------
\* A clock tick; ages stop at Interval, beyond which everything is stale.
Older(s) == IF s.version = 0 THEN s ELSE [s EXCEPT !.age = Smaller(@ + 1, Interval)]
Down(n) == IF n = 0 THEN 0 ELSE n - 1

Tick ==
  /\ file' = Older(file)
  /\ snapshot' = Older(snapshot)
  /\ refresh' = [refresh EXCEPT !.feed = Older(@)]
  /\ due' = Down(due)
  /\ scheduler' = [scheduler EXCEPT !.delay = Down(@)]
  /\ UNCHANGED <<up, error, refreshing, wake, served>>

\* The process dies with its daemon threads wherever they are: a kill, or the
\* exec of restart_if_source_changed in the middle of any request.
Die ==
  /\ up
  /\ up' = FALSE
  /\ snapshot' = NoSnapshot /\ error' = FALSE /\ refreshing' = FALSE /\ refresh' = NoRefresh
  /\ due' = 0 /\ wake' = FALSE
  /\ scheduler' = [at |-> "check", delay |-> 0]
  /\ UNCHANGED <<file, served>>

Boot ==
  /\ ~up
  /\ up' = TRUE
  /\ snapshot' = Loaded.snapshot /\ error' = Loaded.error /\ due' = Loaded.due
  /\ UNCHANGED <<file, refreshing, refresh, wake, scheduler, served>>
=============================================================================
