------------------------------- MODULE FeedPage -------------------------------
(***************************************************************************)
(* The dashboard's handlers in front of the feed cache, and the toolbar    *)
(* script of one open page (src/dashboard/app.py): it polls the status,    *)
(* posts refresh requests, and reloads when a newer feed is served.        *)
(* Requests of the script are answered and lost in any order: clearing its *)
(* timer does not take back a poll that is under way.                      *)
(***************************************************************************)
EXTENDS FeedCache, Sequences, SequencesExt

CONSTANT MaxRequests     \* bound: requests of the page under way at a time

VARIABLES
  page,           \* the version the page was rendered with, its button, its timer
  requests        \* its requests under way: "poll" or "post", and the answer

pageVars == <<page, requests>>
vars == <<cacheVars, pageVars>>

NoAnswer == [version |-> 0, refreshing |-> FALSE]
Answers == [version : 0..MaxVersions, refreshing : BOOLEAN]
Ask(kind) == [kind |-> kind, answered |-> FALSE, answer |-> NoAnswer]

FeedPageTypeOK ==
  /\ page \in [initial : 0..MaxVersions, disabled : BOOLEAN, timer : {"none", "short", "long"}]
  /\ Len(requests) <= MaxRequests
  /\ \A i \in DOMAIN requests :
       requests[i] \in [kind : {"poll", "post"}, answered : BOOLEAN, answer : Answers]

-----------------------------------------------------------------------------
\* feed_controls() and the last lines of its script, run on loading a page
Rendered(data) == [initial |-> data.version, disabled |-> data.refreshing,
                   timer |-> IF data.refreshing THEN "none" ELSE "long"]
\* mutant: a page rendered during a refresh does not poll
FirstRequests_None(data) == <<>>
FirstRequests(data) == IF data.refreshing THEN <<Ask("poll")>> ELSE <<>>

Serve(data) == served' = IF data.version > served THEN data.version ELSE served

Load ==
  /\ up
  /\ page' = Rendered(Read) /\ requests' = FirstRequests(Read)
  /\ Serve(Read)
  /\ UNCHANGED <<up, file, snapshot, error, refreshing, due, wake, scheduler, refresh>>

\* the handlers: a GET of the status and a POST that requests a refresh first;
\* both answer with github_status()
Status == [version |-> snapshot.version, refreshing |-> refreshing']

Answered(i) == requests' = [requests EXCEPT ![i].answered = TRUE, ![i].answer = Status]

HandlePoll(i) ==
  /\ up /\ requests[i].kind = "poll" /\ ~requests[i].answered
  /\ UNCHANGED <<refreshing, due, refresh>>
  /\ Answered(i) /\ Serve(Status)
  /\ UNCHANGED <<up, file, snapshot, error, wake, scheduler, page>>

HandlePost(i) ==
  /\ up /\ requests[i].kind = "post" /\ ~requests[i].answered
  /\ RequestRefresh(FALSE)
  /\ Answered(i) /\ Serve(Status)
  /\ UNCHANGED <<up, file, snapshot, error, wake, scheduler, page>>

-----------------------------------------------------------------------------
\* the script's timer fires: poll()
Fire ==
  /\ page.timer # "none"
  /\ page' = [page EXCEPT !.timer = "none"]
  /\ requests' = Append(requests, Ask("poll"))
  /\ UNCHANGED cacheVars

\* a click: no timer, a disabled button, a post
Click ==
  /\ ~page.disabled /\ Len(requests) < MaxRequests
  /\ page' = [page EXCEPT !.timer = "none", !.disabled = TRUE]
  /\ requests' = Append(requests, Ask("post"))
  /\ UNCHANGED cacheVars

\* poll() got its answer: poll again soon, reload, or poll again later
PollAnswer(i) ==
  LET data == requests[i].answer IN
  /\ requests[i].kind = "poll" /\ requests[i].answered
  /\ data.refreshing \/ data.version <= page.initial
  /\ page' = [page EXCEPT !.disabled = data.refreshing,
                          !.timer = IF data.refreshing THEN "short" ELSE "long"]
  /\ requests' = RemoveAt(requests, i)
  /\ UNCHANGED cacheVars

Reload(i) ==
  LET data == requests[i].answer IN
  /\ requests[i].kind = "poll" /\ requests[i].answered
  /\ ~data.refreshing /\ data.version > page.initial
  /\ Load

\* the post got its answer: show it and poll
PostAnswer(i) ==
  /\ requests[i].kind = "post" /\ requests[i].answered
  /\ page' = [page EXCEPT !.disabled = requests[i].answer.refreshing]
  /\ requests' = Append(RemoveAt(requests, i), Ask("poll"))
  /\ UNCHANGED cacheVars

\* a request of either kind failed, handled or not
RequestFails(i) ==
  /\ page' = [page EXCEPT !.disabled = FALSE, !.timer = "long"]
  /\ requests' = RemoveAt(requests, i)
  /\ UNCHANGED cacheVars

-----------------------------------------------------------------------------
PageInit == page = Rendered(Read) /\ requests = FirstRequests(Read)
Init == FeedCacheInit /\ PageInit

Next ==
  \/ (RefreshThread \/ Schedule \/ Tick \/ Die \/ Boot) /\ UNCHANGED pageVars
  \/ Load \/ Fire \/ Click
  \/ \E i \in DOMAIN requests :
       \/ HandlePoll(i) \/ HandlePost(i)
       \/ PollAnswer(i) \/ Reload(i) \/ PostAnswer(i) \/ RequestFails(i)

\* The refresh thread ends every step (a request of gh is given 20 seconds), the
\* scheduler runs whenever it may, and time passes.  Nothing is assumed of GitHub,
\* of the page or of its user.
Fairness ==
  /\ WF_cacheVars(RefreshThread /\ UNCHANGED pageVars)
  /\ WF_cacheVars(Schedule /\ UNCHANGED pageVars)
  /\ WF_cacheVars(Tick /\ UNCHANGED pageVars)

Spec == Init /\ [][Next]_vars /\ Fairness

TypeOK == FeedCacheTypeOK /\ FeedPageTypeOK

\* A reader is never given an older feed than one given before, by this process or
\* by one that died: a feed is served only after os.replace has put it on disk
\* (github_cache.py:202-211).
NeverServesOlder == up => snapshot.version >= served

\* The flag that refuses further refreshes is up exactly while a refresh thread is
\* there to lower it again (request_refresh, and the finally of _refresh).
FlagHasThread == refreshing <=> refresh.at # "none"

\* A disabled button is waiting for something: a request under way or a timer.
NoStuckButton == page.disabled => requests # <<>> \/ page.timer # "none"

\* A refresh that is due starts, unless the process dies first: no wake-up that the
\* scheduler clears, and no request that moves _next_due, makes it sleep on.
Due == up /\ due = 0
Taken == refreshing \/ ~up
DueIsRefreshed == Due ~> Taken

\* A refresh comes to its end, whatever GitHub and the disk do, so that callers of
\* wait_for_refresh are released and the next one may start.
Refreshing == refreshing
RefreshEnds == Refreshing ~> ~Refreshing

-----------------------------------------------------------------------------
(* The invariant the safety properties rest on.                             *)

\* What readers were given is in memory, and what is in memory is on disk; what a refresh
\* brings is newer, and on disk before it is published.
VersionsInv ==
  /\ served \in Nat /\ served <= file.version
  /\ up => served <= snapshot.version /\ snapshot.version <= file.version
  /\ refresh.at \in {"write", "replace", "publish"} =>
       refresh.feed \in Snapshots /\ snapshot.version < refresh.feed.version
  /\ refresh.at = "publish" => refresh.feed.version <= file.version

RequestRecords == [kind : {"poll", "post"}, answered : BOOLEAN,
                   answer : [version : Nat, refreshing : BOOLEAN]]

PageInv ==
  /\ file \in Snapshots \cup {Absent, Unreadable}
  /\ snapshot \in Snapshots \cup {NoSnapshot}
  /\ refresh \in [at : {"none", "fetch", "write", "replace", "publish", "failed", "cleanup",
                        "finish"},
                  feed : Snapshots \cup {NoSnapshot}, temporary : BOOLEAN]
  /\ refreshing \in BOOLEAN /\ FlagHasThread
  /\ refresh.at # "none" => up
  /\ VersionsInv
  /\ page \in [initial : Nat, disabled : BOOLEAN, timer : {"none", "short", "long"}]
  /\ requests \in Seq(RequestRecords) /\ NoStuckButton
=============================================================================
