------------------------------ MODULE FeedsProofs ------------------------------
(***************************************************************************)
(* Theorems of the programs of MCFeeds, for every value of their           *)
(* constants.  Each rests on an inductive invariant that stands in the     *)
(* module of its program (PageInv of FeedPage, FetchInv of FeedFetch,      *)
(* GoalsInv of GoalViews); the lemmas of a program say what its variables  *)
(* are called, and FeedsInv puts them together.                            *)
(***************************************************************************)
EXTENDS MCFeeds, SequenceTheorems, FiniteSetTheorems, TLAPS

-----------------------------------------------------------------------------
(* The page and its feed cache: their state is v1 to v12.                   *)

feedVars == <<v1, v2, v3, v4, v5, v6, v7, v8, v9, v10, v11, v12>>
RefreshSteps ==
  {"none", "fetch", "write", "replace", "publish", "failed", "cleanup", "finish"}
Held == Page!Snapshots \cup {Page!NoSnapshot}           \* what a process may hold
Filed == Page!Snapshots \cup {Page!Absent, Page!Unreadable}

LEMMA Versions ==
  /\ \A s \in Page!Snapshots : s.version \in Nat \ {0} /\ s.version <= MaxVersions
  /\ \A s \in Held : s.version \in Nat /\ (s \notin Page!Snapshots => s.version = 0)
  /\ \A s \in Filed : s.version \in Nat /\ (s \notin Page!Snapshots => s.version = 0)
  /\ Interval \in Nat \ {0} /\ MaxVersions \in Nat
  <1> USE FeedsAssumption DEF Held, Filed, Page!Snapshots, Page!NoSnapshot, Page!Absent, Page!Unreadable
  <1>1. \A s \in Page!Snapshots : s.version \in Nat \ {0} /\ s.version <= MaxVersions
    OBVIOUS
  <1>2. Page!NoSnapshot.version = 0 /\ Page!Absent.version = 0 /\ Page!Unreadable.version = 0
    OBVIOUS
  <1> QED
    BY <1>1, <1>2

\* Age is all that time changes of a feed.
LEMMA OlderIsTheSame ==
  /\ \A s \in Page!Snapshots : Page!Older(s) \in Page!Snapshots /\ Page!Older(s).version = s.version
  /\ \A s \in Held : Page!Older(s) \in Held /\ Page!Older(s).version = s.version
  /\ \A s \in Filed : Page!Older(s) \in Filed /\ Page!Older(s).version = s.version
  <1>1. ASSUME NEW s \in Page!Snapshots
        PROVE  Page!Older(s) \in Page!Snapshots /\ Page!Older(s).version = s.version
    <2> DEFINE age == Page!Smaller(s.age + 1, Interval)
    <2>1. s.version # 0 /\ s.age \in 0..Interval /\ Interval \in Nat
      BY Versions DEF Page!Snapshots
    <2>2. age \in 0..Interval
      BY <2>1 DEF Page!Smaller
    <2> HIDE DEF age
    <2>3. Page!Older(s) = [s EXCEPT !.age = age]
      BY <2>1 DEF Page!Older, age
    <2> QED
      BY <2>2, <2>3 DEF Page!Snapshots
  <1>2. ASSUME NEW s, s.version = 0 PROVE Page!Older(s) = s
    BY <1>2 DEF Page!Older
  <1>3. ASSUME NEW s \in Held PROVE Page!Older(s) \in Held /\ Page!Older(s).version = s.version
    <2>1. CASE s \in Page!Snapshots
      BY <1>1, <2>1 DEF Held
    <2>2. CASE s \notin Page!Snapshots
      BY <1>2, <2>2, Versions
    <2> QED
      BY <2>1, <2>2
  <1>4. ASSUME NEW s \in Filed PROVE Page!Older(s) \in Filed /\ Page!Older(s).version = s.version
    <2>1. CASE s \in Page!Snapshots
      BY <1>1, <2>1 DEF Filed
    <2>2. CASE s \notin Page!Snapshots
      BY <1>2, <2>2, Versions
    <2> QED
      BY <2>1, <2>2
  <1> QED
    BY <1>1, <1>3, <1>4

\* The invariant in two halves: of the cache, and of the page.
CacheHalf ==
  /\ v2 \in Filed /\ v3 \in Held
  /\ v9 \in [at : RefreshSteps, feed : Held, temporary : BOOLEAN]
  /\ v5 \in BOOLEAN /\ Page!FlagHasThread
  /\ v9.at # "none" => v1
  /\ Page!VersionsInv
PageHalf ==
  /\ v11 \in [initial : Nat, disabled : BOOLEAN, timer : {"none", "short", "long"}]
  /\ v12 \in Seq(Page!RequestRecords) /\ Page!NoStuckButton

LEMMA PageHalves == Page!PageInv <=> CacheHalf /\ PageHalf
  BY DEF Page!PageInv, CacheHalf, PageHalf, Held, Filed, RefreshSteps

\* What a process loads is the file, or nothing.
LEMMA LoadedIs ==
  ASSUME v2 \in Filed
  PROVE  Page!Loaded.snapshot \in Held /\ Page!Loaded.snapshot.version = v2.version
  <1>1. CASE v2 \in Page!Snapshots
    BY <1>1 DEF Page!Loaded, Held
  <1>2. CASE v2 \notin Page!Snapshots
    <2>1. Page!Loaded.snapshot = Page!NoSnapshot
      BY <1>2 DEF Page!Loaded
    <2>2. Page!NoSnapshot \in Held /\ Page!NoSnapshot \notin Page!Snapshots
      BY DEF Held, Page!NoSnapshot, Page!Snapshots
    <2> QED
      BY <1>2, <2>1, <2>2, Versions
  <1> QED
    BY <1>1, <1>2

LEMMA CacheInitially == Page!FeedCacheInit => CacheHalf
  <1> SUFFICES ASSUME Page!FeedCacheInit PROVE CacheHalf
    OBVIOUS
  <1>1. /\ v2 \in {Page!Absent, Page!Unreadable} /\ v3 = Page!Loaded.snapshot
        /\ v5 = FALSE /\ v9 = Page!NoRefresh /\ v10 = 0
    BY DEF Page!FeedCacheInit
  <1>2. v2 \in Filed /\ v3 \in Held /\ v3.version = v2.version /\ v2.version \in Nat
    BY <1>1, LoadedIs, Versions DEF Filed
  <1>3. v9 \in [at : RefreshSteps, feed : Held, temporary : BOOLEAN] /\ v9.at = "none"
    BY <1>1 DEF Page!NoRefresh, RefreshSteps, Held
  <1>4. Page!VersionsInv
    BY <1>1, <1>2, <1>3 DEF Page!VersionsInv
  <1> QED
    BY <1>1, <1>2, <1>3, <1>4 DEF CacheHalf, Page!FlagHasThread

\* A step that touches neither file, memory nor readers.
LEMMA RefreshMoves ==
  ASSUME CacheHalf, v1' = v1, v2' = v2, v3' = v3, v10' = v10, v5' \in BOOLEAN,
         NEW next \in [at : RefreshSteps, feed : Held, temporary : BOOLEAN], v9' = next,
         v5' <=> next.at # "none", next.at # "none" => v1,
         next.at \in {"write", "replace", "publish"} =>
           next.feed \in Page!Snapshots /\ v3.version < next.feed.version,
         next.at = "publish" => next.feed.version <= v2.version
  PROVE  CacheHalf'
  <1>1. Page!VersionsInv'
    BY DEF CacheHalf, Page!VersionsInv
  <1> QED
    BY <1>1 DEF CacheHalf, Page!FlagHasThread

\* request_refresh(), by whomever.
LEMMA RequestMoves ==
  ASSUME CacheHalf, v1, NEW due \in BOOLEAN, Page!RequestRefresh(due),
         v1' = v1, v2' = v2, v3' = v3, v10' = v10
  PROVE  CacheHalf'
  <1>1. CASE Page!MayRefresh(due)
    <2> DEFINE next == [Page!NoRefresh EXCEPT !.at = "fetch"]
    <2>1. v5' = TRUE /\ v9' = next
      BY <1>1 DEF Page!RequestRefresh
    <2>2. next \in [at : RefreshSteps, feed : Held, temporary : BOOLEAN] /\ next.at = "fetch"
      BY DEF Page!NoRefresh, RefreshSteps, Held
    <2> HIDE DEF next
    <2> QED
      BY <2>1, <2>2, RefreshMoves
  <1>2. CASE ~Page!MayRefresh(due)
    <2>1. v5' = v5 /\ v9' = v9
      BY <1>2 DEF Page!RequestRefresh
    <2> QED
      BY <2>1 DEF CacheHalf, Page!FlagHasThread, Page!VersionsInv
  <1> QED
    BY <1>1, <1>2

LEMMA RefreshThreadStep == ASSUME CacheHalf, Page!RefreshThread PROVE CacheHalf'
  <1>0. /\ v2 \in Filed /\ v3 \in Held /\ v9 \in [at : RefreshSteps, feed : Held, temporary : BOOLEAN]
        /\ v5 \in BOOLEAN
        /\ v5 <=> v9.at # "none"
        /\ v10 \in Nat /\ v10 <= v2.version
        /\ v1 => v10 <= v3.version /\ v3.version <= v2.version
        /\ v9.at \in {"write", "replace", "publish"} =>
             v9.feed \in Page!Snapshots /\ v3.version < v9.feed.version
        /\ v9.at = "publish" => v9.feed.version <= v2.version
    BY DEF CacheHalf, Page!FlagHasThread, Page!VersionsInv
  <1>1. /\ v2.version \in Nat /\ v3.version \in Nat /\ v9.feed.version \in Nat
    <2>1. v9.feed \in Held
      BY <1>0
    <2> QED
      BY <1>0, <2>1, Versions
  <1>2. ASSUME NEW at \in RefreshSteps \ {"none", "write", "replace", "publish"}, NEW t \in BOOLEAN,
               v9' = [v9 EXCEPT !.at = at, !.temporary = t], v9.at # "none", v1,
               v1' = v1, v2' = v2, v3' = v3, v5' = v5, v10' = v10
        PROVE  CacheHalf'
    <2> DEFINE next == [v9 EXCEPT !.at = at, !.temporary = t]
    <2>1. next \in [at : RefreshSteps, feed : Held, temporary : BOOLEAN] /\ next.at = at
      BY <1>0, <1>2
    <2> HIDE DEF next
    <2>2. v5' = v5 /\ v5 /\ v9' = next /\ at \notin {"none", "write", "replace", "publish"}
      BY <1>0, <1>2 DEF next
    <2> QED
      BY <1>2, <2>1, <2>2, RefreshMoves
  <1>3. ASSUME Page!Raise, v9.at # "none", v1,
               v1' = v1, v2' = v2, v3' = v3, v5' = v5, v10' = v10
        PROVE  CacheHalf'
    <2>1. v9' = [v9 EXCEPT !.at = "failed", !.temporary = v9.temporary] /\ v9.temporary \in BOOLEAN
      BY <1>0, <1>3 DEF Page!Raise
    <2> QED
      BY <1>2, <1>3, <2>1 DEF RefreshSteps
  <1>4. CASE Page!Fetch
    <2>0. /\ v1 /\ v9.at = "fetch"
          /\ v1' = v1 /\ v2' = v2 /\ v3' = v3 /\ v5' = v5 /\ v10' = v10
      BY <1>4 DEF Page!Fetch, Page!Restless
    <2>1. CASE Page!Raise
      BY <1>3, <2>0, <2>1
    <2>2. CASE ~Page!Raise
      <3> DEFINE feed == [version |-> v3.version + 1, age |-> 0]
                 next == [v9 EXCEPT !.at = "write", !.feed = feed]
      <3>1. v3.version < MaxVersions /\ v9' = next
        BY <1>4, <2>2 DEF Page!Fetch
      <3>2. feed \in Page!Snapshots /\ feed.version > v3.version
        BY <1>0, <1>1, <3>1, Versions DEF Page!Snapshots
      <3> HIDE DEF feed
      <3>3. next \in [at : RefreshSteps, feed : Held, temporary : BOOLEAN]
            /\ next.at = "write" /\ next.feed = feed
        BY <1>0, <3>2 DEF RefreshSteps, Held
      <3> HIDE DEF next
      <3>4. v3.version < next.feed.version
        BY <1>1, <3>2, <3>3, Versions
      <3>5. v5
        BY <1>0, <2>0
      <3> QED
        BY <1>0, <2>0, <3>1, <3>2, <3>3, <3>4, <3>5, RefreshMoves
    <2> QED
      BY <2>1, <2>2
  <1>5. CASE Page!WriteTemporary
    <2>0. /\ v1 /\ v9.at = "write"
          /\ v1' = v1 /\ v2' = v2 /\ v3' = v3 /\ v5' = v5 /\ v10' = v10
      BY <1>5 DEF Page!WriteTemporary, Page!Restless
    <2>1. PICK made \in BOOLEAN, at \in {"replace", "failed"} :
            v9' = [v9 EXCEPT !.at = at, !.temporary = made]
      BY <1>5 DEF Page!WriteTemporary
    <2>2. CASE at = "failed"
      BY <1>2, <2>0, <2>1, <2>2 DEF RefreshSteps
    <2>3. CASE at = "replace"
      <3> DEFINE next == [v9 EXCEPT !.at = at, !.temporary = made]
      <3>1. next \in [at : RefreshSteps, feed : Held, temporary : BOOLEAN]
            /\ next.at = "replace" /\ next.feed = v9.feed
        BY <1>0, <2>1, <2>3 DEF RefreshSteps
      <3> HIDE DEF next
      <3>2. v9' = next /\ v5
        BY <1>0, <2>0, <2>1 DEF next
      <3> QED
        BY <1>0, <2>0, <3>1, <3>2, RefreshMoves
    <2> QED
      BY <2>2, <2>3
  <1>6. CASE Page!Replace
    <2>0. /\ v1 /\ v9.at = "replace"
          /\ v1' = v1 /\ v3' = v3 /\ v5' = v5 /\ v10' = v10
      BY <1>6 DEF Page!Replace, Page!Restless
    <2>1. CASE v9' = [v9 EXCEPT !.at = "publish", !.temporary = FALSE] /\ v2' = v9.feed
      <3>1. /\ v9' \in [at : RefreshSteps, feed : Held, temporary : BOOLEAN]
            /\ v9'.at = "publish" /\ v9'.feed = v9.feed
        BY <1>0, <2>1 DEF RefreshSteps
      <3>2. v9.feed \in Page!Snapshots /\ v3.version < v9.feed.version /\ v10 <= v3.version
        BY <1>0, <2>0
      <3>3. v2' \in Filed /\ v2'.version = v9.feed.version
        BY <2>1, <3>2 DEF Filed
      <3>4. Page!VersionsInv'
        BY <1>0, <1>1, <2>0, <3>1, <3>2, <3>3 DEF Page!VersionsInv
      <3> QED
        BY <1>0, <2>0, <3>1, <3>3, <3>4 DEF CacheHalf, Page!FlagHasThread
    <2>2. CASE Page!Raise /\ v2' = v2
      BY <1>3, <2>0, <2>2
    <2> QED
      BY <1>6, <2>1, <2>2 DEF Page!Replace
  <1>7. CASE Page!Publish
    <2>0. /\ v1 /\ v9.at = "publish" /\ v9' = [v9 EXCEPT !.at = "cleanup"] /\ v3' = v9.feed
          /\ v1' = v1 /\ v2' = v2 /\ v5' = v5 /\ v10' = v10
      BY <1>7 DEF Page!Publish, Page!At
    <2>1. v9' \in [at : RefreshSteps, feed : Held, temporary : BOOLEAN] /\ v9'.at = "cleanup"
      BY <1>0, <2>0 DEF RefreshSteps
    <2>2. /\ v9.feed \in Page!Snapshots /\ v3.version < v9.feed.version /\ v10 <= v3.version
          /\ v9.feed.version <= v2.version
      BY <1>0, <2>0
    <2>3. v3' \in Held /\ v3'.version = v9.feed.version
      BY <2>0, <2>2 DEF Held
    <2>4. Page!VersionsInv'
      BY <1>0, <1>1, <2>0, <2>1, <2>2, <2>3 DEF Page!VersionsInv
    <2> QED
      BY <1>0, <2>0, <2>1, <2>3, <2>4 DEF CacheHalf, Page!FlagHasThread
  <1>8. CASE Page!Fail
    <2>0. /\ v1 /\ v9.at = "failed" /\ v9' = [v9 EXCEPT !.at = "cleanup"]
          /\ v1' = v1 /\ v2' = v2 /\ v3' = v3 /\ v5' = v5 /\ v10' = v10
      BY <1>8 DEF Page!Fail, Page!At
    <2>1. v9' = [v9 EXCEPT !.at = "cleanup", !.temporary = v9.temporary] /\ v9.temporary \in BOOLEAN
      BY <1>0, <2>0
    <2> QED
      BY <1>2, <2>0, <2>1 DEF RefreshSteps
  <1>9. CASE Page!Cleanup
    <2>0. /\ v1 /\ v9.at = "cleanup" /\ v9' = [v9 EXCEPT !.at = "finish"]
          /\ v1' = v1 /\ v2' = v2 /\ v3' = v3 /\ v5' = v5 /\ v10' = v10
      BY <1>9 DEF Page!Cleanup, Page!At
    <2>1. v9' = [v9 EXCEPT !.at = "finish", !.temporary = v9.temporary] /\ v9.temporary \in BOOLEAN
      BY <1>0, <2>0
    <2> QED
      BY <1>2, <2>0, <2>1 DEF RefreshSteps
  <1>10. CASE Page!Finish
    <2>0. /\ v9' = Page!NoRefresh /\ v5' = FALSE
          /\ v1' = v1 /\ v2' = v2 /\ v3' = v3 /\ v10' = v10
      BY <1>10 DEF Page!Finish
    <2>1. Page!NoRefresh \in [at : RefreshSteps, feed : Held, temporary : BOOLEAN]
          /\ Page!NoRefresh.at = "none"
      BY DEF Page!NoRefresh, RefreshSteps, Held
    <2> QED
      BY <2>0, <2>1, RefreshMoves
  <1> QED
    BY <1>4, <1>5, <1>6, <1>7, <1>8, <1>9, <1>10 DEF Page!RefreshThread

LEMMA CacheSteps ==
  ASSUME CacheHalf, Page!RefreshThread \/ Page!Schedule \/ Page!Tick \/ Page!Die \/ Page!Boot
  PROVE  CacheHalf'
  <1>0. /\ v2 \in Filed /\ v3 \in Held /\ v9 \in [at : RefreshSteps, feed : Held, temporary : BOOLEAN]
        /\ v5 \in BOOLEAN
        /\ v5 <=> v9.at # "none"
        /\ v9.at # "none" => v1
        /\ v10 \in Nat /\ v10 <= v2.version
        /\ v1 => v10 <= v3.version /\ v3.version <= v2.version
        /\ v9.at \in {"write", "replace", "publish"} =>
             v9.feed \in Page!Snapshots /\ v3.version < v9.feed.version
        /\ v9.at = "publish" => v9.feed.version <= v2.version
    BY DEF CacheHalf, Page!FlagHasThread, Page!VersionsInv
  <1>1. CASE Page!RefreshThread
    BY <1>1, RefreshThreadStep
  <1>2. CASE Page!Check
    BY <1>2, RequestMoves DEF Page!Check
  <1>3. CASE Page!PlanDelay \/ Page!Awake \/ Page!ClearWake
    <2>1. v1' = v1 /\ v2' = v2 /\ v3' = v3 /\ v5' = v5 /\ v9' = v9 /\ v10' = v10
      BY <1>3 DEF Page!PlanDelay, Page!Awake, Page!ClearWake
    <2> QED
      BY <2>1 DEF CacheHalf, Page!FlagHasThread, Page!VersionsInv
  <1>4. CASE Page!Tick
    <2>0. /\ v2' = Page!Older(v2) /\ v3' = Page!Older(v3)
          /\ v9' = [v9 EXCEPT !.feed = Page!Older(v9.feed)]
          /\ v1' = v1 /\ v5' = v5 /\ v10' = v10
      BY <1>0, <1>4 DEF Page!Tick
    <2>1. v9.feed \in Held
      BY <1>0
    <2>2. /\ v2' \in Filed /\ v2'.version = v2.version
          /\ v3' \in Held /\ v3'.version = v3.version
      BY <1>0, <2>0, OlderIsTheSame
    <2> DEFINE feed == Page!Older(v9.feed)
    <2>3. /\ feed \in Held /\ feed.version = v9.feed.version
          /\ v9.feed \in Page!Snapshots => feed \in Page!Snapshots
      BY <2>1, OlderIsTheSame
    <2> HIDE DEF feed
    <2>4. /\ v9' \in [at : RefreshSteps, feed : Held, temporary : BOOLEAN]
          /\ v9'.at = v9.at /\ v9'.feed = feed
      BY <1>0, <2>0, <2>3 DEF feed
    <2>5. Page!VersionsInv'
      BY <1>0, <2>0, <2>2, <2>3, <2>4 DEF Page!VersionsInv
    <2> QED
      BY <1>0, <2>0, <2>2, <2>4, <2>5 DEF CacheHalf, Page!FlagHasThread
  <1>5. CASE Page!Die
    <2>0. /\ v1' = FALSE /\ v2' = v2 /\ v3' = Page!NoSnapshot /\ v5' = FALSE
          /\ v9' = Page!NoRefresh /\ v10' = v10
      BY <1>5 DEF Page!Die
    <2>1. Page!NoSnapshot \in Held
      BY DEF Held
    <2>2. v9' \in [at : RefreshSteps, feed : Held, temporary : BOOLEAN] /\ v9'.at = "none"
      BY <2>0 DEF Page!NoRefresh, RefreshSteps, Held
    <2>3. Page!VersionsInv'
      BY <1>0, <2>0, <2>2 DEF Page!VersionsInv
    <2> QED
      BY <1>0, <2>0, <2>1, <2>2, <2>3 DEF CacheHalf, Page!FlagHasThread
  <1>6. CASE Page!Boot
    <2>0. /\ ~v1 /\ v1' = TRUE /\ v2' = v2 /\ v3' = Page!Loaded.snapshot /\ v5' = v5
          /\ v9' = v9 /\ v10' = v10
      BY <1>6 DEF Page!Boot
    <2>1. v3' \in Held /\ v3'.version = v2.version /\ v2.version \in Nat
      BY <1>0, <2>0, LoadedIs, Versions
    <2>2. v9.at = "none"
      BY <1>0, <2>0
    <2>3. Page!VersionsInv'
      BY <1>0, <2>0, <2>1, <2>2 DEF Page!VersionsInv
    <2> QED
      BY <1>0, <2>0, <2>1, <2>2, <2>3 DEF CacheHalf, Page!FlagHasThread
  <1> QED
    BY <1>1, <1>2, <1>3, <1>4, <1>5, <1>6 DEF Page!Schedule

\* A reader is given what is in memory.
LEMMA ServeStep ==
  ASSUME CacheHalf, v1, v1' = v1, v2' = v2, v3' = v3, v9' = v9, v5' = v5,
         v10' = (IF v3.version > v10 THEN v3.version ELSE v10)
  PROVE  CacheHalf'
  <1>1. v3.version \in Nat /\ v2.version \in Nat
    BY Versions DEF CacheHalf
  <1>2. Page!VersionsInv'
    BY <1>1 DEF CacheHalf, Page!VersionsInv
  <1> QED
    BY <1>2 DEF CacheHalf, Page!FlagHasThread

\* One that asked for a refresh first.
LEMMA PostStep ==
  ASSUME CacheHalf, v1, Page!RequestRefresh(FALSE), v1' = v1, v2' = v2, v3' = v3,
         v10' = (IF v3.version > v10 THEN v3.version ELSE v10)
  PROVE  CacheHalf'
  <1>0. /\ v2 \in Filed /\ v3 \in Held /\ v9 \in [at : RefreshSteps, feed : Held, temporary : BOOLEAN]
        /\ v5 \in BOOLEAN
        /\ v5 <=> v9.at # "none"
        /\ v9.at # "none" => v1
        /\ v10 \in Nat /\ v10 <= v2.version
        /\ v1 => v10 <= v3.version /\ v3.version <= v2.version
        /\ v9.at \in {"write", "replace", "publish"} =>
             v9.feed \in Page!Snapshots /\ v3.version < v9.feed.version
        /\ v9.at = "publish" => v9.feed.version <= v2.version
    BY DEF CacheHalf, Page!FlagHasThread, Page!VersionsInv
  <1>1. v3.version \in Nat /\ v2.version \in Nat /\ v10' = v3.version
    <2>1. v3.version \in Nat /\ v2.version \in Nat
      BY <1>0, Versions
    <2> QED
      BY <1>0, <2>1
  <1>2. CASE Page!MayRefresh(FALSE)
    <2> DEFINE next == [Page!NoRefresh EXCEPT !.at = "fetch"]
    <2>1. v5' = TRUE /\ v9' = next
      BY <1>2 DEF Page!RequestRefresh
    <2>2. next \in [at : RefreshSteps, feed : Held, temporary : BOOLEAN] /\ next.at = "fetch"
      BY DEF Page!NoRefresh, RefreshSteps, Held
    <2> HIDE DEF next
    <2>3. Page!VersionsInv'
      BY <1>0, <1>1, <2>1, <2>2 DEF Page!VersionsInv
    <2> QED
      BY <1>0, <2>1, <2>2, <2>3 DEF CacheHalf, Page!FlagHasThread
  <1>3. CASE ~Page!MayRefresh(FALSE)
    BY <1>3, ServeStep DEF Page!RequestRefresh
  <1> QED
    BY <1>2, <1>3

\* Requests of the page that are added, answered and taken away.
LEMMA RequestLists ==
  ASSUME NEW s \in Seq(Page!RequestRecords)
  PROVE  /\ \A kind \in {"poll", "post"} :
              /\ Page!Ask(kind) \in Page!RequestRecords
              /\ <<Page!Ask(kind)>> \in Seq(Page!RequestRecords)
              /\ Append(s, Page!Ask(kind)) \in Seq(Page!RequestRecords)
              /\ Append(s, Page!Ask(kind)) # <<>> /\ <<Page!Ask(kind)>> # <<>>
         /\ \A i \in DOMAIN s : Page!RemoveAt(s, i) \in Seq(Page!RequestRecords)
  <1>1. ASSUME NEW kind \in {"poll", "post"} PROVE Page!Ask(kind) \in Page!RequestRecords
    BY DEF Page!Ask, Page!NoAnswer, Page!RequestRecords
  <1>2. ASSUME NEW a \in Page!RequestRecords
        PROVE  /\ <<a>> \in Seq(Page!RequestRecords) /\ Append(s, a) \in Seq(Page!RequestRecords)
               /\ Append(s, a) # <<>> /\ <<a>> # <<>>
    <2>1. Append(s, a) \in Seq(Page!RequestRecords) /\ Len(Append(s, a)) = Len(s) + 1 /\ Len(s) \in Nat
      OBVIOUS
    <2>2. <<a>> \in Seq(Page!RequestRecords) /\ Len(<<a>>) = 1
      OBVIOUS
    <2>3. Len(<<>>) = 0
      OBVIOUS
    <2> QED
      BY <2>1, <2>2, <2>3
  <1>3. ASSUME NEW i \in DOMAIN s PROVE Page!RemoveAt(s, i) \in Seq(Page!RequestRecords)
    <2>1. i \in 1..Len(s) /\ Len(s) \in Nat
      BY <1>3
    <2>2. SubSeq(s, 1, i - 1) \in Seq(Page!RequestRecords)
      BY <2>1
    <2>3. SubSeq(s, i + 1, Len(s)) \in Seq(Page!RequestRecords)
      BY <2>1
    <2> QED
      BY <2>2, <2>3 DEF Page!RemoveAt
  <1> QED
    BY <1>1, <1>2, <1>3

\* A page that is rendered, anew or for the first time.
LEMMA RenderedIs ==
  ASSUME v3 \in Held, v5 \in BOOLEAN, NEW p, NEW r,
         p = Page!Rendered(Page!Read), r = Page!FirstRequests(Page!Read)
  PROVE  /\ p \in [initial : Nat, disabled : BOOLEAN, timer : {"none", "short", "long"}]
         /\ r \in Seq(Page!RequestRecords)
         /\ p.disabled => r # <<>>
  <1>1. v3.version \in Nat
    BY Versions
  <1>2. p = [initial |-> v3.version, disabled |-> v5, timer |-> IF v5 THEN "none" ELSE "long"]
    BY DEF Page!Rendered, Page!Read
  <1>3. r = IF v5 THEN <<Page!Ask("poll")>> ELSE <<>>
    BY DEF Page!FirstRequests, Page!Read
  <1>4. <<>> \in Seq(Page!RequestRecords)
    OBVIOUS
  <1>5. <<Page!Ask("poll")>> \in Seq(Page!RequestRecords) /\ <<Page!Ask("poll")>> # <<>>
    BY <1>4, RequestLists
  <1> QED
    BY <1>1, <1>2, <1>3, <1>4, <1>5

LEMMA PageLoads == ASSUME Page!PageInv, Page!Load PROVE Page!PageInv'
  <1>0. CacheHalf /\ PageHalf
    BY PageHalves
  <1>1. /\ v1 /\ v11' = Page!Rendered(Page!Read) /\ v12' = Page!FirstRequests(Page!Read)
        /\ v10' = IF v3.version > v10 THEN v3.version ELSE v10
        /\ v1' = v1 /\ v2' = v2 /\ v3' = v3 /\ v9' = v9 /\ v5' = v5
    BY DEF Page!Load, Page!Serve, Page!Read
  <1>2. CacheHalf'
    BY <1>0, <1>1, ServeStep
  <1>3. v3 \in Held /\ v5 \in BOOLEAN
    BY <1>0 DEF CacheHalf
  <1>4. PageHalf'
    BY <1>1, <1>3, RenderedIs DEF PageHalf, Page!NoStuckButton
  <1> QED
    BY <1>2, <1>4 DEF Page!PageInv, CacheHalf, PageHalf, Held, Filed, RefreshSteps

\* A request of the page is handled.
LEMMA HandleStep ==
  ASSUME Page!PageInv, NEW i \in DOMAIN v12, Page!HandlePoll(i) \/ Page!HandlePost(i)
  PROVE  Page!PageInv'
  <1>0. CacheHalf /\ PageHalf
    BY PageHalves
  <1>1. /\ v1 /\ v11' = v11 /\ v1' = v1 /\ v2' = v2 /\ v3' = v3
        /\ v10' = IF v3.version > v10 THEN v3.version ELSE v10
        /\ v12' = [v12 EXCEPT ![i].answered = TRUE, ![i].answer = Page!Status]
    BY DEF Page!HandlePoll, Page!HandlePost, Page!Serve, Page!Status, Page!Answered
  <1>2. CacheHalf'
    <2>1. CASE Page!HandlePoll(i)
      <3>1. v5' = v5 /\ v9' = v9
        BY <2>1 DEF Page!HandlePoll
      <3> QED
        BY <1>0, <1>1, <3>1, ServeStep
    <2>2. CASE Page!HandlePost(i)
      <3>1. Page!RequestRefresh(FALSE)
        BY <2>2 DEF Page!HandlePost
      <3> QED
        BY <1>0, <1>1, <3>1, PostStep
    <2> QED
      BY <2>1, <2>2
  <1>3. PageHalf'
    <2> DEFINE status == Page!Status
               a == [v12[i] EXCEPT !.answered = TRUE, !.answer = status]
    <2>1. status \in [version : Nat, refreshing : BOOLEAN]
      <3>1. v3 \in Held /\ v5' \in BOOLEAN
        BY <1>0, <1>2 DEF CacheHalf
      <3> QED
        BY <3>1, Versions DEF Page!Status
    <2> HIDE DEF status
    <2>2. v12 \in Seq(Page!RequestRecords) /\ v12[i] \in Page!RequestRecords
          /\ Len(v12) \in Nat /\ i \in 1..Len(v12)
      BY <1>0 DEF PageHalf
    <2>3. a \in Page!RequestRecords
      BY <2>1, <2>2 DEF Page!RequestRecords
    <2>4. v12' = [v12 EXCEPT ![i] = a]
      BY <1>1, <2>2 DEF status
    <2> HIDE DEF a
    <2>5. v12' \in Seq(Page!RequestRecords) /\ Len(v12') = Len(v12)
      BY <2>2, <2>3, <2>4
    <2>6. v12' # <<>>
      BY <2>2, <2>5
    <2> QED
      BY <1>0, <1>1, <2>5, <2>6 DEF PageHalf, Page!NoStuckButton
  <1> QED
    BY <1>2, <1>3 DEF Page!PageInv, CacheHalf, PageHalf, Held, Filed, RefreshSteps

\* What the page itself does leaves the cache alone.
LEMMA ScriptStep ==
  ASSUME Page!PageInv, UNCHANGED Page!cacheVars,
         NEW disabled \in BOOLEAN, NEW timer \in {"none", "short", "long"},
         v11' = [v11 EXCEPT !.disabled = disabled, !.timer = timer],
         v12' \in Seq(Page!RequestRecords),
         disabled => v12' # <<>> \/ timer # "none"
  PROVE  Page!PageInv'
  <1>0. CacheHalf /\ PageHalf
    BY PageHalves
  <1>1. CacheHalf'
    <2>1. v1' = v1 /\ v2' = v2 /\ v3' = v3 /\ v5' = v5 /\ v9' = v9 /\ v10' = v10
      BY DEF Page!cacheVars
    <2> QED
      BY <1>0, <2>1 DEF CacheHalf, Page!FlagHasThread, Page!VersionsInv
  <1>2. /\ v11' \in [initial : Nat, disabled : BOOLEAN, timer : {"none", "short", "long"}]
        /\ v11'.disabled = disabled /\ v11'.timer = timer
    BY <1>0 DEF PageHalf
  <1>3. PageHalf'
    BY <1>2 DEF PageHalf, Page!NoStuckButton
  <1> QED
    BY <1>1, <1>3 DEF Page!PageInv, CacheHalf, PageHalf, Held, Filed, RefreshSteps

LEMMA ScriptSteps ==
  ASSUME Page!PageInv,
         \/ Page!Fire \/ Page!Click
         \/ \E i \in DOMAIN v12 :
              Page!PollAnswer(i) \/ Page!PostAnswer(i) \/ Page!RequestFails(i)
  PROVE  Page!PageInv'
  <1>0. /\ v11 \in [initial : Nat, disabled : BOOLEAN, timer : {"none", "short", "long"}]
        /\ v12 \in Seq(Page!RequestRecords)
    BY DEF Page!PageInv
  <1>1. CASE Page!Fire
    <2>1. /\ v11' = [v11 EXCEPT !.disabled = v11.disabled, !.timer = "none"]
          /\ v12' = Append(v12, Page!Ask("poll")) /\ UNCHANGED Page!cacheVars /\ v11.disabled \in BOOLEAN
      BY <1>0, <1>1 DEF Page!Fire
    <2>2. v12' \in Seq(Page!RequestRecords) /\ v12' # <<>>
      BY <1>0, <2>1, RequestLists
    <2> QED
      BY <2>1, <2>2, ScriptStep
  <1>2. CASE Page!Click
    <2>1. /\ v11' = [v11 EXCEPT !.disabled = TRUE, !.timer = "none"]
          /\ v12' = Append(v12, Page!Ask("post")) /\ UNCHANGED Page!cacheVars
      BY <1>0, <1>2 DEF Page!Click
    <2>2. v12' \in Seq(Page!RequestRecords) /\ v12' # <<>>
      BY <1>0, <2>1, RequestLists
    <2> QED
      BY <2>1, <2>2, ScriptStep
  <1>3. ASSUME NEW i \in DOMAIN v12,
               Page!PollAnswer(i) \/ Page!PostAnswer(i) \/ Page!RequestFails(i)
        PROVE  Page!PageInv'
    <2>1. v12[i] \in Page!RequestRecords
      BY <1>0
    <2> DEFINE d == v12[i].answer.refreshing
    <2>2. d \in BOOLEAN
      BY <2>1 DEF Page!RequestRecords
    <2>3. Page!RemoveAt(v12, i) \in Seq(Page!RequestRecords)
      BY <1>0, RequestLists
    <2>4. CASE Page!PollAnswer(i)
      <3> DEFINE timer == IF d THEN "short" ELSE "long"
      <3>1. /\ v11' = [v11 EXCEPT !.disabled = d, !.timer = timer]
            /\ v12' = Page!RemoveAt(v12, i) /\ UNCHANGED Page!cacheVars
        BY <2>4 DEF Page!PollAnswer
      <3>2. timer \in {"none", "short", "long"} /\ timer # "none"
        OBVIOUS
      <3> HIDE DEF timer, d
      <3> QED
        BY <2>2, <2>3, <3>1, <3>2, ScriptStep
    <2>5. CASE Page!PostAnswer(i)
      <3>1. /\ v11' = [v11 EXCEPT !.disabled = d] /\ UNCHANGED Page!cacheVars
            /\ v12' = Append(Page!RemoveAt(v12, i), Page!Ask("poll"))
        BY <2>5 DEF Page!PostAnswer
      <3>2. v12' \in Seq(Page!RequestRecords) /\ v12' # <<>>
        BY <2>3, <3>1, RequestLists
      <3> HIDE DEF d
      <3>3. v11' = [v11 EXCEPT !.disabled = d, !.timer = v11.timer] /\ v11.timer \in {"none", "short", "long"}
        BY <1>0, <3>1
      <3> QED
        BY <2>2, <3>1, <3>2, <3>3, ScriptStep
    <2>6. CASE Page!RequestFails(i)
      <3>1. /\ v11' = [v11 EXCEPT !.disabled = FALSE, !.timer = "long"]
            /\ v12' = Page!RemoveAt(v12, i) /\ UNCHANGED Page!cacheVars
        BY <2>6 DEF Page!RequestFails
      <3> QED
        BY <2>3, <3>1, ScriptStep
    <2> QED
      BY <1>3, <2>4, <2>5, <2>6
  <1> QED
    BY <1>1, <1>2, <1>3

LEMMA PageStep == Page!PageInv /\ [Page!Next]_feedVars => Page!PageInv'
  <1> SUFFICES ASSUME Page!PageInv, [Page!Next]_feedVars PROVE Page!PageInv'
    OBVIOUS
  <1>0. CacheHalf /\ PageHalf
    BY PageHalves
  <1>1. CASE UNCHANGED feedVars
    <2>1. /\ v1' = v1 /\ v2' = v2 /\ v3' = v3 /\ v5' = v5 /\ v9' = v9 /\ v10' = v10
          /\ v11' = v11 /\ v12' = v12
      BY <1>1 DEF feedVars
    <2> QED
      BY <2>1 DEF Page!PageInv, Page!FlagHasThread, Page!VersionsInv, Page!NoStuckButton
  <1>2. CASE /\ Page!RefreshThread \/ Page!Schedule \/ Page!Tick \/ Page!Die \/ Page!Boot
             /\ UNCHANGED Page!pageVars
    <2>1. v11' = v11 /\ v12' = v12
      BY <1>2 DEF Page!pageVars
    <2>2. CacheHalf'
      BY <1>0, <1>2, CacheSteps
    <2>3. PageHalf'
      BY <1>0, <2>1 DEF PageHalf, Page!NoStuckButton
    <2> QED
      BY <2>2, <2>3 DEF Page!PageInv, CacheHalf, PageHalf, Held, Filed, RefreshSteps
  <1>3. CASE Page!Load
    BY <1>3, PageLoads
  <1>4. CASE Page!Fire \/ Page!Click
    BY <1>4, ScriptSteps
  <1>5. ASSUME NEW i \in DOMAIN v12,
               \/ Page!HandlePoll(i) \/ Page!HandlePost(i)
               \/ Page!PollAnswer(i) \/ Page!Reload(i) \/ Page!PostAnswer(i) \/ Page!RequestFails(i)
        PROVE  Page!PageInv'
    <2>1. CASE Page!HandlePoll(i) \/ Page!HandlePost(i)
      BY <2>1, HandleStep
    <2>2. CASE Page!PollAnswer(i) \/ Page!PostAnswer(i) \/ Page!RequestFails(i)
      BY <2>2, ScriptSteps
    <2>3. CASE Page!Reload(i)
      BY <2>3, PageLoads DEF Page!Reload
    <2> QED
      BY <1>5, <2>1, <2>2, <2>3
  <1> QED
    BY <1>1, <1>2, <1>3, <1>4, <1>5 DEF Page!Next

LEMMA PageInit == Page!Init => Page!PageInv
  <1> SUFFICES ASSUME Page!Init PROVE Page!PageInv
    OBVIOUS
  <1>1. CacheHalf
    BY CacheInitially DEF Page!Init
  <1>2. v11 = Page!Rendered(Page!Read) /\ v12 = Page!FirstRequests(Page!Read)
    BY DEF Page!Init, Page!PageInit
  <1>3. v3 \in Held /\ v5 \in BOOLEAN
    BY <1>1 DEF CacheHalf
  <1>4. PageHalf
    BY <1>2, <1>3, RenderedIs DEF PageHalf, Page!NoStuckButton
  <1> QED
    BY <1>1, <1>4, PageHalves

-----------------------------------------------------------------------------
(* The fetch of the feed: its state is v1 to v5.                            *)

fetchVars == <<v1, v2, v3, v4, v5>>
From(r, page) == v1[r] - (page - 1) * PageSize      \* the newest number of a page

\* The pages lie one below the other.
LEMMA NextPage ==
  ASSUME NEW t \in Nat, NEW page \in Nat
  PROVE  t - ((page + 1) - 1) * PageSize = (t - (page - 1) * PageSize) - PageSize
  <1>1. PageSize \in Nat
    BY FeedsAssumption
  <1>2. (page + 1) - 1 = (page - 1) + 1 /\ page - 1 \in Int
    OBVIOUS
  <1>3. \A a \in Int, b \in Nat : (a + 1) * b = a * b + b /\ a * b \in Int
    OBVIOUS
  <1> DEFINE a == page - 1
             m == a * PageSize
  <1>4. (a + 1) * PageSize = m + PageSize /\ m \in Int
    BY <1>1, <1>2, <1>3
  <1>5. ((page + 1) - 1) * PageSize = m + PageSize
    BY <1>2, <1>4
  <1> HIDE DEF m
  <1>6. t - (m + PageSize) = (t - m) - PageSize
    BY <1>1, <1>4
  <1> QED
    BY <1>5, <1>6 DEF m

\* What GitHub answers for a page.
LEMMA PageIs ==
  ASSUME NEW r \in Fetching!Kinds, NEW page \in Nat, v1[r] \in Nat
  PROVE  /\ Len(Fetching!PageOf(r, page)) \in Nat
         /\ Fetching!Range1(Fetching!PageOf(r, page)) =
              {n \in Nat \ {0} : n <= From(r, page) /\ n > From(r, page) - PageSize}
         /\ Len(Fetching!PageOf(r, page)) # PageSize => From(r, page) < PageSize
  <1> DEFINE newest == From(r, page)
             count == IF newest <= 0 THEN 0 ELSE IF newest < PageSize THEN newest ELSE PageSize
             list == [i \in 1..count |-> newest - i + 1]
  <1>1. PageSize \in Nat \ {0} /\ newest \in Int
    <2>1. PageSize \in Nat \ {0} /\ page - 1 \in Int
      BY FeedsAssumption
    <2>2. \A a \in Int, b \in Nat : a * b \in Int
      OBVIOUS
    <2>3. (page - 1) * PageSize \in Int
      BY <2>1, <2>2
    <2> QED
      BY <2>1, <2>3 DEF From
  <1>2. Fetching!PageOf(r, page) = list
    BY DEF Fetching!PageOf, From
  <1> HIDE DEF newest
  <1>3. count \in Nat /\ (count # PageSize => newest < PageSize)
    BY <1>1
  <1>4. \A n \in Nat \ {0} : (n <= newest /\ n > newest - PageSize) <=> (n > newest - count /\ n <= newest)
    BY <1>1
  <1>5. count <= newest \/ count = 0
    BY <1>1
  <1> HIDE DEF count
  <1>6. DOMAIN list = 1..count /\ \A i \in 1..count : list[i] = newest - i + 1
    OBVIOUS
  <1>7. Len(list) = count
    <2>1. list \in [1..count -> Int]
      BY <1>1, <1>3
    <2>2. list \in Seq(Int)
      BY <1>3, <2>1
    <2> QED
      BY <1>3, <1>6, <2>2
  <1>8. Fetching!Range1(list) = {n \in Nat \ {0} : n <= newest /\ n > newest - count}
    <2>1. ASSUME NEW i \in 1..count
          PROVE  list[i] \in Nat \ {0} /\ list[i] <= newest /\ list[i] > newest - count
      BY <1>1, <1>3, <1>5, <1>6
    <2>2. ASSUME NEW n \in Nat \ {0}, n <= newest, n > newest - count
          PROVE  \E i \in 1..count : list[i] = n
      <3>1. newest - n + 1 \in 1..count /\ newest - (newest - n + 1) + 1 = n
        BY <1>1, <1>3, <2>2
      <3> QED
        BY <1>6, <3>1
    <2> HIDE DEF list
    <2> QED
      BY <1>6, <2>1, <2>2 DEF Fetching!Range1
  <1>9. Fetching!Range1(list) = {n \in Nat \ {0} : n <= newest /\ n > newest - PageSize}
    BY <1>4, <1>8
  <1> HIDE DEF list
  <1> QED
    BY <1>2, <1>3, <1>7, <1>9 DEF newest

\* A page answered by 304 and one answered by 200 come to the same.
LEMMA ResponseIs ==
  ASSUME NEW r, NEW page, NEW cached, Fetching!IsPage(r, cached),
         NEW response, response = Fetching!Response(r, page, cached)
  PROVE  /\ Fetching!IsPage(r, response)
         /\ response.items = Fetching!Projected(r, Fetching!PageOf(r, page))
         /\ response.more <=> Len(Fetching!PageOf(r, page)) = PageSize
  <1> DEFINE list == Fetching!PageOf(r, page)
             new == [etag |-> list, items |-> Fetching!Projected(r, list),
                     more |-> Len(list) = PageSize]
  <1> HIDE DEF list
  <1>1. CASE cached.etag = list /\ cached.etag # <<>>
    <2>1. response = cached
      BY <1>1 DEF Fetching!Response, Fetching!RunApi, list
    <2> QED
      BY <1>1, <2>1 DEF Fetching!IsPage, list
  <1>2. CASE ~(cached.etag = list /\ cached.etag # <<>>)
    <2>1. Fetching!RunApi(r, page, cached.etag) = [status |-> 200, payload |-> list]
      BY <1>2 DEF Fetching!RunApi, list
    <2>2. response = new
      BY <2>1 DEF Fetching!Response
    <2>3. /\ new.etag = list /\ new.items = Fetching!Projected(r, list)
          /\ new.more <=> Len(list) = PageSize
      OBVIOUS
    <2> HIDE DEF new
    <2> QED
      BY <2>2, <2>3 DEF Fetching!IsPage, list
  <1> QED
    BY <1>1, <1>2

\* What is wanted of a page is in what is projected of it.
LEMMA ProjectedHas ==
  ASSUME NEW r, NEW list, NEW n \in Fetching!Range1(list), Fetching!Wanted(r, n)
  PROVE  Fetching!BagIn(n, Fetching!Projected(r, list))
  BY DEF Fetching!Wanted, Fetching!Projected, Fetching!BagIn, Fetching!BagToSet, Fetching!SetToBag

LEMMA UnionHas ==
  ASSUME NEW n, NEW b, NEW c
  PROVE  Fetching!BagIn(n, Fetching!(+)(b, c)) <=> (Fetching!BagIn(n, b) \/ Fetching!BagIn(n, c))
  BY DEF Fetching!BagIn, Fetching!BagToSet, Fetching!(+)

LEMMA FetchKinds ==
  /\ Fetching!Kinds = {"issues", "milestones"} /\ Len(Fetching!Resources) = 2
  /\ Fetching!Resources[1] = "issues" /\ Fetching!Resources[2] = "milestones"
  /\ \A k \in 1..2 : Fetching!Resources[k] \in Fetching!Kinds
  <1>1. /\ Len(Fetching!Resources) = 2 /\ DOMAIN Fetching!Resources = {1, 2}
        /\ Fetching!Resources[1] = "issues" /\ Fetching!Resources[2] = "milestones"
    BY DEF Fetching!Resources
  <1>2. Fetching!Kinds = {"issues", "milestones"}
    BY <1>1 DEF Fetching!Kinds, Fetching!Range1
  <1> QED
    BY <1>1, <1>2

\* The fetch as a record of its own fields.
FetchIs(resource, page, pages, items) ==
  [resource |-> resource, page |-> page, pages |-> pages, items |-> items]

LEMMA NoFetchIs ==
  \E items : Fetching!NoFetch = FetchIs(0, 0, Fetching!NoPages, [r \in Fetching!Kinds |-> items])
             /\ DOMAIN Fetching!NoPages = {}
  BY DEF Fetching!NoFetch, Fetching!NoPages, FetchIs

LEMMA FetchInit == Fetching!Init => Fetching!FetchInv
  <1> SUFFICES ASSUME Fetching!Init PROVE Fetching!FetchInv
    OBVIOUS
  <1>1. /\ v1 \in [Fetching!Kinds -> {0, 1}] /\ v2 = Fetching!NoPages /\ v3 = Fetching!NoFetch
        /\ v5 = [r \in Fetching!Kinds |-> 0]
    BY DEF Fetching!Init
  <1>2. PICK items : v3 = FetchIs(0, 0, Fetching!NoPages, [r \in Fetching!Kinds |-> items])
                     /\ DOMAIN Fetching!NoPages = {}
    BY <1>1, NoFetchIs
  <1>3. /\ v3.resource = 0 /\ v3.page = 0 /\ v3.pages = Fetching!NoPages
        /\ v3.items = [r \in Fetching!Kinds |-> items]
    BY <1>2 DEF FetchIs
  <1>4. v3 = FetchIs(v3.resource, v3.page, v3.pages, [r \in Fetching!Kinds |-> v3.items[r]])
    <2>1. [r \in Fetching!Kinds |-> v3.items[r]] = v3.items
      BY <1>3
    <2> QED
      BY <1>2, <1>3, <2>1
  <1>5. \A r \in Fetching!Kinds : v5[r] = 0 /\ v1[r] \in Nat
    BY <1>1
  <1>6. v1 \in [Fetching!Kinds -> Nat] /\ v5 \in [Fetching!Kinds -> Nat]
    BY <1>1
  <1>7. Fetching!NothingIsLost
    BY <1>5 DEF Fetching!NothingIsLost
  <1> QED
    BY <1>1, <1>2, <1>3, <1>4, <1>5, <1>6, <1>7, FetchKinds
       DEF Fetching!FetchInv, Fetching!SoFarNothingIsLost, FetchIs

\* One page: what it adds reaches down from where the pages before it ended.
LEMMA FetchPageStep == ASSUME Fetching!FetchInv, Fetching!FetchPage PROVE Fetching!FetchInv'
  <1> DEFINE k == v3.resource
             r == Fetching!Resources[k]
             page == v3.page
             endpoint == <<r, page>>
             response == Fetching!Response(r, page, Fetching!Cached(endpoint))
             pages == [e \in DOMAIN v3.pages \cup {endpoint} |->
                         IF e = endpoint THEN response ELSE v3.pages[e]]
             items == [v3.items EXCEPT ![r] = Fetching!(+)(v3.items[r], response.items)]
             kinds == Fetching!Kinds
  <1>0. /\ v1 \in [kinds -> Nat] /\ v5 \in [kinds -> Nat]
        /\ \A x \in kinds : v5[x] <= v1[x]
        /\ v3 = FetchIs(k, page, v3.pages, [x \in kinds |-> v3.items[x]])
        /\ k \in 1..2 /\ page \in Nat /\ r \in kinds
        /\ \A e \in DOMAIN v2 : Fetching!IsPage(e[1], v2[e])
        /\ \A e \in DOMAIN v3.pages : Fetching!IsPage(e[1], v3.pages[e])
    BY FetchKinds DEF Fetching!FetchInv, Fetching!FetchPage, FetchIs
  <1>1. \A j \in 1..2 : \A n \in 1..v5[Fetching!Resources[j]] :
          (j < k \/ (j = k /\ n > From(r, page)))
          => (Fetching!Wanted(Fetching!Resources[j], n) =>
                Fetching!BagIn(n, v3.items[Fetching!Resources[j]]))
    BY <1>0, FetchKinds DEF Fetching!FetchInv, Fetching!SoFarNothingIsLost, From
  <1>2. \/ /\ response.more
           /\ v3' = [v3 EXCEPT !.page = @ + 1, !.pages = pages, !.items = items]
           /\ v2' = v2 /\ v4' = v4
        \/ /\ ~response.more /\ k < 2
           /\ v3' = FetchIs(k + 1, 1, pages, items)
           /\ v2' = v2 /\ v4' = v4
        \/ /\ ~response.more /\ k = 2 /\ v3' = Fetching!NoFetch /\ v2' = pages /\ v4' = items
    BY FetchKinds DEF Fetching!FetchPage, FetchIs
  <1>3. v1' = v1 /\ v5' = v5
    BY DEF Fetching!FetchPage
  <1>4. Fetching!IsPage(r, Fetching!Cached(endpoint))
    <2>1. CASE endpoint \in DOMAIN v2
      <3>1. endpoint[1] = r
        OBVIOUS
      <3> QED
        BY <1>0, <2>1, <3>1 DEF Fetching!Cached
    <2>2. CASE endpoint \notin DOMAIN v2
      <3>1. PageSize # 0 /\ Fetching!Range1(<<>>) = {}
        BY FeedsAssumption DEF Fetching!Range1
      <3>2. Fetching!Projected(r, <<>>) = Fetching!EmptyBag
        BY <3>1 DEF Fetching!Projected, Fetching!EmptyBag
      <3> QED
        BY <2>2, <3>1, <3>2 DEF Fetching!Cached, Fetching!IsPage
    <2> QED
      BY <2>1, <2>2
  <1>5. /\ Fetching!IsPage(r, response)
        /\ response.items = Fetching!Projected(r, Fetching!PageOf(r, page))
        /\ response.more <=> Len(Fetching!PageOf(r, page)) = PageSize
    BY <1>4, ResponseIs
  <1>6. /\ Fetching!Range1(Fetching!PageOf(r, page)) =
             {n \in Nat \ {0} : n <= From(r, page) /\ n > From(r, page) - PageSize}
        /\ ~response.more => From(r, page) < PageSize
    BY <1>0, <1>5, PageIs
  <1> HIDE DEF response
  <1>7. /\ DOMAIN items = kinds
        /\ \A x \in kinds : \A n :
             Fetching!BagIn(n, items[x]) <=>
               (Fetching!BagIn(n, v3.items[x]) \/ (x = r /\ Fetching!BagIn(n, response.items)))
    <2>1. v3.items = [x \in kinds |-> v3.items[x]]
      BY <1>0 DEF FetchIs
    <2> HIDE DEF r
    <2>2. items[r] = Fetching!(+)(v3.items[r], response.items) /\ DOMAIN items = kinds
          /\ \A x \in kinds \ {r} : items[x] = v3.items[x]
      BY <1>0, <2>1
    <2> HIDE DEF items
    <2> QED
      BY <1>0, <2>2, UnionHas
  <1>8. \A e \in DOMAIN pages : Fetching!IsPage(e[1], pages[e])
    <2> SUFFICES ASSUME NEW e \in DOMAIN v3.pages \cup {endpoint}
                 PROVE  Fetching!IsPage(e[1], pages[e])
      OBVIOUS
    <2>1. CASE e = endpoint
      <3>1. e[1] = r /\ pages[e] = response
        BY <2>1
      <3> QED
        BY <1>5, <3>1
    <2>2. CASE e # endpoint
      BY <1>0, <2>2
    <2> QED
      BY <2>1, <2>2
  <1> HIDE DEF pages, items
  <1>9. \A j \in 1..2 : \A n \in 1..v5[Fetching!Resources[j]] :
          (j < k \/ (j = k /\ (~response.more \/ n > From(r, page) - PageSize)))
          => (Fetching!Wanted(Fetching!Resources[j], n) =>
                Fetching!BagIn(n, items[Fetching!Resources[j]]))
    <2> SUFFICES ASSUME NEW j \in 1..2, NEW n \in 1..v5[Fetching!Resources[j]],
                        Fetching!Wanted(Fetching!Resources[j], n),
                        j < k \/ (j = k /\ (~response.more \/ n > From(r, page) - PageSize))
                 PROVE  Fetching!BagIn(n, items[Fetching!Resources[j]])
      OBVIOUS
    <2>0. Fetching!Resources[j] \in kinds
      BY FetchKinds
    <2>1. CASE j < k \/ (j = k /\ n > From(r, page))
      BY <1>1, <1>7, <2>0, <2>1
    <2>2. CASE j = k /\ ~(n > From(r, page))
      <3>1. n \in Nat \ {0} /\ v5[r] \in Nat
        BY <1>0, <2>0, <2>2
      <3>2. From(r, page) \in Int /\ PageSize \in Nat
        <4>1. PageSize \in Nat /\ page - 1 \in Int /\ v1[r] \in Nat
          BY <1>0, FeedsAssumption
        <4>2. \A a \in Int, b \in Nat : a * b \in Int
          OBVIOUS
        <4>3. (page - 1) * PageSize \in Int
          BY <4>1, <4>2
        <4> QED
          BY <4>1, <4>3 DEF From
      <3>3. n <= From(r, page) /\ n > From(r, page) - PageSize
        BY <1>6, <2>2, <3>1, <3>2
      <3>4. n \in Fetching!Range1(Fetching!PageOf(r, page))
        BY <1>6, <3>1, <3>3
      <3>5. Fetching!BagIn(n, response.items)
        BY <1>5, <2>2, <3>4, ProjectedHas
      <3> QED
        BY <1>7, <2>0, <2>2, <3>5
    <2> QED
      BY <2>1, <2>2
  <1>10. CASE response.more /\ v3' = [v3 EXCEPT !.page = @ + 1, !.pages = pages, !.items = items]
              /\ v2' = v2 /\ v4' = v4
    <2>1. v3' = FetchIs(k, page + 1, pages, items)
      BY <1>0, <1>10 DEF FetchIs
    <2>2. /\ v3'.resource = k /\ v3'.page = page + 1 /\ v3'.pages = pages /\ v3'.items = items
      BY <2>1 DEF FetchIs
    <2>3. v1[r] - (v3'.page - 1) * PageSize = From(r, page) - PageSize
      BY <1>0, <2>2, NextPage DEF From
    <2>4. Fetching!SoFarNothingIsLost'
      <3> SUFFICES ASSUME NEW j \in 1..2, NEW n \in 1..v5[Fetching!Resources[j]],
                          j < k \/ (j = k /\ n > v1[Fetching!Resources[j]] - (v3'.page - 1) * PageSize),
                          Fetching!Wanted(Fetching!Resources[j], n)
                   PROVE  Fetching!BagIn(n, items[Fetching!Resources[j]])
        BY <1>3, <2>2, FetchKinds DEF Fetching!SoFarNothingIsLost
      <3> QED
        BY <1>9, <2>3
    <2>5. Fetching!NothingIsLost'
      BY <1>0, <2>2 DEF Fetching!NothingIsLost
    <2>6. items = [x \in kinds |-> items[x]]
      BY <1>7 DEF items
    <2>7. page + 1 \in Nat
      BY <1>0
    <2> QED
      BY <1>0, <1>3, <1>8, <1>10, <2>1, <2>2, <2>4, <2>5, <2>6, <2>7, FetchKinds
         DEF Fetching!FetchInv, FetchIs
  <1>11. CASE ~response.more /\ k < 2 /\ v3' = FetchIs(k + 1, 1, pages, items)
              /\ v2' = v2 /\ v4' = v4
    <2>2. /\ v3'.resource = k + 1 /\ v3'.page = 1 /\ v3'.pages = pages /\ v3'.items = items
      BY <1>11 DEF FetchIs
    <2>4. Fetching!SoFarNothingIsLost'
      <3> SUFFICES ASSUME NEW j \in 1..2, NEW n \in 1..v5[Fetching!Resources[j]],
                          j < k + 1 \/ (j = k + 1 /\ n > v1[Fetching!Resources[j]] - (1 - 1) * PageSize),
                          Fetching!Wanted(Fetching!Resources[j], n)
                   PROVE  Fetching!BagIn(n, items[Fetching!Resources[j]])
        BY <1>3, <2>2, FetchKinds DEF Fetching!SoFarNothingIsLost
      <3>1. j < k \/ j = k
        <4>1. Fetching!Resources[j] \in kinds /\ (1 - 1) * PageSize = 0
          BY FetchKinds, FeedsAssumption
        <4>2. v5[Fetching!Resources[j]] <= v1[Fetching!Resources[j]]
              /\ v1[Fetching!Resources[j]] \in Nat /\ v5[Fetching!Resources[j]] \in Nat
          BY <1>0, <4>1
        <4> QED
          BY <1>0, <4>1, <4>2
      <3> QED
        BY <1>9, <1>11, <3>1
    <2>5. Fetching!NothingIsLost'
      BY <1>0, <2>2 DEF Fetching!NothingIsLost
    <2>6. items = [x \in kinds |-> items[x]]
      BY <1>7 DEF items
    <2>7. k + 1 \in 0..2
      BY <1>0, <1>11
    <2> QED
      BY <1>0, <1>3, <1>8, <1>11, <2>2, <2>4, <2>5, <2>6, <2>7, FetchKinds
         DEF Fetching!FetchInv, FetchIs
  <1>12. CASE ~response.more /\ k = 2 /\ v3' = Fetching!NoFetch /\ v2' = pages /\ v4' = items
    <2>1. PICK none : v3' = FetchIs(0, 0, Fetching!NoPages, [x \in kinds |-> none])
                      /\ DOMAIN Fetching!NoPages = {}
      BY <1>12, NoFetchIs
    <2>2. /\ v3'.resource = 0 /\ v3'.page = 0 /\ v3'.pages = Fetching!NoPages
          /\ v3'.items = [x \in kinds |-> none]
      BY <2>1 DEF FetchIs
    <2>3. v3'.items = [x \in kinds |-> v3'.items[x]]
      BY <2>2
    <2>4. Fetching!NothingIsLost'
      <3> SUFFICES ASSUME NEW x \in kinds, NEW n \in 1..v5[x], Fetching!Wanted(x, n)
                   PROVE  Fetching!BagIn(n, items[x])
        BY <1>3, <1>12 DEF Fetching!NothingIsLost
      <3>1. PICK j \in 1..2 : x = Fetching!Resources[j]
        BY FetchKinds
      <3>2. j < k \/ j = k
        BY <1>12
      <3> QED
        BY <1>9, <1>12, <3>1, <3>2
    <2>5. Fetching!SoFarNothingIsLost'
      BY <2>2 DEF Fetching!SoFarNothingIsLost
    <2> QED
      BY <1>0, <1>3, <1>8, <1>12, <2>1, <2>2, <2>3, <2>4, <2>5, FetchKinds
         DEF Fetching!FetchInv, FetchIs
  <1> QED
    BY <1>2, <1>10, <1>11, <1>12

LEMMA FetchStep == Fetching!FetchInv /\ [Fetching!Next]_fetchVars => Fetching!FetchInv'
  <1> SUFFICES ASSUME Fetching!FetchInv, [Fetching!Next]_fetchVars PROVE Fetching!FetchInv'
    OBVIOUS
  <1>0. /\ v1 \in [Fetching!Kinds -> Nat] /\ v5 \in [Fetching!Kinds -> Nat]
        /\ \A r \in Fetching!Kinds : v5[r] <= v1[r]
        /\ \A e \in DOMAIN v2 : Fetching!IsPage(e[1], v2[e])
    BY DEF Fetching!FetchInv
  <1>1. CASE UNCHANGED fetchVars
    BY <1>1 DEF fetchVars, Fetching!FetchInv, Fetching!SoFarNothingIsLost, Fetching!NothingIsLost
  <1>2. CASE Fetching!Begin
    <2>0. v1' = v1 /\ v2' = v2 /\ v5' = v1 /\ v3' = [Fetching!NoFetch EXCEPT !.resource = 1, !.page = 1]
      BY <1>2 DEF Fetching!Begin
    <2>1. PICK none : Fetching!NoFetch = FetchIs(0, 0, Fetching!NoPages, [x \in Fetching!Kinds |-> none])
                      /\ DOMAIN Fetching!NoPages = {}
      BY NoFetchIs
    <2>2. v3' = FetchIs(1, 1, Fetching!NoPages, [x \in Fetching!Kinds |-> none])
      BY <2>0, <2>1 DEF FetchIs
    <2>3. /\ v3'.resource = 1 /\ v3'.page = 1 /\ v3'.pages = Fetching!NoPages
          /\ v3'.items = [x \in Fetching!Kinds |-> none]
      BY <2>2 DEF FetchIs
    <2>4. v3'.items = [x \in Fetching!Kinds |-> v3'.items[x]]
      BY <2>3
    <2>5. Fetching!SoFarNothingIsLost'
      <3> SUFFICES ASSUME NEW j \in 1..2, NEW n \in 1..v1[Fetching!Resources[j]],
                          j < 1 \/ (j = 1 /\ n > v1[Fetching!Resources[j]] - (1 - 1) * PageSize)
                   PROVE  FALSE
        BY <2>0, <2>3, FetchKinds DEF Fetching!SoFarNothingIsLost
      <3>1. (1 - 1) * PageSize = 0 /\ v1[Fetching!Resources[j]] \in Nat
        BY <1>0, FetchKinds, FeedsAssumption
      <3> QED
        BY <3>1
    <2>6. Fetching!NothingIsLost'
      BY <2>3 DEF Fetching!NothingIsLost
    <2>7. \A r \in Fetching!Kinds : v1[r] <= v1[r]
      BY <1>0
    <2>8. \A e \in DOMAIN v3'.pages : Fetching!IsPage(e[1], v3'.pages[e])
      BY <2>1, <2>3
    <2>9. v3' = FetchIs(v3'.resource, v3'.page, v3'.pages, [x \in Fetching!Kinds |-> v3'.items[x]])
      BY <2>2, <2>3, <2>4
    <2>10. \A e \in DOMAIN v2' : Fetching!IsPage(e[1], v2'[e])
      BY <1>0, <2>0
    <2> QED
      BY <1>0, <2>0, <2>3, <2>5, <2>6, <2>7, <2>8, <2>9, <2>10, FetchKinds DEF Fetching!FetchInv, FetchIs
  <1>3. CASE Fetching!FetchPage
    BY <1>3, FetchPageStep
  <1>4. CASE Fetching!Raise
    <2>0. v1' = v1 /\ v2' = v2 /\ v3' = Fetching!NoFetch /\ v5' = [r \in Fetching!Kinds |-> 0]
      BY <1>4 DEF Fetching!Raise
    <2>1. PICK none : v3' = FetchIs(0, 0, Fetching!NoPages, [x \in Fetching!Kinds |-> none])
                      /\ DOMAIN Fetching!NoPages = {}
      BY <2>0, NoFetchIs
    <2>2. /\ v3'.resource = 0 /\ v3'.page = 0 /\ v3'.pages = Fetching!NoPages
          /\ v3'.items = [x \in Fetching!Kinds |-> none]
      BY <2>1 DEF FetchIs
    <2>3. v3'.items = [x \in Fetching!Kinds |-> v3'.items[x]]
      BY <2>2
    <2>4. \A r \in Fetching!Kinds : v5'[r] = 0 /\ 0 <= v1[r]
      BY <1>0, <2>0
    <2>5. Fetching!NothingIsLost' /\ Fetching!SoFarNothingIsLost'
      BY <2>2, <2>4 DEF Fetching!NothingIsLost, Fetching!SoFarNothingIsLost
    <2>6. v5' \in [Fetching!Kinds -> Nat]
      BY <2>0
    <2> QED
      BY <1>0, <2>0, <2>1, <2>2, <2>3, <2>4, <2>5, <2>6, FetchKinds DEF Fetching!FetchInv, FetchIs
  <1>5. ASSUME NEW r \in Fetching!Kinds, Fetching!GitHubAdds(r) PROVE Fetching!FetchInv'
    <2>0. v1' = [v1 EXCEPT ![r] = v1[r] + 1] /\ v2' = v2 /\ v3' = v3 /\ v4' = v4 /\ v5' = v5
      BY <1>0, <1>5 DEF Fetching!GitHubAdds
    <2>1. v1' \in [Fetching!Kinds -> Nat] /\ \A x \in Fetching!Kinds : v1'[x] >= v1[x]
      BY <1>0, <2>0
    <2>2. \A x \in Fetching!Kinds : v5[x] <= v1'[x]
      BY <1>0, <2>1
    <2>3. Fetching!NothingIsLost'
      BY <2>0 DEF Fetching!FetchInv, Fetching!NothingIsLost
    <2>4. Fetching!SoFarNothingIsLost'
      <3> DEFINE m == (v3.page - 1) * PageSize
      <3> SUFFICES ASSUME v3.resource # 0, NEW j \in 1..2, NEW n \in 1..v5[Fetching!Resources[j]],
                          j < v3.resource \/ (j = v3.resource /\ n > v1'[Fetching!Resources[j]] - m),
                          Fetching!Wanted(Fetching!Resources[j], n)
                   PROVE  Fetching!BagIn(n, v3.items[Fetching!Resources[j]])
        BY <2>0, FetchKinds DEF Fetching!SoFarNothingIsLost
      <3>1. m \in Int
        <4>1. PageSize \in Nat /\ v3.page - 1 \in Int
          BY FeedsAssumption DEF Fetching!FetchInv
        <4>2. \A a \in Int, b \in Nat : a * b \in Int
          OBVIOUS
        <4> QED
          BY <4>1, <4>2
      <3>2. \A a \in 1..2 : \A b \in 1..v5[Fetching!Resources[a]] :
              (a < v3.resource \/ (a = v3.resource /\ b > v1[Fetching!Resources[a]] - m))
              => (Fetching!Wanted(Fetching!Resources[a], b) =>
                    Fetching!BagIn(b, v3.items[Fetching!Resources[a]]))
        BY FetchKinds DEF Fetching!FetchInv, Fetching!SoFarNothingIsLost
      <3> HIDE DEF m
      <3>3. Fetching!Resources[j] \in Fetching!Kinds
        BY FetchKinds
      <3>4. n > v1'[Fetching!Resources[j]] - m => n > v1[Fetching!Resources[j]] - m
        <4>1. /\ v1'[Fetching!Resources[j]] \in Nat /\ v1[Fetching!Resources[j]] \in Nat
              /\ v1'[Fetching!Resources[j]] >= v1[Fetching!Resources[j]] /\ n \in Int
          BY <1>0, <2>1, <3>3
        <4> QED
          BY <3>1, <4>1
      <3> QED
        BY <3>2, <3>4
    <2> QED
      BY <1>0, <2>0, <2>1, <2>2, <2>3, <2>4 DEF Fetching!FetchInv
  <1> QED
    BY <1>1, <1>2, <1>3, <1>4, <1>5 DEF Fetching!Next

-----------------------------------------------------------------------------
(* The Goal cards: their state is v1.                                       *)

LEMMA GoalsCount == \A S : Goals!Cardinality(S) = Cardinality(S)
  BY DEF Cardinality, Goals!Cardinality

LEMMA Times ==
  ASSUME NEW a \in Nat, NEW b \in Nat, NEW w \in Nat, b < a
  PROVE  b * w + w <= a * w /\ b * w \in Nat /\ a * w \in Nat
  <1> DEFINE d == a - (b + 1)
  <1>1. d \in Nat /\ a = b + 1 + d
    OBVIOUS
  <1>2. \A x, y \in Nat : (x + y) * w = x * w + y * w /\ x * w \in Nat
    OBVIOUS
  <1>3. (b + 1 + d) * w = (b + 1) * w + d * w /\ (b + 1) * w = b * w + 1 * w /\ d * w \in Nat
    BY <1>1, <1>2
  <1>4. 1 * w = w /\ b * w \in Nat /\ a * w \in Nat
    BY <1>2
  <1> HIDE DEF d
  <1> QED
    BY <1>1, <1>3, <1>4

LEMMA Division ==
  ASSUME NEW n \in Nat, NEW w \in Nat \ {0}
  PROVE  /\ n \div w \in Nat /\ n % w \in Nat /\ n % w < w
         /\ n = (n \div w) * w + (n % w)
  OBVIOUS

\* More proof makes no smaller percent, halves to even and all.
LEMMA PercentGrows ==
  ASSUME NEW p \in Nat, NEW s \in Nat, p <= s, NEW w \in Nat \ {0}
  PROVE  Goals!Percent(p, w) <= Goals!Percent(s, w)
  <1> DEFINE q == (100 * p) \div w
             r == (100 * p) % w
             t == (100 * s) \div w
             u == (100 * s) % w
  <1>1. /\ q \in Nat /\ r \in Nat /\ r < w /\ 100 * p = q * w + r
        /\ t \in Nat /\ u \in Nat /\ u < w /\ 100 * s = t * w + u
        /\ 100 * p <= 100 * s
    BY Division
  <1>2. /\ Goals!Percent(p, w) = IF 2 * r > w \/ (2 * r = w /\ q % 2 = 1) THEN q + 1 ELSE q
        /\ Goals!Percent(s, w) = IF 2 * u > w \/ (2 * u = w /\ t % 2 = 1) THEN t + 1 ELSE t
    BY DEF Goals!Percent
  <1> HIDE DEF q, r, t, u
  <1>3. q <= t
    <2> SUFFICES ASSUME t < q PROVE FALSE
      BY <1>1
    <2>1. t * w + w <= q * w /\ t * w \in Nat /\ q * w \in Nat
      BY <1>1, Times
    <2> DEFINE a == t * w
               b == q * w
               c == 100 * p
               d == 100 * s
    <2>2. /\ a + w <= b /\ a \in Nat /\ b \in Nat /\ c = b + r /\ d = a + u /\ c <= d
          /\ u < w /\ u \in Nat /\ r \in Nat /\ w \in Nat
      BY <1>1, <2>1
    <2> HIDE DEF a, b, c, d
    <2> QED
      BY <2>2
  <1>4. CASE q < t
    BY <1>1, <1>2, <1>4
  <1>5. CASE q = t
    <2> DEFINE a == q * w
               c == 100 * p
               d == 100 * s
    <2>1. c = a + r /\ d = a + u /\ c <= d /\ a \in Nat
      <3>1. \A x, y \in Nat : x * y \in Nat
        OBVIOUS
      <3> QED
        BY <1>1, <1>5, <3>1
    <2> HIDE DEF a, c, d
    <2>2. r <= u
      BY <1>1, <2>1
    <2> QED
      BY <1>1, <1>2, <1>5, <2>2
  <1> QED
    BY <1>1, <1>3, <1>4, <1>5

LEMMA PercentIsNat ==
  ASSUME NEW p \in Nat, NEW w \in Nat \ {0}
  PROVE  Goals!Percent(p, w) \in Nat
  BY Division DEF Goals!Percent

\* An issue as the assumption has it.
LEMMA GoalIssues ==
  ASSUME Goals!GoalsInv
  PROVE  /\ IsFiniteSet(DOMAIN v1)
         /\ \A n \in DOMAIN v1 : IsGoalRecord(v1[n])
  BY GoalAssumption DEF Goals!GoalsInv

\* What a function makes of a finite set is finite.
LEMMA FiniteImage ==
  ASSUME NEW f, IsFiniteSet(DOMAIN f)
  PROVE  IsFiniteSet({f[x] : x \in DOMAIN f})
  <1> DEFINE T == {f[x] : x \in DOMAIN f}
             g == [x \in DOMAIN f |-> f[x]]
  <1>1. g \in Surjection(DOMAIN f, T)
    BY DEF Surjection
  <1> QED
    BY <1>1, FS_Surjection

LEMMA ClaimsAreFinite ==
  ASSUME NEW issues, IsFiniteSet(DOMAIN issues),
         \A n \in DOMAIN issues : IsFiniteSet(issues[n].advances), NEW features \in SUBSET DOMAIN issues
  PROVE  IsFiniteSet(Goals!Claims(issues, features))
  <1> DEFINE Claimed(f) == {a.item : a \in issues[f].advances}
             All == {Claimed(f) : f \in features}
  <1>1. IsFiniteSet(features)
    BY FS_Subset
  <1>2. IsFiniteSet(All)
    <2> DEFINE h == [f \in features |-> Claimed(f)]
    <2>1. DOMAIN h = features /\ All = {h[f] : f \in DOMAIN h}
      OBVIOUS
    <2> HIDE DEF h
    <2> QED
      BY <1>1, <2>1, FiniteImage
  <1>3. ASSUME NEW f \in features PROVE IsFiniteSet(Claimed(f))
    <2> DEFINE h == [a \in issues[f].advances |-> a.item]
    <2>1. DOMAIN h = issues[f].advances /\ Claimed(f) = {h[a] : a \in DOMAIN h}
      OBVIOUS
    <2>2. IsFiniteSet(issues[f].advances)
      OBVIOUS
    <2> HIDE DEF h
    <2> QED
      BY <2>1, <2>2, FiniteImage
  <1>4. \A S \in All : IsFiniteSet(S)
    BY <1>3
  <1>5. IsFiniteSet(UNION All)
    BY <1>2, <1>4, FS_UNION
  <1> QED
    BY <1>5 DEF Goals!Claims

\* The percent of a Goal, without its card.
Proof(issues, g) ==
  Goals!WglCoverage(issues, Goals!GoodLooksLike(issues[g]), Goals!Features(issues, g)).percent

LEMMA PercentIs ==
  ASSUME NEW issues, NEW g \in DOMAIN issues, issues[g].kind = "Goal"
  PROVE  Goals!PercentOf(issues, g) = Proof(issues, g)
  <1>1. \A x : /\ Goals!Card(issues, x).number = x
               /\ Goals!Card(issues, x).percent = Proof(issues, x)
    BY DEF Goals!Card, Proof
  <1>2. Goals!Card(issues, g) \in Goals!GoalCards(issues)
    BY DEF Goals!GoalCards, Goals!Having
  <1>3. \A c \in Goals!GoalCards(issues) : c = Goals!Card(issues, c.number)
    BY <1>1 DEF Goals!GoalCards
  <1> DEFINE c == CHOOSE x \in Goals!GoalCards(issues) : x.number = g
  <1>4. c \in Goals!GoalCards(issues) /\ c.number = g
    BY <1>1, <1>2
  <1>5. c = Goals!Card(issues, g)
    BY <1>3, <1>4
  <1> QED
    BY <1>1, <1>5 DEF Goals!PercentOf

\* What an edit of boxes or of states leaves alone: all that links an issue to others, and
\* how many boxes there are.
Kin(issues, next) ==
  /\ DOMAIN next = DOMAIN issues
  /\ \A n \in DOMAIN issues :
       /\ next[n].kind = issues[n].kind /\ next[n].advances = issues[n].advances
       /\ next[n].parentGoal = issues[n].parentGoal
       /\ next[n].parentFeature = issues[n].parentFeature
       /\ DOMAIN next[n].wgl = DOMAIN issues[n].wgl
       /\ \A i \in DOMAIN issues[n].wgl : next[n].wgl[i] = "prose" <=> issues[n].wgl[i] = "prose"

LEMMA KinAreLinked ==
  ASSUME NEW issues, NEW next, Kin(issues, next), NEW g \in DOMAIN issues
  PROVE  /\ Goals!Features(next, g) = Goals!Features(issues, g)
         /\ Goals!Features(issues, g) \subseteq DOMAIN issues
         /\ \A f : Goals!Slices(next, f) = Goals!Slices(issues, f)
         /\ \A f : Goals!Slices(issues, f) \subseteq DOMAIN issues
         /\ \A features \in SUBSET DOMAIN issues :
              Goals!Claims(next, features) = Goals!Claims(issues, features)
         /\ Goals!GoodLooksLike(next[g]).total = Goals!GoodLooksLike(issues[g]).total
  <1>1. /\ Goals!Features(next, g) = Goals!Features(issues, g)
        /\ Goals!Features(issues, g) \subseteq DOMAIN issues
    BY DEF Kin, Goals!Features, Goals!Having
  <1>2. /\ \A f : Goals!Slices(next, f) = Goals!Slices(issues, f)
        /\ \A f : Goals!Slices(issues, f) \subseteq DOMAIN issues
    BY DEF Kin, Goals!Slices, Goals!Having
  <1>3. ASSUME NEW features \in SUBSET DOMAIN issues
        PROVE  Goals!Claims(next, features) = Goals!Claims(issues, features)
    <2>1. {{a.item : a \in next[f].advances} : f \in features}
            = {{a.item : a \in issues[f].advances} : f \in features}
      BY DEF Kin
    <2> QED
      BY <2>1 DEF Goals!Claims
  <1>4. {i \in DOMAIN next[g].wgl : next[g].wgl[i] # "prose"}
          = {i \in DOMAIN issues[g].wgl : issues[g].wgl[i] # "prose"}
    BY DEF Kin
  <1>5. Goals!GoodLooksLike(next[g]).total = Goals!GoodLooksLike(issues[g]).total
    BY <1>4 DEF Goals!GoodLooksLike
  <1> QED
    BY <1>1, <1>2, <1>3, <1>5

\* The Features of a Goal that are resolved, and its percent.
Resolved(issues, g) ==
  {f \in Goals!Features(issues, g) : Goals!FeatureResolved(issues, f)}

LEMMA ProofIs ==
  ASSUME NEW issues, NEW g
  PROVE  Proof(issues, g) =
           IF Goals!GoodLooksLike(issues[g]).total = 0 THEN 0
           ELSE Goals!Percent(Goals!Count(Goals!Claims(issues, Resolved(issues, g))),
                              Goals!GoodLooksLike(issues[g]).total)
  BY DEF Proof, Resolved, Goals!WglCoverage

LEMMA SameStatesSameProof ==
  ASSUME NEW issues, NEW next, Kin(issues, next), NEW g \in DOMAIN issues,
         \A n \in DOMAIN issues : next[n].state = issues[n].state
  PROVE  Proof(next, g) = Proof(issues, g)
  <1>1. Resolved(next, g) = Resolved(issues, g) /\ Resolved(issues, g) \in SUBSET DOMAIN issues
    <2>1. ASSUME NEW f \in Goals!Features(issues, g)
          PROVE  Goals!FeatureResolved(next, f) <=> Goals!FeatureResolved(issues, f)
      BY KinAreLinked DEF Goals!FeatureResolved
    <2> QED
      BY <2>1, KinAreLinked DEF Resolved
  <1> QED
    BY <1>1, KinAreLinked, ProofIs

\* The listed boxes of a Goal are counted.
LEMMA TotalIsNat ==
  ASSUME NEW issue, issue.wgl \in Seq(Lines)
  PROVE  Goals!GoodLooksLike(issue).total \in Nat
  <1> DEFINE listed == {i \in DOMAIN issue.wgl : issue.wgl[i] # "prose"}
  <1>1. Len(issue.wgl) \in Nat /\ DOMAIN issue.wgl = 1..Len(issue.wgl)
    OBVIOUS
  <1>2. IsFiniteSet(1..Len(issue.wgl))
    BY <1>1, FS_Interval
  <1>3. IsFiniteSet(listed)
    BY <1>1, <1>2, FS_Subset
  <1>4. Cardinality(listed) \in Nat
    BY <1>3, FS_CardinalityType
  <1>5. Goals!GoodLooksLike(issue).total = Goals!Cardinality(listed)
    BY DEF Goals!GoodLooksLike, Goals!Count
  <1> QED
    BY <1>4, <1>5, GoalsCount

LEMMA MoreClosedMoreProof ==
  ASSUME NEW issues, NEW next, Kin(issues, next), NEW g \in DOMAIN issues,
         IsFiniteSet(DOMAIN issues), \A n \in DOMAIN issues : IsGoalRecord(issues[n]),
         \A n \in DOMAIN issues :
           next[n].state = issues[n].state \/ next[n].state = "closed"
  PROVE  Proof(next, g) >= Proof(issues, g)
  <1> DEFINE total == Goals!GoodLooksLike(issues[g]).total
             before == Goals!Claims(issues, Resolved(issues, g))
             after == Goals!Claims(issues, Resolved(next, g))
  <1>1. /\ Resolved(issues, g) \subseteq Resolved(next, g)
        /\ Resolved(next, g) \subseteq DOMAIN issues
    <2>1. ASSUME NEW f \in Goals!Features(issues, g), Goals!FeatureResolved(issues, f)
          PROVE  Goals!FeatureResolved(next, f)
      <3>1. f \in DOMAIN issues /\ Goals!Slices(next, f) = Goals!Slices(issues, f)
            /\ Goals!Slices(issues, f) \subseteq DOMAIN issues
        BY KinAreLinked
      <3> QED
        BY <2>1, <3>1 DEF Goals!FeatureResolved
    <2> QED
      BY <2>1, KinAreLinked DEF Resolved
  <1>2. before \subseteq after
    BY <1>1 DEF Goals!Claims
  <1>3. IsFiniteSet(after)
    <2>1. \A n \in DOMAIN issues : IsFiniteSet(issues[n].advances)
      BY DEF IsGoalRecord
    <2> QED
      BY <1>1, <2>1, ClaimsAreFinite
  <1>4. Cardinality(before) \in Nat /\ Cardinality(after) \in Nat
        /\ Cardinality(before) <= Cardinality(after)
    <2>1. IsFiniteSet(before) /\ Cardinality(before) <= Cardinality(after)
      BY <1>2, <1>3, FS_Subset
    <2> QED
      BY <1>3, <2>1, FS_CardinalityType
  <1>5. total \in Nat
    BY TotalIsNat DEF IsGoalRecord
  <1>6. /\ Proof(issues, g) = IF total = 0 THEN 0 ELSE Goals!Percent(Cardinality(before), total)
        /\ Proof(next, g) = IF total = 0 THEN 0 ELSE Goals!Percent(Cardinality(after), total)
    <2>1. Goals!Claims(next, Resolved(next, g)) = after
          /\ Goals!GoodLooksLike(next[g]).total = total
      BY <1>1, KinAreLinked
    <2> QED
      BY <2>1, ProofIs, GoalsCount DEF Goals!Count
  <1> HIDE DEF total, before, after
  <1>7. CASE total = 0
    BY <1>6, <1>7
  <1>8. CASE total # 0
    <2>1. Goals!Percent(Cardinality(before), total) <= Goals!Percent(Cardinality(after), total)
      BY <1>4, <1>5, <1>8, PercentGrows
    <2>2. \A p \in Nat : Goals!Percent(p, total) \in Nat
      BY <1>5, <1>8, PercentIsNat
    <2> QED
      BY <1>4, <1>6, <1>8, <2>1, <2>2
  <1> QED
    BY <1>7, <1>8

LEMMA GoalsInit == Goals!Init => Goals!GoalsInv
  BY GoalAssumption DEF Goals!Init, Goals!GoalsInv

LEMMA GoalsStep == Goals!GoalsInv /\ [Goals!Next]_v1 => Goals!GoalsInv'
  BY DEF Goals!GoalsInv, Goals!Next, Goals!EditIssue

LEMMA TicksAreKin ==
  ASSUME Goals!GoalsInv, NEW n \in DOMAIN v1, Goals!Ticks(n)
  PROVE  Kin(v1, v1') /\ \A m \in DOMAIN v1 : v1'[m].state = v1[m].state
  <1> DEFINE issue == v1[n]
             boxes == issue.wgl
  <1>1. IsGoalRecord(issue)
    BY GoalIssues
  <1>2. PICK i \in DOMAIN boxes :
          /\ boxes[i] # "prose"
          /\ v1' = [v1 EXCEPT ![n].wgl[i] = IF @ = "ticked" THEN "unticked" ELSE "ticked"]
    BY DEF Goals!Ticks
  <1> DEFINE box == IF boxes[i] = "ticked" THEN "unticked" ELSE "ticked"
             ticked == [boxes EXCEPT ![i] = box]
             edited == [issue EXCEPT !.wgl = ticked]
  <1>3. v1' = [v1 EXCEPT ![n] = edited]
    BY <1>2
  <1>4. /\ DOMAIN ticked = DOMAIN boxes
        /\ \A j \in DOMAIN boxes : ticked[j] = "prose" <=> boxes[j] = "prose"
    BY <1>2
  <1>5. /\ edited.wgl = ticked /\ edited.kind = issue.kind /\ edited.state = issue.state
        /\ edited.advances = issue.advances /\ edited.parentGoal = issue.parentGoal
        /\ edited.parentFeature = issue.parentFeature
    <2> HIDE DEF ticked, issue
    <2> QED
      BY <1>1 DEF IsGoalRecord
  <1>6. /\ DOMAIN v1' = DOMAIN v1 /\ v1'[n] = edited
        /\ \A m \in DOMAIN v1 : m # n => v1'[m] = v1[m]
    <2> HIDE DEF edited
    <2> QED
      BY <1>3
  <1> HIDE DEF ticked, edited
  <1> QED
    BY <1>4, <1>5, <1>6 DEF Kin

LEMMA ClosesAreKin ==
  ASSUME Goals!GoalsInv, NEW n \in DOMAIN v1, Goals!Closes(n)
  PROVE  /\ Kin(v1, v1')
         /\ \A m \in DOMAIN v1 : v1'[m].state = v1[m].state \/ v1'[m].state = "closed"
  <1> DEFINE issue == v1[n]
             edited == [issue EXCEPT !.state = "closed"]
  <1>1. IsGoalRecord(issue)
    BY GoalIssues
  <1>2. v1' = [v1 EXCEPT ![n] = edited]
    BY DEF Goals!Closes
  <1>3. /\ edited.state = "closed" /\ edited.wgl = issue.wgl /\ edited.kind = issue.kind
        /\ edited.advances = issue.advances /\ edited.parentGoal = issue.parentGoal
        /\ edited.parentFeature = issue.parentFeature
    <2> HIDE DEF issue
    <2> QED
      BY <1>1 DEF IsGoalRecord
  <1>4. /\ DOMAIN v1' = DOMAIN v1 /\ v1'[n] = edited
        /\ \A m \in DOMAIN v1 : m # n => v1'[m] = v1[m]
    <2> HIDE DEF edited
    <2> QED
      BY <1>2
  <1> HIDE DEF edited
  <1> QED
    BY <1>3, <1>4 DEF Kin

\* GoalViews: no edit of a box or closing of an issue takes proof away.
LEMMA GoalsTell == Goals!GoalsInv => Goals!EditKeepsProof
  <1> SUFFICES ASSUME Goals!GoalsInv, NEW g \in DOMAIN v1, v1[g].kind = "Goal",
                      NEW n \in DOMAIN v1
               PROVE  /\ Goals!Ticks(n) => Goals!PercentOf(v1', g) = Goals!PercentOf(v1, g)
                      /\ Goals!Closes(n) => Goals!PercentOf(v1', g) >= Goals!PercentOf(v1, g)
    BY DEF Goals!EditKeepsProof
  <1>1. Goals!PercentOf(v1, g) = Proof(v1, g)
    BY PercentIs
  <1>2. Kin(v1, v1') => Goals!PercentOf(v1', g) = Proof(v1', g)
    BY PercentIs DEF Kin
  <1>3. ASSUME Goals!Ticks(n) PROVE Goals!PercentOf(v1', g) = Goals!PercentOf(v1, g)
    BY <1>1, <1>2, <1>3, TicksAreKin, SameStatesSameProof
  <1>4. ASSUME Goals!Closes(n) PROVE Goals!PercentOf(v1', g) >= Goals!PercentOf(v1, g)
    <2>1. Kin(v1, v1')
          /\ \A m \in DOMAIN v1 : v1'[m].state = v1[m].state \/ v1'[m].state = "closed"
      BY <1>4, ClosesAreKin
    <2>2. IsFiniteSet(DOMAIN v1) /\ \A m \in DOMAIN v1 : IsGoalRecord(v1[m])
      BY GoalIssues, GoalAssumption DEF Goals!GoalsInv
    <2> QED
      BY <1>1, <1>2, <2>1, <2>2, MoreClosedMoreProof
  <1> QED
    BY <1>3, <1>4

-----------------------------------------------------------------------------
(* The programs side by side: the one that runs keeps its invariant.        *)

FeedsInv ==
  /\ program = "page" => Page!PageInv
  /\ program = "fetch" => Fetching!FetchInv
  /\ program = "goals" => Goals!GoalsInv

LEMMA FeedsInitially == FeedsInit => FeedsInv
  BY PageInit, FetchInit, GoalsInit DEF FeedsInit, FeedsInv

LEMMA FeedsSteps ==
  ASSUME [FeedsNext]_all
  PROVE  /\ program' = program
         /\ program = "page" => [Page!Next]_feedVars
         /\ program = "fetch" => [Fetching!Next]_fetchVars
         /\ program = "goals" => [Goals!Next]_v1
  BY DEF FeedsNext, all, after5, after1, feedVars, fetchVars

LEMMA FeedsKeep == FeedsInv /\ [FeedsNext]_all => FeedsInv'
  <1> SUFFICES ASSUME FeedsInv, [FeedsNext]_all PROVE FeedsInv'
    OBVIOUS
  <1> USE FeedsSteps DEF FeedsInv
  <1>1. program' = "page" => Page!PageInv'
    BY PageStep
  <1>2. program' = "fetch" => Fetching!FetchInv'
    BY FetchStep
  <1>3. program' = "goals" => Goals!GoalsInv'
    BY GoalsStep
  <1> QED
    BY <1>1, <1>2, <1>3

\* What readers have seen stays in sight: no restart, failed write or late refresh makes the
\* page serve an older feed than it has served, and a fetch loses no issue or milestone that
\* was there when it began, however many are filed under it and whatever is found unchanged.
THEOREM ReadersLoseNothingHolds == FeedsSpec => []ReadersLoseNothing
  <1>1. FeedsInv => ReadersLoseNothing
    BY DEF FeedsInv, ReadersLoseNothing, Page!PageInv, Page!VersionsInv, Page!NeverServesOlder,
           Fetching!FetchInv
  <1> QED
    BY <1>1, FeedsInitially, FeedsKeep, PTL DEF FeedsSpec

\* The refreshing flag stands exactly while a refresh thread is at work, and a disabled button
\* of the page waits for a request or a timer: for any number of requests and versions.
THEOREM NoStuckButtonHolds == FeedsSpec => []NoStuckButton
  <1>1. FeedsInv => NoStuckButton
    BY DEF FeedsInv, NoStuckButton, Page!PageInv
  <1> QED
    BY <1>1, FeedsInitially, FeedsKeep, PTL DEF FeedsSpec

\* A Goal's percent is proof, not intention: no box ticked or unticked by hand moves it, and no
\* closing of an issue takes any of it back, whatever the issues are and however they are linked.
THEOREM ProgressIsProofHolds == FeedsSpec => ProgressIsProof
  <1> DEFINE Proven == program = "goals" => Goals!EditKeepsProof
  <1>1. FeedsInv /\ [FeedsNext]_all => [Proven]_all
    BY GoalsTell DEF FeedsInv
  <1> QED
    BY <1>1, FeedsInitially, FeedsKeep, PTL DEF FeedsSpec, ProgressIsProof
=============================================================================
