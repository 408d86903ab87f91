\* A page with two requests under way, feeds of two versions that are stale after one tick;
\* fetches of pages of two items, of which two are pull requests; the Goals of SmallGoals
\* and the feeds of MCViews.
SPECIFICATION DashboardSpec
CONSTANTS
  Interval = 1
  MaxVersions = 2
  MaxRequests = 2
  PageSize = 2
  PullRequests = {2, 3}
  MaxItems = 4
  GoalRecords <- SmallGoals
INVARIANTS ReadersLoseNothing NoStuckButton ViewsAgree
PROPERTIES RefreshesHappen ProgressIsProof
CHECK_DEADLOCK FALSE
