------------------------------- MODULE FeedFetch -------------------------------
(***************************************************************************)
(* One fetch of the GitHub feed after another (fetch_github_feed, src/     *)
(* dashboard/github_cache.py): the pages of both resources are requested   *)
(* one by one, each with the ETag of its last answer, while GitHub's lists *)
(* grow.  GitHub lists the newest item first, so that an item it adds      *)
(* pushes the others towards later pages.                                  *)
(*                                                                         *)
(* The code extends one list per resource and sorts it by number at last:  *)
(* what matters of it is how often each number is in it, a bag.            *)
(***************************************************************************)
EXTENDS Naturals, Sequences, Bags

CONSTANTS
  PageSize,       \* per_page, 100 in the code
  PullRequests,   \* the numbers of issues that are pull requests
  MaxItems        \* bound: items GitHub has per resource

VARIABLES
  total,          \* per resource, how many items GitHub has; the newest is the last
  previous,       \* the pages of the snapshot a fetch starts from, by endpoint
  fetch,          \* the fetch under way: resource, page, and the feed so far
  feed,           \* the last feed a fetch returned
  floor           \* history: how much GitHub had of each resource when a fetch began

vars == <<total, previous, fetch, feed, floor>>

Resources == <<"issues", "milestones">>
Range1(s) == {s[i] : i \in DOMAIN s}
Kinds == Range1(Resources)
NoPages == [e \in {} |-> <<>>]
NoFetch == [resource |-> 0, page |-> 0, pages |-> NoPages, items |-> [r \in Kinds |-> EmptyBag]]

\* external: GitHub's answer to a page, newest first.  Its ETag is the list itself;
\* that of an empty page is taken as none.
PageOf(r, page) ==
  LET newest == total[r] - (page - 1) * PageSize
      count == IF newest <= 0 THEN 0 ELSE IF newest < PageSize THEN newest ELSE PageSize
  IN [i \in 1..count |-> newest - i + 1]

\* run_api(): 304 when the ETag still holds, 200 with the page otherwise; any other
\* status, a timeout or a broken body raises.
RunApi(r, page, etag) ==
  IF etag = PageOf(r, page) /\ etag # <<>>
    THEN [status |-> 304, payload |-> <<>>]
    ELSE [status |-> 200, payload |-> PageOf(r, page)]

\* pull requests are issues to GitHub, and no items of the feed
Projected(r, payload) ==
  SetToBag(IF r = "issues" THEN Range1(payload) \ PullRequests ELSE Range1(payload))

\* mutant: a page is taken for the last one by what is left of it without pull requests
Response_ByItems(r, page, cached) ==
  LET answer == RunApi(r, page, cached.etag)
      items == Projected(r, answer.payload) IN
  IF answer.status = 304 /\ cached.etag # <<>>
    THEN cached
    ELSE [etag |-> answer.payload, items |-> items, more |-> BagCardinality(items) = PageSize]

\* what an endpoint contributes: the cached page on a 304, the new one on a 200
Response(r, page, cached) ==
  LET answer == RunApi(r, page, cached.etag) IN
  IF answer.status = 304 /\ cached.etag # <<>>
    THEN cached
    ELSE [etag |-> answer.payload, items |-> Projected(r, answer.payload),
          more |-> Len(answer.payload) = PageSize]

Cached(endpoint) ==
  IF endpoint \in DOMAIN previous THEN previous[endpoint]
                                  ELSE [etag |-> <<>>, items |-> EmptyBag, more |-> FALSE]

-----------------------------------------------------------------------------
Init ==
  /\ total \in [Kinds -> {0, 1}]
  /\ previous = NoPages
  /\ fetch = NoFetch
  /\ feed = [r \in Kinds |-> EmptyBag]
  /\ floor = [r \in Kinds |-> 0]

Begin ==
  /\ fetch.resource = 0
  /\ fetch' = [NoFetch EXCEPT !.resource = 1, !.page = 1]
  /\ floor' = total
  /\ UNCHANGED <<total, previous, feed>>

\* one turn of the loop over pages, that returns the feed after the last page
FetchPage ==
  LET r == Resources[fetch.resource]
      endpoint == <<r, fetch.page>>
      response == Response(r, fetch.page, Cached(endpoint))
      pages == [e \in DOMAIN fetch.pages \cup {endpoint} |->
                  IF e = endpoint THEN response ELSE fetch.pages[e]]
      items == [fetch.items EXCEPT ![r] = @ (+) response.items]
  IN
  /\ fetch.resource # 0
  /\ \/ /\ response.more
        /\ fetch' = [fetch EXCEPT !.page = @ + 1, !.pages = pages, !.items = items]
        /\ UNCHANGED <<previous, feed>>
     \/ /\ ~response.more /\ fetch.resource < Len(Resources)
        /\ fetch' = [resource |-> fetch.resource + 1, page |-> 1, pages |-> pages,
                     items |-> items]
        /\ UNCHANGED <<previous, feed>>
     \/ /\ ~response.more /\ fetch.resource = Len(Resources)
        /\ fetch' = NoFetch
        /\ previous' = pages
        /\ feed' = items
  /\ UNCHANGED <<total, floor>>

\* a request fails: the fetch raises and the old snapshot stays
Raise ==
  /\ fetch.resource # 0
  /\ fetch' = NoFetch /\ floor' = [r \in Kinds |-> 0]
  /\ UNCHANGED <<total, previous, feed>>

\* external: somebody opens an issue, a pull request or a milestone
GitHubAdds(r) ==
  /\ total[r] < MaxItems
  /\ total' = [total EXCEPT ![r] = @ + 1]
  /\ UNCHANGED <<previous, fetch, feed, floor>>

Next == Begin \/ FetchPage \/ Raise \/ \E r \in Kinds : GitHubAdds(r)
Spec == Init /\ [][Next]_vars

-----------------------------------------------------------------------------
\* A feed holds every issue and milestone GitHub had when its fetch began: no page is
\* skipped because another one shrank by its pull requests, and a page not changed
\* since the last fetch (304) says rightly whether another one follows.
Wanted(r, n) == ~(r = "issues" /\ n \in PullRequests)
NothingIsLost ==
  fetch.resource = 0 =>
    \A r \in Kinds : \A n \in 1..floor[r] : Wanted(r, n) => BagIn(n, feed[r])

-----------------------------------------------------------------------------
(* The invariant it rests on.                                               *)

\* A cached page is what its ETag stands for.
IsPage(r, response) ==
  /\ response.items = Projected(r, response.etag)
  /\ response.more <=> Len(response.etag) = PageSize

\* The fetch has what it wants of the resources before the present one, and of that one
\* what the pages so far reach down to: lists only grow at their newest end.
SoFarNothingIsLost ==
  fetch.resource # 0 => \A k \in 1..Len(Resources) : LET r == Resources[k] IN
    \A n \in 1..floor[r] :
      (\/ k < fetch.resource
       \/ k = fetch.resource /\ n > total[r] - (fetch.page - 1) * PageSize)
      => (Wanted(r, n) => BagIn(n, fetch.items[r]))

FetchInv ==
  /\ total \in [Kinds -> Nat] /\ floor \in [Kinds -> Nat]
  /\ \A r \in Kinds : floor[r] <= total[r]
  /\ fetch = [resource |-> fetch.resource, page |-> fetch.page, pages |-> fetch.pages,
              items |-> [r \in Kinds |-> fetch.items[r]]]
  /\ fetch.resource \in 0..Len(Resources) /\ fetch.page \in Nat
  /\ \A e \in DOMAIN previous : IsPage(e[1], previous[e])
  /\ \A e \in DOMAIN fetch.pages : IsPage(e[1], fetch.pages[e])
  /\ SoFarNothingIsLost /\ NothingIsLost
=============================================================================
