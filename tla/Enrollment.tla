------------------------------- MODULE Enrollment -------------------------------
(***************************************************************************)
(* The public login, registration and character routes (infra/enrollment): *)
(* a limiter in memory in front of the authority, which is asked over HTTP *)
(* with a timeout.  Requests run on threads, and the limiter takes no      *)
(* lock: every read and every write of its two tables is a step of its own.*)
(*                                                                         *)
(* One key of the limiter, of one of its two kinds: a client and a         *)
(* username (login, register), or a client (characters).                   *)
(***************************************************************************)
EXTENDS Integers, Sequences, FiniteSets

CONSTANTS
  Threads,        \* threads of the server that handle requests of the key
  MaxAttempts,    \* max_attempts
  Window,         \* window_seconds, in ticks
  Lockout,        \* lockout_seconds, in ticks
  Slack,          \* how many ticks a call of the limiter may take
  MaxTime         \* bound of the clock

VARIABLES
  kind,           \* which key it is
  clock,          \* external: the monotonic clock
  events,         \* _events[key]: the times of the recorded attempts, <<>> when there is no entry
  holder,         \* the thread whose list object that entry is, if it still appends to it
  lock,           \* _locked_until[key], 0 when there is no entry
  thread,         \* per thread: the route it is in, where, its clock and its list of events;
                  \* and, history, whether another one has stored since it last looked
  known,          \* external: the authority has the account, or the character
  raced,          \* history: a thread has undone what another one had stored, and neither has
                  \* the window passed since nor the right password been given
  counted         \* history: times of the attempts counted since the last right password, in
                  \* the window; of those since a race, the last

vars == <<kind, clock, events, holder, lock, thread, known, raced, counted>>
tables == <<events, holder, lock>>

\* list, create, delete and select differ in what they ask only
Routes == [login |-> {"login", "register"}, characters |-> {"characters"}]
Idle == [route |-> "none", at |-> "idle", now |-> 0, read |-> <<>>, stale |-> FALSE]

\* where a thread is inside a call of the limiter, and where it is between a look at the
\* tables and what it then writes there
Deciding == {"unlock", "discard", "keep", "trim", "append", "store"}
Inside == Deciding \cup {"look", "survey", "prune", "lock"}

TypeOK ==
  /\ kind \in DOMAIN Routes /\ clock \in 0..MaxTime
  /\ holder = {} \/ \E t \in Threads : holder = {t}
  /\ lock \in 0..(MaxTime + Lockout)
  /\ \A i \in DOMAIN events : events[i] \in 0..clock
  /\ \A t \in Threads :
       /\ thread[t].route \in Routes[kind] \cup {"none"}
       /\ thread[t].at \in Inside \cup {"idle", "ask", "forget", "release"}
       /\ thread[t].now \in 0..clock /\ thread[t].stale \in BOOLEAN
  /\ known \in BOOLEAN

Init ==
  /\ kind \in DOMAIN Routes
  /\ clock = 0 /\ events = <<>> /\ holder = {} /\ lock = 0
  /\ thread = [t \in Threads |-> Idle]
  /\ known \in BOOLEAN
  /\ counted = <<>> /\ raced = FALSE

-----------------------------------------------------------------------------
(* The limiter.                                                             *)

Recent(times, now) == SelectSeq(times, LAMBDA time : time > now - Window)

Full_OffByOne(list) == Len(list) > MaxAttempts
Full(list) == Len(list) >= MaxAttempts

Goes(t, step) == thread' = [thread EXCEPT ![t].at = step]
Asks(t) == thread' = [thread EXCEPT ![t] = [Idle EXCEPT !.route = thread[t].route, !.at = "ask"]]
Answers(t) == thread' = [thread EXCEPT ![t] = Idle]

\* What t writes here takes away what another thread has stored since t looked.
Undoes(t) == raced' = (raced \/ thread[t].stale)

\* t has stored: the others go on with what they read before.
Outdate(t, threads) ==
  [u \in Threads |-> IF u # t /\ threads[u].at \in Deciding
                     THEN [threads[u] EXCEPT !.stale = TRUE] ELSE threads[u]]

\* A route is entered, and reads the clock.
Arrive(t, route) ==
  /\ thread[t].at = "idle"
  /\ thread' = [thread EXCEPT ![t] = [Idle EXCEPT !.route = route, !.at = "look", !.now = clock]]
  /\ UNCHANGED <<kind, clock, tables, known, counted, raced>>

\* allowed(): the lock is read; one that has ended goes, and the events with it.
Look(t) ==
  /\ thread[t].at = "look"
  /\ \/ lock > thread[t].now /\ Answers(t)
     \/ lock <= thread[t].now /\ Goes(t, IF lock > 0 THEN "unlock" ELSE "survey")
  /\ UNCHANGED <<kind, clock, tables, known, counted, raced>>

Unlock(t) ==
  /\ thread[t].at = "unlock" /\ Goes(t, "discard")
  /\ lock' = 0 /\ Undoes(t)
  /\ UNCHANGED <<kind, clock, events, holder, known, counted>>

Discard(t) ==
  /\ thread[t].at = "discard"
  /\ thread' = [thread EXCEPT ![t].at = "survey", ![t].stale = FALSE]
  /\ events' = <<>> /\ holder' = {} /\ Undoes(t)
  /\ UNCHANGED <<kind, clock, lock, known, counted>>

\* _prune(), of allowed() and of the counting: a new list of what is recent is made, and
\* replaces the entry, or removes it when nothing is.
ReadEvents(t) ==
  /\ thread[t].at \in {"survey", "prune"}
  /\ thread' = [thread EXCEPT ![t].at = IF @ = "survey" THEN "keep" ELSE "trim",
                              ![t].read = Recent(events, thread[t].now), ![t].stale = FALSE]
  /\ UNCHANGED <<kind, clock, tables, known, counted, raced>>

WriteBack(t) == events' = thread[t].read /\ Undoes(t)

\* The end of allowed().  login asks the authority, every other route counts first.
Keep(t) ==
  /\ thread[t].at = "keep" /\ WriteBack(t) /\ holder' = {}
  /\ \/ Full(thread[t].read) /\ Answers(t)
     \/ /\ ~Full(thread[t].read)
        /\ IF thread[t].route = "login" THEN Asks(t)
           ELSE thread' = [thread EXCEPT ![t].at = "prune", ![t].read = <<>>, ![t].stale = FALSE]
  /\ UNCHANGED <<kind, clock, lock, known, counted>>

Trim(t) ==
  /\ thread[t].at = "trim" /\ WriteBack(t) /\ Goes(t, "append")
  /\ holder' = IF thread[t].read = <<>> THEN {} ELSE {t}
  /\ UNCHANGED <<kind, clock, lock, known, counted>>

\* The list grows in place, at once in the table if it is still the entry there.
AppendEvent(t) ==
  LET grown == Append(thread[t].read, thread[t].now) IN
  /\ thread[t].at = "append"
  /\ thread' = [thread EXCEPT ![t].at = "store", ![t].read = grown]
  /\ events' = IF t \in holder THEN grown ELSE events
  /\ UNCHANGED <<kind, clock, holder, lock, known, counted, raced>>

\* After the counting a wrong password is answered; the other routes ask the authority.
Counted(t, threads) ==
  [threads EXCEPT ![t] = IF @.route = "login" THEN Idle
                         ELSE [Idle EXCEPT !.route = threads[t].route, !.at = "ask"]]

Store(t) ==
  LET locks == [thread EXCEPT ![t].at = "lock", ![t].read = <<>>, ![t].stale = FALSE] IN
  /\ thread[t].at = "store"
  /\ events' = thread[t].read /\ holder' = {t} /\ Undoes(t)
  /\ counted' = Append(IF raced' THEN <<>> ELSE counted, thread[t].now)
  /\ thread' = Outdate(t, IF Full(thread[t].read) THEN locks ELSE Counted(t, thread))
  /\ UNCHANGED <<kind, clock, lock, known>>

Lock(t) ==
  /\ thread[t].at = "lock"
  /\ lock' = thread[t].now + Lockout
  /\ raced' = (raced \/ lock > lock')
  /\ thread' = Outdate(t, Counted(t, thread))
  /\ UNCHANGED <<kind, clock, events, holder, known, counted>>

\* record_success(): the two entries of the key.
Forget(t) ==
  /\ \/ thread[t].at = "forget" /\ events' = <<>> /\ holder' = {} /\ UNCHANGED lock /\ Goes(t, "release")
     \/ thread[t].at = "release" /\ lock' = 0 /\ UNCHANGED <<events, holder>> /\ Answers(t)
  /\ counted' = <<>> /\ raced' = FALSE
  /\ UNCHANGED <<kind, clock, known>>

-----------------------------------------------------------------------------
(* The authority.  What the answers say is left out; one that comes too     *)
(* late is a refusal, and its effect may have happened all the same.        *)

\* verify_and_mint(): a wrong password is counted, by a call with a clock of its own.
AskLogin(t) ==
  /\ thread[t].at = "ask" /\ thread[t].route = "login"
  /\ \/ known /\ Goes(t, "forget")
     \/ thread' = [thread EXCEPT ![t].at = "prune", ![t].now = clock]
     \/ Answers(t)
  /\ UNCHANGED <<kind, clock, tables, known, counted, raced>>

\* register() and the character routes
AskOther(t) ==
  /\ thread[t].at = "ask" /\ thread[t].route # "login" /\ Answers(t)
  /\ known' \in {known} \cup IF thread[t].route = "register" THEN {TRUE} ELSE BOOLEAN
  /\ UNCHANGED <<kind, clock, tables, counted, raced>>

Tick ==
  /\ clock < MaxTime /\ clock' = clock + 1
  /\ \A t \in Threads : thread[t].at \in Inside => clock' - thread[t].now <= Slack
  /\ counted' = Recent(counted, clock') /\ raced' = (raced /\ counted' # <<>>)
  /\ UNCHANGED <<kind, tables, thread, known>>

Next ==
  \/ \E t \in Threads :
       \/ \E route \in Routes[kind] : Arrive(t, route)
       \/ Look(t) \/ Unlock(t) \/ Discard(t) \/ ReadEvents(t) \/ Keep(t)
       \/ Trim(t) \/ AppendEvent(t) \/ Store(t) \/ Lock(t)
       \/ AskLogin(t) \/ AskOther(t) \/ Forget(t)
  \/ Tick

Spec == Init /\ [][Next]_vars

-----------------------------------------------------------------------------
\* A lock holds until the attempts that led to it have left the window, also one that was
\* set late: true of the defaults (60 and 300 seconds), not demanded by the limiter.
LocksOutlastWindows == Window + Slack <= Lockout

\* Within one window, at most MaxAttempts attempts are counted of requests that come one
\* at a time and, of every other thread, two: one that was past the check when the lock
\* fell, and one counted between then and the request that clears the lock, which the
\* clearing forgets.  Only a thread that writes to the tables what it read before another
\* one stored can make it more: nothing keeps it from that (rate_limit.py:26-60).
AttemptsAreBounded ==
  LocksOutlastWindows /\ ~raced =>
    Len(Recent(counted, clock)) <= MaxAttempts + 2 * (Cardinality(Threads) - 1)
=============================================================================
