------------------------------ MODULE RunDeadline ------------------------------
(***************************************************************************)
(* How long a ruleset run may take: the app asks and gives up after its    *)
(* own timeout (apps/manage/src/app/ruleset-runner.ts); the function, once *)
(* it gets to the request, stops the run earlier, its queries with it      *)
(* (apps/function-python/intersector/database.py). A run is a search, the  *)
(* queries of its conditions in a pool of threads, and a measurement; each *)
(* is tried again when SQL Server picks it as a deadlock victim.           *)
(*                                                                         *)
(* Time is in ticks, longer than a backoff. Which rows the queries find is *)
(* Screening's subject, and nothing of it matters here.                    *)
(***************************************************************************)
EXTENDS Integers, FiniteSets

CONSTANTS
  OwnQueries,        \* how many conditions have queries of their own
  Workers,       \* CONDITION_CONCURRENCY
  Retries,       \* DEADLOCK_RETRIES
  AppTimeout,    \* RUN_TIMEOUT_MS
  StopsEarlier,  \* FUNCTION_STOPS_EARLIER_MS
  Overrun,       \* how long past its timeout a query that sends rows may go on
  MaxWait        \* bound: how long a request may wait for the function

\* What kind of thing each constant is; a query is not stopped before its time.
ASSUME RunAssumption ==
  /\ OwnQueries \in Nat
  /\ AppTimeout \in Int /\ StopsEarlier \in Int
  /\ Overrun \in Nat

\* The queries in the order the run wants their answers.
SearchQuery == 0
InPool == 1..OwnQueries
MeasureQuery == OwnQueries + 1
Queries == SearchQuery..MeasureQuery

VARIABLES
  now,
  app,     \* "waiting", or what came of the request
  fn,      \* what the function is at, and then how the run ended
  began,   \* when it began
  query,   \* each query: where it is, and
  tried    \* ... its attempts so far

runVars == <<now, app, fn, began, query, tried>>

TimeoutSeconds == AppTimeout - StopsEarlier
\* Mutant: every query gets the whole of the time.
DeadlineMutant == now + TimeoutSeconds
Deadline == began + TimeoutSeconds
Late == now >= Deadline

FnRunning == {"search", "pool", "stopping", "measure"}

DeadlineInit ==
  /\ now = 0 /\ app = "waiting"
  /\ fn = "queued" /\ began = 0
  /\ query = [q \in Queries |-> "waiting"]
  /\ tried = [q \in Queries |-> 0]

\* The function gets to the request: the time the run may take counts from now.
BeginRun ==
  /\ fn = "queued"
  /\ fn' = "search" /\ began' = now
  /\ UNCHANGED <<now, app, query, tried>>

------------------------------------------------------------------------------
(* Database.query *)

\* The pool gives a thread the next condition in order.
Turn(q) ==
  \/ fn = "search" /\ q = SearchQuery
  \/ fn = "measure" /\ q = MeasureQuery
  \/ /\ fn = "pool" /\ q \in InPool
     /\ \A p \in 1..q-1 : query[p] # "waiting"
     /\ Cardinality({p \in InPool : query[p] \in {"running", "backoff"}}) < Workers

\* An attempt gets the time the run has left; with none left it is not made.
Attempt(q) ==
  /\ (query[q] = "waiting" /\ Turn(q)) \/ query[q] = "backoff"
  /\ query' = [query EXCEPT ![q] = IF Late THEN "timedOut" ELSE "running"]
  /\ UNCHANGED <<now, app, fn, began, tried>>

Answered(q) ==
  /\ query[q] = "running"
  /\ query' = [query EXCEPT ![q] = "done"]
  /\ UNCHANGED <<now, app, fn, began, tried>>

\* Mutant: a deadlock victim is tried again as often as it takes.
DeadlockedMutant(q) ==
  /\ query[q] = "running"
  /\ query' = [query EXCEPT ![q] = "backoff"]
  /\ UNCHANGED <<now, app, fn, began, tried>>

\* with_deadlock_retry.
Deadlocked(q) ==
  /\ query[q] = "running"
  /\ tried' = [tried EXCEPT ![q] = IF @ < Retries THEN @ + 1 ELSE @]
  /\ query' = [query EXCEPT ![q] = IF tried[q] < Retries THEN "backoff"
                                   ELSE IF Late THEN "timedOut" ELSE "failed"]
  /\ UNCHANGED <<now, app, fn, began>>

\* A failure, which past the deadline is the timeout's doing.
Fails(q) ==
  /\ query[q] = "running"
  /\ query' = [query EXCEPT ![q] = IF Late THEN "timedOut" ELSE "failed"]
  /\ UNCHANGED <<now, app, fn, began, tried>>

------------------------------------------------------------------------------
(* run_ruleset and its route *)

Bad == {"failed", "timedOut"}
Busy(q) == query[q] \in {"running", "backoff"}

\* How the run ends when query q is the one whose failure it meets.
EndedBy(q) == IF query[q] = "timedOut" THEN "504" ELSE "500"

Searched ==
  /\ fn = "search" /\ query[SearchQuery] \in Bad \cup {"done"}
  /\ fn' = IF query[SearchQuery] = "done" THEN "pool" ELSE EndedBy(SearchQuery)
  /\ UNCHANGED <<now, app, began, query, tried>>

\* The results are taken in order: the first failure cancels the conditions that
\* no thread has taken.
FirstBad == {q \in InPool : query[q] \in Bad /\ \A p \in 1..q-1 : query[p] = "done"}
PoolMeetsFailure ==
  /\ fn = "pool" /\ FirstBad # {}
  /\ fn' = "stopping"
  /\ query' = [q \in Queries |-> IF q \in InPool /\ query[q] = "waiting" THEN "cancelled" ELSE query[q]]
  /\ UNCHANGED <<now, app, began, tried>>

\* Mutant: the threads are not waited for.
PoolStopsMutant ==
  /\ fn = "stopping"
  /\ \E q \in FirstBad : fn' = EndedBy(q)
  /\ UNCHANGED <<now, app, began, query, tried>>

\* The pool's threads are waited for, and then the connections are closed.
PoolStops ==
  /\ fn = "stopping" /\ \A q \in InPool : ~Busy(q)
  /\ \E q \in FirstBad : fn' = EndedBy(q)
  /\ UNCHANGED <<now, app, began, query, tried>>

PoolDone ==
  /\ fn = "pool" /\ \A q \in InPool : query[q] = "done"
  /\ fn' = "measure"
  /\ UNCHANGED <<now, app, began, query, tried>>

Measured ==
  /\ fn = "measure" /\ query[MeasureQuery] \in Bad \cup {"done"}
  /\ fn' = IF query[MeasureQuery] = "done" THEN "200" ELSE EndedBy(MeasureQuery)
  /\ UNCHANGED <<now, app, began, query, tried>>

------------------------------------------------------------------------------
(* The app, and time *)

\* The answer comes while the app still waits; anything but 200 is an error.
AppAnswered ==
  /\ app = "waiting" /\ fn \in {"200", "500", "504"}
  /\ app' = IF fn = "200" THEN "result" ELSE "error"
  /\ UNCHANGED <<now, fn, began, query, tried>>

AppGivesUp ==
  /\ app = "waiting" /\ now >= AppTimeout
  /\ app' = "gaveUp"
  /\ UNCHANGED <<now, fn, began, query, tried>>

\* Nothing waits longer than it is said to: a query past its time, the app past
\* its own, a thread that only backs off.
Tick ==
  /\ fn = "queued" => now < MaxWait
  /\ app = "waiting" => now < AppTimeout
  /\ \A q \in Queries : query[q] = "running" => now < Deadline + Overrun
  /\ \A q \in Queries : query[q] # "backoff"
  /\ now < MaxWait + AppTimeout + Overrun
  /\ now' = now + 1
  /\ UNCHANGED <<app, fn, began, query, tried>>

QueryStep(q) == Attempt(q) \/ Answered(q) \/ Deadlocked(q) \/ Fails(q)
RunStep == Searched \/ PoolMeetsFailure \/ PoolStops \/ PoolDone \/ Measured
AppStep == AppAnswered \/ AppGivesUp

DeadlineNext == BeginRun \/ (\E q \in Queries : QueryStep(q)) \/ RunStep \/ AppStep \/ Tick

\* Threads run, queries end (they answer, fail or are timed out), and time passes.
DeadlineFairness ==
  /\ WF_runVars(BeginRun) /\ WF_runVars(RunStep) /\ WF_runVars(AppStep) /\ WF_runVars(Tick)
  /\ \A q \in Queries : WF_runVars(QueryStep(q))

DeadlineSpec == DeadlineInit /\ [][DeadlineNext]_runVars /\ DeadlineFairness

------------------------------------------------------------------------------
(* Properties *)

Ended == {"200", "500", "504"}

\* "The function stops its run - its queries too - this much sooner, so it's done
\* before the request is given up on": whatever is retried and however the pool
\* is filled, when the app gives up no query of its run is on the database. It
\* is so if the request waited for the function less than the time to spare.
NeverOutlivesTheRequest ==
  app = "gaveUp" /\ began + Overrun < StopsEarlier => \A q \in Queries : ~Busy(q)

\* Connections are closed only once no thread uses one, though the first failure
\* ends the run.
ClosedWhenQuiet == fn \in Ended => \A q \in Queries : ~Busy(q)

\* The page is answered, one way or the other, and a run that was begun ends,
\* wanted or not.
EveryRunEnds == /\ <>(app # "waiting")
                /\ fn = "search" ~> fn \in Ended

=============================================================================
