----------------------------- MODULE ReportCache -----------------------------
(***************************************************************************)
(* What the report pages keep between requests: each session's last        *)
(* ruleset run (apps/manage/src/app/views/consultees/run-ruleset.ts), and  *)
(* in the process's memory the reports the Report created page built       *)
(* (report/export/report-zip.ts), by the URL of their download.            *)
(*                                                                         *)
(* Requests overlap: each works on its own copy of its session, loaded     *)
(* when it arrives and saved whole when it has answered, if it changed it. *)
(* At each await of a request others go on, the reference data is reloaded *)
(* and time passes.                                                        *)
(*                                                                         *)
(* Abstractions. A run is what it screened (the case and the ruleset),     *)
(* which reference data it found and when it was made; a report is the run *)
(* it was built from and the session it was built in. Time is in ticks.    *)
(***************************************************************************)
EXTENDS Integers, Sequences, SequencesExt

CONSTANTS
  Requests, Sessions,
  Urls,               \* download URLs: a case, a ruleset and a selection
  Cases, Rulesets,
  CaseOf, RulesetOf,  \* the case and the ruleset of each URL
  Kinds,              \* the pages requested: "page" is any other that uses a run
  MaxAge,             \* RULESET_RUN_MAX_AGE_MS
  MaxRemembered,      \* MAX_REMEMBERED_REPORTS
  MaxTime,            \* bound: ticks
  MaxData,            \* bound: reloads of the reference data
  None

Run == [case : Cases, ruleset : Rulesets, ranAt : 0..MaxTime, data : 0..MaxData]
Report == [run : Run, builtBy : Sessions]
Entry == [url : Urls, report : Report, at : 0..MaxTime]

ASSUME ReportCacheAssumption ==
  /\ CaseOf \in [Urls -> Cases] /\ RulesetOf \in [Urls -> Rulesets]
  /\ Kinds \subseteq {"page", "created", "download"}
  /\ MaxAge \in Nat \ {0} /\ MaxRemembered \in Nat \ {0}
  /\ MaxTime \in Nat /\ MaxData \in Nat

VARIABLES
  now,         \* the time
  data,        \* the reference data a screening finds
  reloadedAt,  \* when each version of it was replaced, or None
  stored,      \* each session's run, as the session store has it
  remembered,  \* the remembered reports, in the order of the Map's keys
  req          \* each request: where it is, and its locals

vars == <<now, data, reloadedAt, stored, remembered, req>>

\* session, url, kind: whose it is and what it is for. copy: its copy of the
\* session's run, and whether it has changed that. began, found: when it asked
\* for a run, and the data the run found. run, report: what it goes by.
NoRequest == [pc |-> "idle", session |-> None, url |-> None, kind |-> None,
              copy |-> None, changed |-> FALSE, began |-> 0, found |-> 0,
              run |-> None, report |-> None]

Init ==
  /\ now = 0 /\ data = 0 /\ reloadedAt = [d \in 0..MaxData |-> None]
  /\ stored = [s \in Sessions |-> None]
  /\ remembered = <<>>
  /\ req = [r \in Requests |-> NoRequest]

------------------------------------------------------------------------------
(* The remembered reports *)

\* What a get answers with: core's MapCache gives what was set less than its
\* lifetime ago. It may drop an expired entry it is asked for, or leave it.
Lives(e) == now - e.at < MaxAge
Remembered(u) == {e.report : e \in {f \in ToSet(remembered) : f.url = u /\ Lives(f)}}
AfterGet(u) ==
  LET expired == {i \in DOMAIN remembered : remembered[i].url = u /\ ~Lives(remembered[i])} IN
  {remembered} \cup {RemoveAt(remembered, i) : i \in expired}

\* The length of slice(0, n): a negative n counts from the end.
SliceLength(n, length) ==
  IF n >= 0 THEN (IF n < length THEN n ELSE length)
  ELSE IF n + length > 0 THEN n + length ELSE 0

\* A set of a Map: a key it has keeps its place.
MapSet(entries, e) ==
  IF \E i \in DOMAIN entries : entries[i].url = e.url
  THEN [i \in DOMAIN entries |-> IF entries[i].url = e.url THEN e ELSE entries[i]]
  ELSE Append(entries, e)

\* Mutant: nothing is dropped.
RememberMutant(entries, e) == MapSet(entries, e)

\* rememberReportZip.
Remember(entries, e) ==
  LET dropped == SliceLength(Len(entries) - MaxRemembered + 1, Len(entries)) IN
  MapSet(SubSeq(entries, dropped + 1, Len(entries)), e)

EntryOf(r, report) == [url |-> req[r].url, report |-> report, at |-> now]

------------------------------------------------------------------------------
(* A request *)

\* Mutant: a run of another ruleset will do.
FitsMutant(run, u) ==
  run # None /\ run.case = CaseOf[u] /\ now - run.ranAt < MaxAge

\* storedRun.
Fits(run, u) ==
  /\ run # None
  /\ run.case = CaseOf[u] /\ run.ruleset = RulesetOf[u]
  /\ now - run.ranAt < MaxAge

\* The session is loaded. A download looks for the report before a run.
Arrive(r, s, u, k) ==
  /\ req[r].pc = "idle"
  /\ req' = [req EXCEPT ![r] =
       [NoRequest EXCEPT !.pc = IF k = "download" THEN "lookup" ELSE "run",
          !.session = s, !.url = u, !.kind = k, !.copy = stored[s]]]
  /\ UNCHANGED <<now, data, reloadedAt, stored, remembered>>

Lookup(r) ==
  LET hits == Remembered(req[r].url) IN
  /\ req[r].pc = "lookup"
  /\ \/ hits = {} /\ req' = [req EXCEPT ![r].pc = "run"]
     \/ \E z \in hits : req' = [req EXCEPT ![r].pc = "answer", ![r].report = z]
  /\ remembered' \in AfterGet(req[r].url)
  /\ UNCHANGED <<now, data, reloadedAt, stored>>

\* A page goes by its run; the other two want a report of it.
AfterRun(r) == IF req[r].kind = "page" THEN "answer" ELSE "report"

\* Mutant: a run that is used is kept for another MaxAge.
UseStoredRunMutant(r) ==
  /\ req[r].pc = "run" /\ Fits(req[r].copy, req[r].url)
  /\ req' = [req EXCEPT ![r].pc = AfterRun(r), ![r].run = req[r].copy,
               ![r].copy.ranAt = now, ![r].changed = TRUE]
  /\ UNCHANGED <<now, data, reloadedAt, stored, remembered>>

UseStoredRun(r) ==
  /\ req[r].pc = "run" /\ Fits(req[r].copy, req[r].url)
  /\ req' = [req EXCEPT ![r].pc = AfterRun(r), ![r].run = req[r].copy]
  /\ UNCHANGED <<now, data, reloadedAt, stored, remembered>>

\* The Python function is asked, and screens against the data there then is.
Screen(r) ==
  /\ req[r].pc = "run" /\ ~Fits(req[r].copy, req[r].url)
  /\ req' = [req EXCEPT ![r].pc = "screening", ![r].began = now, ![r].found = data]
  /\ UNCHANGED <<now, data, reloadedAt, stored, remembered>>

\* Mutant: what is kept is when the run expires.
KeepRunMutant(r) ==
  LET u == req[r].url
      run == [case |-> CaseOf[u], ruleset |-> RulesetOf[u], ranAt |-> now + MaxAge,
              data |-> req[r].found] IN
  /\ req[r].pc = "screening"
  /\ req' = [req EXCEPT ![r].pc = AfterRun(r), ![r].run = run, ![r].copy = run,
               ![r].changed = TRUE, ![r].began = 0, ![r].found = 0]
  /\ UNCHANGED <<now, data, reloadedAt, stored, remembered>>

\* It answers, within RUN_TIMEOUT_MS (see Tick), and the run is kept.
KeepRun(r) ==
  LET u == req[r].url
      run == [case |-> CaseOf[u], ruleset |-> RulesetOf[u], ranAt |-> now,
              data |-> req[r].found] IN
  /\ req[r].pc = "screening"
  /\ req' = [req EXCEPT ![r].pc = AfterRun(r), ![r].run = run, ![r].copy = run,
               ![r].changed = TRUE, ![r].began = 0, ![r].found = 0]
  /\ UNCHANGED <<now, data, reloadedAt, stored, remembered>>

\* The run fails, or is made to fail whatever the session holds
\* (test-fail=ruleset): the answer says so, and nothing is kept.
RunFails(r) ==
  /\ req[r].pc \in {"run", "screening"}
  /\ req' = [req EXCEPT ![r].pc = "answer", ![r].began = 0, ![r].found = 0]
  /\ UNCHANGED <<now, data, reloadedAt, stored, remembered>>

\* The created page uses a report it finds under the URL, and remembers it again.
RememberAgain(r) ==
  /\ req[r].pc = "report" /\ req[r].kind = "created"
  /\ \E z \in Remembered(req[r].url) :
       /\ req' = [req EXCEPT ![r].pc = "answer", ![r].report = z]
       /\ remembered' = Remember(remembered, EntryOf(r, z))
  /\ UNCHANGED <<now, data, reloadedAt, stored>>

\* buildReportZip begins; only the created page looked for a report first.
Build(r) ==
  /\ req[r].pc = "report"
  /\ \/ req[r].kind = "download" /\ UNCHANGED remembered
     \/ /\ req[r].kind = "created" /\ Remembered(req[r].url) = {}
        /\ remembered' \in AfterGet(req[r].url)
  /\ req' = [req EXCEPT ![r].pc = "building"]
  /\ UNCHANGED <<now, data, reloadedAt, stored>>

\* ... and ends: the created page remembers the report, the download sends it.
Built(r) ==
  LET report == [run |-> req[r].run, builtBy |-> req[r].session] IN
  /\ req[r].pc = "building"
  /\ req' = [req EXCEPT ![r].pc = "answer", ![r].report = report]
  /\ remembered' = IF req[r].kind = "created" THEN Remember(remembered, EntryOf(r, report))
                   ELSE remembered
  /\ UNCHANGED <<now, data, reloadedAt, stored>>

\* The build fails, or is made to fail (test-fail=download): the created page
\* before it looks for a report, a download even when there is one.
BuildFails(r) ==
  /\ \/ req[r].pc \in {"lookup", "building"}
     \/ req[r].pc = "report" /\ req[r].kind = "created"
  /\ req' = [req EXCEPT ![r].pc = "answer"]
  /\ UNCHANGED <<now, data, reloadedAt, stored, remembered>>

\* The answer goes and the session is saved, whatever others saved since.
Answer(r) ==
  /\ req[r].pc = "answer"
  /\ stored' = IF req[r].changed THEN [stored EXCEPT ![req[r].session] = req[r].copy] ELSE stored
  /\ req' = [req EXCEPT ![r] = NoRequest]
  /\ UNCHANGED <<now, data, reloadedAt, remembered>>

------------------------------------------------------------------------------
(* Around the requests *)

\* Reference data is loaded, switched to or cleared.
Reload ==
  /\ data < MaxData
  /\ data' = data + 1
  /\ reloadedAt' = [reloadedAt EXCEPT ![data] = now]
  /\ UNCHANGED <<now, stored, remembered, req>>

\* RUN_TIMEOUT_MS is less than a tick, so a screening sees one pass at most.
Tick ==
  /\ now < MaxTime
  /\ \A r \in Requests : req[r].pc = "screening" => req[r].began = now
  /\ now' = now + 1
  /\ UNCHANGED <<data, reloadedAt, stored, remembered, req>>

\* The process restarts: what is in its memory is gone, its requests too.
Restart ==
  /\ remembered' = <<>>
  /\ req' = [r \in Requests |-> NoRequest]
  /\ UNCHANGED <<now, data, reloadedAt, stored>>

Step(r) ==
  \/ Lookup(r) \/ UseStoredRun(r) \/ Screen(r) \/ KeepRun(r) \/ RunFails(r)
  \/ RememberAgain(r) \/ Build(r) \/ Built(r) \/ BuildFails(r) \/ Answer(r)

Next ==
  \/ \E r \in Requests :
       \/ \E s \in Sessions, u \in Urls, k \in Kinds : Arrive(r, s, u, k)
       \/ Step(r)
  \/ Reload \/ Tick \/ Restart

Spec == Init /\ [][Next]_vars

------------------------------------------------------------------------------
(* Properties *)

\* Every variable has a value of its kind; a request under way has its session
\* and its URL.
Locals ==
  [pc : {"idle", "lookup", "run", "screening", "report", "building", "answer"},
   session : Sessions \cup {None}, url : Urls \cup {None}, kind : Kinds \cup {None},
   copy : Run \cup {None}, changed : BOOLEAN, began : 0..MaxTime, found : 0..MaxData,
   run : Run \cup {None}, report : Report \cup {None}]

TypeOK ==
  /\ now \in 0..MaxTime /\ data \in 0..MaxData
  /\ reloadedAt \in [0..MaxData -> 0..MaxTime \cup {None}]
  /\ stored \in [Sessions -> Run \cup {None}]
  /\ remembered \in Seq(Entry)
  /\ req \in [Requests -> Locals]
  /\ \A r \in Requests : req[r].pc # "idle" => req[r].session \in Sessions /\ req[r].url \in Urls

\* Requests of one session overwrite the one run it keeps, and sessions share
\* the reports: still a page lists, and a report holds, what was found for the
\* very case and ruleset its URL names.
OwnCaseAndRuleset ==
  \A r \in Requests :
    \A run \in {req[r].run} \cup (IF req[r].report = None THEN {} ELSE {req[r].report.run}) :
      run # None => run.case = CaseOf[req[r].url] /\ run.ruleset = RulesetOf[req[r].url]

\* "Short enough that reference data reloaded since is picked up": nothing is
\* listed from data replaced longer ago than a run is kept. The run's own time
\* is short, and saving a session again does not make its run any younger.
PicksUpReloads ==
  [][\A r \in Requests :
       req'[r].run \notin {None, req[r].run} /\ reloadedAt[req'[r].run.data] # None
         => now - reloadedAt[req'[r].run.data] <= MaxAge]_vars

\* "The newest few reports are plenty - each is tens of MB of process memory."
FewRemembered == Len(remembered) <= MaxRemembered

\* "Drop the oldest reports once the cap is reached": not before, while they
\* live. A restart leaves nothing.
DroppedOnlyAtCap ==
  [][\A e \in ToSet(remembered) :
       /\ Lives(e) /\ remembered' # <<>>
       /\ \A f \in ToSet(remembered') : f.url # e.url
       => Len(remembered) >= MaxRemembered]_vars

=============================================================================
