--------------------------- MODULE ReportCacheProofs ---------------------------
(***************************************************************************)
(* Theorems about ReportCache, for all sessions, requests, URLs, lifetimes *)
(* and caps: its types, that a request goes by what was found for its own  *)
(* case and ruleset, that the cap holds, and that no page goes by data     *)
(* replaced longer ago than a run is kept.                                 *)
(*                                                                         *)
(* The inductive invariant is TypeOK with three facts. MatchInv: a run or  *)
(* report that a request or the memory has beside a URL is of the URL's    *)
(* case and ruleset. CapInv: the cap. AgeInv: a run is kept at most a tick *)
(* after the data it found were replaced.                                  *)
(***************************************************************************)
EXTENDS ReportCache, TLAPS

RunMatches(run, u) == run.case = CaseOf[u] /\ run.ruleset = RulesetOf[u]

EntryMatches(e) == RunMatches(e.report.run, e.url)

\* Of a request's locals: what they hold is the URL's, and no older than said.
LocalMatches(l) ==
  /\ l.run # None => RunMatches(l.run, l.url)
  /\ l.report # None => RunMatches(l.report.run, l.url)
  /\ l.pc \in {"report", "building"} => l.run \in Run /\ RunMatches(l.run, l.url)

MatchInv ==
  /\ \A i \in 1..Len(remembered) : EntryMatches(remembered[i])
  /\ \A r \in Requests : LocalMatches(req[r])

CapInv == Len(remembered) <= MaxRemembered

\* By now, and not more than a tick after the data of version d were replaced.
Recent(d, t) == t <= now /\ (reloadedAt[d] # None => t <= reloadedAt[d] + 1)

LocalAge(l) ==
  /\ l.copy # None => Recent(l.copy.data, l.copy.ranAt)
  /\ l.pc = "screening" =>
       /\ l.began <= now /\ now <= l.began + 1
       /\ reloadedAt[l.found] # None => l.began <= reloadedAt[l.found]

AgeInv ==
  /\ \A d \in 0..MaxData : d >= data => reloadedAt[d] = None
  /\ \A d \in 0..MaxData : reloadedAt[d] # None => reloadedAt[d] \in 0..MaxTime
  /\ \A s \in Sessions : stored[s] # None => Recent(stored[s].data, stored[s].ranAt)
  /\ \A r \in Requests : LocalAge(req[r])

IInv == TypeOK /\ MatchInv /\ CapInv /\ AgeInv

------------------------------------------------------------------------------
(* The memory of reports *)

\* A slice is no longer than what it is taken of.
LEMMA SliceBounds ==
  ASSUME NEW n \in Int, NEW length \in Nat
  PROVE  SliceLength(n, length) \in 0..length
BY DEF SliceLength

\* Setting a key of a map of matching entries adds one entry at most.
LEMMA MapSetKeeps ==
  ASSUME NEW entries \in Seq(Entry), \A i \in 1..Len(entries) : EntryMatches(entries[i]),
         NEW e \in Entry, EntryMatches(e)
  PROVE  /\ MapSet(entries, e) \in Seq(Entry)
         /\ \A i \in 1..Len(MapSet(entries, e)) : EntryMatches(MapSet(entries, e)[i])
         /\ Len(MapSet(entries, e)) <= Len(entries) + 1
<1>1. CASE \E i \in DOMAIN entries : entries[i].url = e.url
  <2> DEFINE set == [i \in 1..Len(entries) |-> IF entries[i].url = e.url THEN e ELSE entries[i]]
  <2>1. MapSet(entries, e) = set
    BY <1>1 DEF MapSet
  <2>2. set \in Seq(Entry) /\ Len(set) = Len(entries)
    OBVIOUS
  <2>3. \A i \in 1..Len(entries) : EntryMatches(set[i])
    OBVIOUS
  <2> HIDE DEF set
  <2>4. Len(entries) \in Nat
    OBVIOUS
  <2>5. Len(MapSet(entries, e)) = Len(entries)
    BY <2>1, <2>2
  <2>6. \A i \in 1..Len(entries) : EntryMatches(MapSet(entries, e)[i])
    BY <2>1, <2>3
  <2>7. MapSet(entries, e) \in Seq(Entry)
    BY <2>1, <2>2
  <2> QED BY <2>4, <2>5, <2>6, <2>7
<1>2. CASE ~ \E i \in DOMAIN entries : entries[i].url = e.url
  <2>1. MapSet(entries, e) = Append(entries, e)
    BY <1>2 DEF MapSet
  <2>2. /\ Append(entries, e) \in Seq(Entry)
        /\ Len(Append(entries, e)) = Len(entries) + 1
        /\ \A i \in 1..Len(entries) + 1 : EntryMatches(Append(entries, e)[i])
    OBVIOUS
  <2> QED BY <2>1, <2>2
<1> QED BY <1>1, <1>2

\* Remembering a report that matches its URL keeps the entries so, within the
\* cap: a full memory loses at least its oldest entry first.
LEMMA RememberKeeps ==
  ASSUME NEW entries \in Seq(Entry), \A i \in 1..Len(entries) : EntryMatches(entries[i]),
         Len(entries) <= MaxRemembered, NEW e \in Entry, EntryMatches(e)
  PROVE  /\ Remember(entries, e) \in Seq(Entry)
         /\ \A i \in 1..Len(Remember(entries, e)) : EntryMatches(Remember(entries, e)[i])
         /\ Len(Remember(entries, e)) <= MaxRemembered
<1> DEFINE size == Len(entries)
           dropped == SliceLength(size - MaxRemembered + 1, size)
           kept == SubSeq(entries, dropped + 1, size)
<1>1. size \in Nat /\ MaxRemembered \in Nat \ {0}
  BY ReportCacheAssumption
<1>2. dropped \in 0..size
  <2>1. size - MaxRemembered + 1 \in Int
    BY <1>1
  <2> QED BY <1>1, <2>1, SliceBounds
<1>3. size = MaxRemembered => dropped = 1
  BY <1>1 DEF SliceLength
<1>4. /\ kept \in Seq(Entry) /\ Len(kept) = size - dropped
      /\ \A i \in 1..Len(kept) : kept[i] = entries[dropped + i]
  <2> HIDE DEF dropped
  <2> QED BY <1>1, <1>2
<1>5. \A i \in 1..Len(kept) : EntryMatches(kept[i])
  <2> HIDE DEF dropped, kept
  <2> QED BY <1>1, <1>2, <1>4
<1>6. Remember(entries, e) = MapSet(kept, e)
  BY DEF Remember
<1>7. Len(kept) + 1 <= MaxRemembered
  <2> HIDE DEF dropped, kept
  <2> QED BY <1>1, <1>2, <1>3, <1>4
<1> HIDE DEF dropped, kept
<1> QED BY <1>1, <1>4, <1>5, <1>6, <1>7, MapSetKeeps

\* What a get may drop leaves the rest as it was.
LEMMA AfterGetKeeps ==
  ASSUME TypeOK, MatchInv, CapInv, NEW u \in Urls, NEW left \in AfterGet(u)
  PROVE  /\ left \in Seq(Entry)
         /\ \A i \in 1..Len(left) : EntryMatches(left[i])
         /\ Len(left) <= MaxRemembered
<1>1. remembered \in Seq(Entry) /\ MaxRemembered \in Nat
  BY ReportCacheAssumption DEF TypeOK
<1>2. CASE left = remembered
  BY <1>2 DEF TypeOK, MatchInv, CapInv
<1>3. CASE left # remembered
  <2>1. PICK i \in 1..Len(remembered) : left = RemoveAt(remembered, i)
    BY <1>1, <1>3 DEF AfterGet
  <2> DEFINE before == SubSeq(remembered, 1, i - 1)
             after == SubSeq(remembered, i + 1, Len(remembered))
  <2>2. /\ before \in Seq(Entry) /\ Len(before) = i - 1
        /\ \A j \in 1..Len(before) : before[j] = remembered[j]
    BY <1>1
  <2>3. /\ after \in Seq(Entry) /\ Len(after) = Len(remembered) - i
        /\ \A j \in 1..Len(after) : after[j] = remembered[i + j]
    BY <1>1
  <2>4. left = before \o after
    BY <2>1 DEF RemoveAt
  <2> HIDE DEF before, after
  <2>5. left \in Seq(Entry) /\ Len(left) = Len(remembered) - 1
    BY <1>1, <2>2, <2>3, <2>4
  <2>6. ASSUME NEW j \in 1..Len(left) PROVE EntryMatches(left[j])
    <3>1. left[j] = IF j <= Len(before) THEN before[j] ELSE after[j - Len(before)]
      BY <2>2, <2>3, <2>4, <2>5
    <3>2. Len(remembered) \in Nat /\ j \in 1..Len(remembered) - 1
      BY <1>1, <2>5
    <3>3. CASE j <= Len(before)
      <4>1. j \in 1..Len(before) /\ j \in 1..Len(remembered)
        BY <2>2, <3>2, <3>3
      <4>2. left[j] = remembered[j]
        BY <2>2, <3>1, <3>3, <4>1
      <4> QED BY <4>1, <4>2 DEF MatchInv
    <3>4. CASE ~(j <= Len(before))
      <4>1. j - Len(before) \in 1..Len(after) /\ i + (j - Len(before)) \in 1..Len(remembered)
        BY <2>2, <2>3, <3>2, <3>4
      <4>2. left[j] = remembered[i + (j - Len(before))]
        BY <2>3, <3>1, <3>4, <4>1
      <4> QED BY <4>1, <4>2 DEF MatchInv
    <3> QED BY <3>3, <3>4
  <2> QED BY <1>1, <2>5, <2>6 DEF CapInv
<1> QED BY <1>2, <1>3

\* A report found under a URL matches it.
LEMMA RememberedMatches ==
  ASSUME TypeOK, MatchInv, NEW u \in Urls, NEW z \in Remembered(u)
  PROVE  z \in Report /\ RunMatches(z.run, u)
<1>1. PICK i \in 1..Len(remembered) : z = remembered[i].report /\ remembered[i].url = u
  BY DEF Remembered, ToSet, TypeOK
<1>2. remembered[i] \in Entry /\ EntryMatches(remembered[i])
  BY <1>1 DEF TypeOK, MatchInv
<1> QED BY <1>1, <1>2 DEF EntryMatches, Entry

------------------------------------------------------------------------------
(* Steps *)

\* The first state is one of the invariant.
LEMMA InitIInv == Init => IInv
<1> SUFFICES ASSUME Init PROVE IInv
  OBVIOUS
<1> USE ReportCacheAssumption DEF Init
<1>1. NoRequest \in Locals /\ NoRequest.pc = "idle" /\ NoRequest.run = None
      /\ NoRequest.report = None /\ NoRequest.copy = None
  BY DEF NoRequest, Locals
<1>2. TypeOK
  BY <1>1 DEF TypeOK
<1>3. MatchInv
  BY <1>1 DEF MatchInv, LocalMatches
<1>4. CapInv
  BY DEF CapInv
<1>5. AgeInv
  BY <1>1 DEF AgeInv, LocalAge
<1> QED BY <1>2, <1>3, <1>4, <1>5 DEF IInv

\* A step of one request keeps the invariant if what it leaves of the request's
\* locals and of the memory is as the invariant says.
LEMMA OneRequestSteps ==
  ASSUME IInv, NEW r \in Requests,
         req' = [req EXCEPT ![r] = req'[r]],
         req'[r] \in Locals,
         req'[r].pc # "idle" => req'[r].session \in Sessions /\ req'[r].url \in Urls,
         LocalMatches(req'[r]), LocalAge(req'[r]),
         UNCHANGED <<now, data, reloadedAt>>,
         \A s \in Sessions : stored'[s] \in {stored[s]} \cup {req[r].copy},
         stored' \in [Sessions -> Run \cup {None}],
         remembered' \in Seq(Entry),
         \A i \in 1..Len(remembered') : EntryMatches(remembered'[i]),
         Len(remembered') <= MaxRemembered
  PROVE  IInv'
<1>1. \A q \in Requests : req'[q] = IF q = r THEN req'[r] ELSE req[q]
  BY DEF IInv, TypeOK
<1>2. TypeOK'
  <2>1. req' \in [Requests -> Locals]
    BY DEF IInv, TypeOK
  <2> QED BY <1>1, <2>1 DEF IInv, TypeOK
<1>3. MatchInv'
  BY <1>1 DEF IInv, MatchInv, LocalMatches
<1>4. CapInv'
  BY DEF CapInv
<1>5. AgeInv'
  <2>1. \A q \in Requests : LocalAge(req[q])'
    BY <1>1 DEF IInv, AgeInv, LocalAge, Recent
  <2>2. \A s \in Sessions : stored'[s] # None =>
          /\ stored'[s].ranAt <= now
          /\ reloadedAt[stored'[s].data] # None => stored'[s].ranAt <= reloadedAt[stored'[s].data] + 1
    BY DEF IInv, AgeInv, LocalAge, Recent
  <2> QED BY <2>1, <2>2 DEF IInv, AgeInv, Recent
<1> QED BY <1>2, <1>3, <1>4, <1>5 DEF IInv

\* The same, for a step that leaves the memory and the sessions alone.
LEMMA OneRequestOnly ==
  ASSUME IInv, NEW r \in Requests,
         req' = [req EXCEPT ![r] = req'[r]],
         req'[r] \in Locals,
         req'[r].pc # "idle" => req'[r].session \in Sessions /\ req'[r].url \in Urls,
         LocalMatches(req'[r]), LocalAge(req'[r]),
         UNCHANGED <<now, data, reloadedAt, stored, remembered>>
  PROVE  IInv'
<1>1. /\ \A s \in Sessions : stored'[s] \in {stored[s]} \cup {req[r].copy}
      /\ stored' \in [Sessions -> Run \cup {None}]
      /\ remembered' \in Seq(Entry)
      /\ \A i \in 1..Len(remembered') : EntryMatches(remembered'[i])
      /\ Len(remembered') <= MaxRemembered
  BY DEF IInv, TypeOK, MatchInv, CapInv
<1> QED BY <1>1, OneRequestSteps

\* A request arrives with the run its session was left with.
LEMMA ArriveStep ==
  ASSUME IInv, NEW r \in Requests, NEW s \in Sessions, NEW u \in Urls, NEW k \in Kinds,
         Arrive(r, s, u, k)
  PROVE  IInv'
<1> DEFINE l == [NoRequest EXCEPT !.pc = IF k = "download" THEN "lookup" ELSE "run",
                   !.session = s, !.url = u, !.kind = k, !.copy = stored[s]]
<1>1. req' = [req EXCEPT ![r] = l] /\ req'[r] = l
  BY DEF Arrive, IInv, TypeOK
<1>2. /\ l \in Locals /\ l.session = s /\ l.url = u /\ l.copy = stored[s]
      /\ l.run = None /\ l.report = None /\ l.pc \in {"lookup", "run"}
  <2>1. NoRequest \in Locals /\ NoRequest.run = None /\ NoRequest.report = None
    BY ReportCacheAssumption DEF NoRequest, Locals
  <2>2. stored[s] \in Run \cup {None}
    BY DEF IInv, TypeOK
  <2> DEFINE first == IF k = "download" THEN "lookup" ELSE "run"
  <2>3. first \in {"lookup", "run"}
    OBVIOUS
  <2> HIDE DEF first
  <2>4. l = [NoRequest EXCEPT !.pc = first, !.session = s, !.url = u, !.kind = k, !.copy = stored[s]]
    BY DEF first
  <2> HIDE DEF l
  <2> QED BY <2>1, <2>2, <2>3, <2>4 DEF Locals
<1> HIDE DEF l
<1>3. LocalMatches(l)
  BY <1>2 DEF LocalMatches
<1>4. LocalAge(l)
  BY <1>2 DEF LocalAge, IInv, AgeInv
<1>5. UNCHANGED <<now, data, reloadedAt, stored, remembered>>
  BY DEF Arrive
<1> QED BY <1>1, <1>2, <1>3, <1>4, <1>5, OneRequestOnly

\* A step that moves a request on and gives it nothing new but, perhaps, a
\* report that matches its URL.
LEMMA MovesOn ==
  ASSUME IInv, NEW r \in Requests, req[r].pc # "idle",
         NEW next \in {"run", "building", "answer"},
         next = "building" => req[r].pc = "report",
         NEW z, z = req[r].report \/ (z \in Report /\ RunMatches(z.run, req[r].url)),
         NEW b \in 0..MaxTime, NEW f \in 0..MaxData,
         req' = [req EXCEPT ![r] = [req[r] EXCEPT !.pc = next, !.report = z,
                                      !.began = b, !.found = f]]
  PROVE  /\ req' = [req EXCEPT ![r] = req'[r]]
         /\ req'[r] \in Locals
         /\ req'[r].session \in Sessions /\ req'[r].url \in Urls
         /\ LocalMatches(req'[r]) /\ LocalAge(req'[r])
<1> DEFINE l == [req[r] EXCEPT !.pc = next, !.report = z, !.began = b, !.found = f]
<1>1. req[r] \in Locals /\ req[r].session \in Sessions /\ req[r].url \in Urls
  BY DEF IInv, TypeOK
<1>2. req'[r] = l /\ req' = [req EXCEPT ![r] = l]
  BY DEF IInv, TypeOK
<1>3. /\ l \in Locals /\ l.session = req[r].session /\ l.url = req[r].url /\ l.run = req[r].run
      /\ l.copy = req[r].copy /\ l.pc = next /\ l.report = z
  <2>1. z \in Report \cup {None}
    BY <1>1 DEF Locals
  <2>2. next \in {"idle", "lookup", "run", "screening", "report", "building", "answer"}
    OBVIOUS
  <2> QED BY <1>1, <2>1, <2>2 DEF Locals
<1>4. LocalMatches(req[r]) /\ LocalAge(req[r])
  BY DEF IInv, MatchInv, AgeInv
<1> HIDE DEF l
<1>5. LocalMatches(l)
  BY <1>3, <1>4 DEF LocalMatches
<1>6. LocalAge(l)
  BY <1>3, <1>4 DEF LocalAge
<1> QED BY <1>1, <1>2, <1>3, <1>5, <1>6

\* What a get left of the memory, or a report remembered beside its URL, is
\* memory as the invariant wants it.
LEMMA MemoryKept ==
  ASSUME IInv, NEW r \in Requests, req[r].url \in Urls,
         \/ remembered' = remembered
         \/ remembered' \in AfterGet(req[r].url)
         \/ \E z \in Report : /\ RunMatches(z.run, req[r].url)
                              /\ remembered' = Remember(remembered, EntryOf(r, z))
  PROVE  /\ remembered' \in Seq(Entry)
         /\ \A i \in 1..Len(remembered') : EntryMatches(remembered'[i])
         /\ Len(remembered') <= MaxRemembered
<1>1. /\ remembered \in Seq(Entry) /\ \A i \in 1..Len(remembered) : EntryMatches(remembered[i])
      /\ Len(remembered) <= MaxRemembered
  BY DEF IInv, TypeOK, MatchInv, CapInv
<1>2. CASE remembered' = remembered
  BY <1>1, <1>2
<1>3. CASE remembered' \in AfterGet(req[r].url)
  BY <1>3, AfterGetKeeps DEF IInv
<1>4. CASE \E z \in Report : /\ RunMatches(z.run, req[r].url)
                             /\ remembered' = Remember(remembered, EntryOf(r, z))
  <2>1. PICK z \in Report : /\ RunMatches(z.run, req[r].url)
                            /\ remembered' = Remember(remembered, EntryOf(r, z))
    BY <1>4
  <2>2. EntryOf(r, z) \in Entry /\ EntryMatches(EntryOf(r, z))
    BY <2>1 DEF EntryOf, Entry, EntryMatches, IInv, TypeOK
  <2> QED BY <1>1, <2>1, <2>2, RememberKeeps
<1> QED BY <1>2, <1>3, <1>4

\* A request's sessions are left alone by every step but its last.
LEMMA SessionsKept ==
  ASSUME IInv, NEW r \in Requests, UNCHANGED stored
  PROVE  /\ \A s \in Sessions : stored'[s] \in {stored[s]} \cup {req[r].copy}
         /\ stored' \in [Sessions -> Run \cup {None}]
BY DEF IInv, TypeOK

\* Steps that move on: a lookup, a failure, a report found or to be built.
LEMMA MovesOnSteps ==
  ASSUME IInv, NEW r \in Requests,
         Lookup(r) \/ RunFails(r) \/ RememberAgain(r) \/ Build(r) \/ BuildFails(r)
  PROVE  IInv'
<1> DEFINE Move(next, z, b, f) ==
      req' = [req EXCEPT ![r] = [req[r] EXCEPT !.pc = next, !.report = z, !.began = b, !.found = f]]
<1>1. req[r] \in Locals /\ req \in [Requests -> Locals] /\ req[r].pc # "idle"
  BY DEF IInv, TypeOK, Lookup, RunFails, RememberAgain, Build, BuildFails
<1>2. req[r].url \in Urls /\ req[r].began \in 0..MaxTime /\ req[r].found \in 0..MaxData
  BY <1>1 DEF IInv, TypeOK, Locals
<1>3. 0 \in 0..MaxTime /\ 0 \in 0..MaxData
  BY ReportCacheAssumption
<1>4. \A z \in Remembered(req[r].url) : z \in Report /\ RunMatches(z.run, req[r].url)
  BY <1>2, RememberedMatches DEF IInv
<1>5. \E next \in {"run", "building", "answer"}, b \in 0..MaxTime, f \in 0..MaxData, z \in {req[r].report} \cup Report :
        /\ Move(next, z, b, f)
        /\ next = "building" => req[r].pc = "report"
        /\ z # req[r].report => RunMatches(z.run, req[r].url)
        /\ \/ remembered' = remembered
           \/ remembered' \in AfterGet(req[r].url)
           \/ RunMatches(z.run, req[r].url) /\ z \in Report /\ remembered' = Remember(remembered, EntryOf(r, z))
  <2>1. CASE Lookup(r)
    <3>1. CASE req' = [req EXCEPT ![r].pc = "run"]
      <4>1. Move("run", req[r].report, req[r].began, req[r].found)
        BY <1>1, <3>1 DEF Locals
      <4> QED BY <1>2, <2>1, <4>1 DEF Lookup
    <3>2. CASE \E z \in Remembered(req[r].url) : req' = [req EXCEPT ![r].pc = "answer", ![r].report = z]
      <4>1. PICK z \in Remembered(req[r].url) : req' = [req EXCEPT ![r].pc = "answer", ![r].report = z]
        BY <3>2
      <4>2. Move("answer", z, req[r].began, req[r].found)
        BY <1>1, <4>1 DEF Locals
      <4> QED BY <1>2, <1>4, <2>1, <4>2 DEF Lookup
    <3> QED BY <2>1, <3>1, <3>2 DEF Lookup
  <2>2. CASE RunFails(r)
    <3>1. Move("answer", req[r].report, 0, 0)
      BY <1>1, <2>2 DEF RunFails, Locals
    <3> QED BY <1>3, <2>2, <3>1 DEF RunFails
  <2>3. CASE RememberAgain(r)
    <3>1. PICK z \in Remembered(req[r].url) :
            /\ req' = [req EXCEPT ![r].pc = "answer", ![r].report = z]
            /\ remembered' = Remember(remembered, EntryOf(r, z))
      BY <2>3 DEF RememberAgain
    <3>2. Move("answer", z, req[r].began, req[r].found)
      BY <1>1, <3>1 DEF Locals
    <3> QED BY <1>2, <1>4, <3>1, <3>2
  <2>4. CASE Build(r)
    <3>1. Move("building", req[r].report, req[r].began, req[r].found)
      BY <1>1, <2>4 DEF Build, Locals
    <3> QED BY <1>2, <2>4, <3>1 DEF Build
  <2>5. CASE BuildFails(r)
    <3>1. Move("answer", req[r].report, req[r].began, req[r].found)
      BY <1>1, <2>5 DEF BuildFails, Locals
    <3> QED BY <1>2, <2>5, <3>1 DEF BuildFails
  <2> QED BY <2>1, <2>2, <2>3, <2>4, <2>5
<1>6. PICK next \in {"run", "building", "answer"}, b \in 0..MaxTime, f \in 0..MaxData, z \in {req[r].report} \cup Report :
        /\ Move(next, z, b, f)
        /\ next = "building" => req[r].pc = "report"
        /\ z # req[r].report => RunMatches(z.run, req[r].url)
        /\ \/ remembered' = remembered
           \/ remembered' \in AfterGet(req[r].url)
           \/ RunMatches(z.run, req[r].url) /\ z \in Report /\ remembered' = Remember(remembered, EntryOf(r, z))
  BY <1>5
<1>7. /\ req' = [req EXCEPT ![r] = req'[r]] /\ req'[r] \in Locals
      /\ req'[r].session \in Sessions /\ req'[r].url \in Urls
      /\ LocalMatches(req'[r]) /\ LocalAge(req'[r])
  BY <1>1, <1>6, MovesOn
<1>8. UNCHANGED <<now, data, reloadedAt, stored>>
  BY DEF Lookup, RunFails, RememberAgain, Build, BuildFails
<1>9. /\ remembered' \in Seq(Entry)
      /\ \A i \in 1..Len(remembered') : EntryMatches(remembered'[i])
      /\ Len(remembered') <= MaxRemembered
  BY <1>2, <1>6, MemoryKept
<1> HIDE DEF Move
<1> QED BY <1>7, <1>8, <1>9, SessionsKept, OneRequestSteps

\* A request goes by the run of its session, which is of its case and ruleset.
LEMMA UseStoredRunStep ==
  ASSUME IInv, NEW r \in Requests, UseStoredRun(r)
  PROVE  IInv'
<1> DEFINE l == [req[r] EXCEPT !.pc = AfterRun(r), !.run = req[r].copy]
<1>1. /\ req[r] \in Locals /\ req[r].pc # "idle" /\ LocalMatches(req[r]) /\ LocalAge(req[r])
      /\ req[r].session \in Sessions /\ req[r].url \in Urls
  BY DEF IInv, TypeOK, MatchInv, AgeInv, UseStoredRun
<1>2. req' = [req EXCEPT ![r] = l] /\ req'[r] = l
  BY <1>1 DEF UseStoredRun, IInv, TypeOK, Locals
<1>3. AfterRun(r) \in {"answer", "report"}
  BY DEF AfterRun
<1>4. req[r].copy \in Run /\ RunMatches(req[r].copy, req[r].url)
  BY <1>1 DEF UseStoredRun, Fits, RunMatches, Locals
<1>5. /\ l \in Locals /\ l.session = req[r].session /\ l.url = req[r].url /\ l.run = req[r].copy
      /\ l.copy = req[r].copy /\ l.report = req[r].report /\ l.pc = AfterRun(r)
  <2> HIDE DEF AfterRun
  <2> QED BY <1>1, <1>3, <1>4 DEF Locals
<1> HIDE DEF l
<1>6. LocalMatches(l)
  BY <1>1, <1>4, <1>5 DEF LocalMatches
<1>7. LocalAge(l)
  BY <1>1, <1>3, <1>5 DEF LocalAge
<1>8. UNCHANGED <<now, data, reloadedAt, stored, remembered>>
  BY DEF UseStoredRun
<1> QED BY <1>1, <1>2, <1>5, <1>6, <1>7, <1>8, OneRequestOnly

\* A screening begins now, on data that nothing has replaced.
LEMMA ScreenStep ==
  ASSUME IInv, NEW r \in Requests, Screen(r)
  PROVE  IInv'
<1> DEFINE l == [req[r] EXCEPT !.pc = "screening", !.began = now, !.found = data]
<1>1. /\ req[r] \in Locals /\ req[r].pc # "idle" /\ LocalMatches(req[r]) /\ LocalAge(req[r])
      /\ req[r].session \in Sessions /\ req[r].url \in Urls
      /\ now \in 0..MaxTime /\ data \in 0..MaxData /\ reloadedAt[data] = None
  BY DEF IInv, TypeOK, MatchInv, AgeInv, Screen
<1>2. req' = [req EXCEPT ![r] = l] /\ req'[r] = l
  BY <1>1 DEF Screen, IInv, TypeOK, Locals
<1>3. /\ l \in Locals /\ l.session = req[r].session /\ l.url = req[r].url /\ l.run = req[r].run
      /\ l.copy = req[r].copy /\ l.report = req[r].report /\ l.pc = "screening"
      /\ l.began = now /\ l.found = data
  BY <1>1 DEF Locals
<1> HIDE DEF l
<1>4. LocalMatches(l)
  BY <1>1, <1>3 DEF LocalMatches
<1>5. LocalAge(l)
  BY <1>1, <1>3 DEF LocalAge
<1>6. UNCHANGED <<now, data, reloadedAt, stored, remembered>>
  BY DEF Screen
<1> QED BY <1>1, <1>2, <1>3, <1>4, <1>5, <1>6, OneRequestOnly

\* The run that is kept is of the request's case and ruleset, and within a tick
\* of the data it found.
LEMMA KeepRunStep ==
  ASSUME IInv, NEW r \in Requests, KeepRun(r)
  PROVE  IInv'
<1> DEFINE run == [case |-> CaseOf[req[r].url], ruleset |-> RulesetOf[req[r].url],
                   ranAt |-> now, data |-> req[r].found]
           l == [req[r] EXCEPT !.pc = AfterRun(r), !.run = run, !.copy = run,
                   !.changed = TRUE, !.began = 0, !.found = 0]
<1>1. /\ req[r] \in Locals /\ req[r].pc = "screening" /\ LocalMatches(req[r]) /\ LocalAge(req[r])
      /\ req[r].session \in Sessions /\ req[r].url \in Urls
      /\ now \in 0..MaxTime /\ req[r].found \in 0..MaxData /\ req[r].began \in 0..MaxTime
  BY DEF IInv, TypeOK, MatchInv, AgeInv, KeepRun, Locals
<1>2. req' = [req EXCEPT ![r] = l] /\ req'[r] = l
  BY <1>1 DEF KeepRun, IInv, TypeOK, Locals
<1>3. AfterRun(r) \in {"answer", "report"}
  BY DEF AfterRun
<1>4. run \in Run /\ RunMatches(run, req[r].url) /\ run.data = req[r].found /\ run.ranAt = now
  BY <1>1, ReportCacheAssumption DEF Run, RunMatches
<1>5. /\ l \in Locals /\ l.session = req[r].session /\ l.url = req[r].url /\ l.run = run
      /\ l.copy = run /\ l.report = req[r].report /\ l.pc = AfterRun(r)
  <2>1. 0 \in 0..MaxTime /\ 0 \in 0..MaxData
    BY ReportCacheAssumption
  <2> HIDE DEF AfterRun, run
  <2> QED BY <1>1, <1>3, <1>4, <2>1 DEF Locals
<1>6. Recent(run.data, run.ranAt)
  <2>1. reloadedAt[req[r].found] # None => reloadedAt[req[r].found] \in 0..MaxTime
    BY <1>1 DEF IInv, AgeInv
  <2> QED BY <1>1, <1>4, <2>1 DEF Recent, LocalAge
<1> HIDE DEF l, run
<1>7. LocalMatches(l)
  BY <1>1, <1>4, <1>5 DEF LocalMatches
<1>8. LocalAge(l)
  BY <1>3, <1>5, <1>6 DEF LocalAge
<1>9. UNCHANGED <<now, data, reloadedAt, stored, remembered>>
  BY DEF KeepRun
<1> QED BY <1>1, <1>2, <1>5, <1>7, <1>8, <1>9, OneRequestOnly

\* A report is built from the run of its request.
LEMMA BuiltStep ==
  ASSUME IInv, NEW r \in Requests, Built(r)
  PROVE  IInv'
<1> DEFINE report == [run |-> req[r].run, builtBy |-> req[r].session]
           l == [req[r] EXCEPT !.pc = "answer", !.report = report]
<1>1. /\ req[r] \in Locals /\ req[r].pc = "building" /\ LocalMatches(req[r]) /\ LocalAge(req[r])
      /\ req[r].session \in Sessions /\ req[r].url \in Urls
  BY DEF IInv, TypeOK, MatchInv, AgeInv, Built
<1>2. req' = [req EXCEPT ![r] = l] /\ req'[r] = l
  BY <1>1 DEF Built, IInv, TypeOK, Locals
<1>3. report \in Report /\ report.run = req[r].run /\ RunMatches(report.run, req[r].url)
  BY <1>1 DEF Report, LocalMatches
<1>4. /\ l \in Locals /\ l.session = req[r].session /\ l.url = req[r].url /\ l.run = req[r].run
      /\ l.copy = req[r].copy /\ l.report = report /\ l.pc = "answer"
  <2> HIDE DEF report
  <2> QED BY <1>1, <1>3 DEF Locals
<1>5. \/ remembered' = remembered
      \/ remembered' = Remember(remembered, EntryOf(r, report))
  BY DEF Built
<1> HIDE DEF l, report
<1>6. LocalMatches(l)
  BY <1>1, <1>3, <1>4 DEF LocalMatches
<1>7. LocalAge(l)
  BY <1>1, <1>4 DEF LocalAge
<1>8. /\ remembered' \in Seq(Entry)
      /\ \A i \in 1..Len(remembered') : EntryMatches(remembered'[i])
      /\ Len(remembered') <= MaxRemembered
  BY <1>1, <1>3, <1>5, MemoryKept
<1>9. UNCHANGED <<now, data, reloadedAt, stored>>
  BY DEF Built
<1> QED BY <1>1, <1>2, <1>4, <1>6, <1>7, <1>8, <1>9, SessionsKept, OneRequestSteps

\* A session is left with the run its request had.
LEMMA AnswerStep ==
  ASSUME IInv, NEW r \in Requests, Answer(r)
  PROVE  IInv'
<1>1. NoRequest \in Locals /\ LocalMatches(NoRequest) /\ LocalAge(NoRequest) /\ NoRequest.pc = "idle"
  BY ReportCacheAssumption DEF NoRequest, Locals, LocalMatches, LocalAge
<1>2. req' = [req EXCEPT ![r] = NoRequest] /\ req'[r] = NoRequest
  BY DEF Answer, IInv, TypeOK
<1>3. req[r].copy \in Run \cup {None} /\ req[r].session \in Sessions
  BY DEF Answer, IInv, TypeOK, Locals
<1>4. /\ \A s \in Sessions : stored'[s] \in {stored[s]} \cup {req[r].copy}
      /\ stored' \in [Sessions -> Run \cup {None}]
  BY <1>3 DEF Answer, IInv, TypeOK
<1>5. UNCHANGED <<now, data, reloadedAt, remembered>>
  BY DEF Answer
<1>6. /\ remembered' \in Seq(Entry)
      /\ \A i \in 1..Len(remembered') : EntryMatches(remembered'[i])
      /\ Len(remembered') <= MaxRemembered
  BY <1>5 DEF IInv, TypeOK, MatchInv, CapInv
<1> QED BY <1>1, <1>2, <1>4, <1>5, <1>6, OneRequestSteps

\* The data are replaced: the runs made on them are not from later than now.
LEMMA ReloadStep ==
  ASSUME IInv, Reload
  PROVE  IInv'
<1>1. /\ now \in 0..MaxTime /\ data \in 0..MaxData /\ data + 1 \in 0..MaxData
      /\ data' = data + 1 /\ now' = now
      /\ reloadedAt' = [reloadedAt EXCEPT ![data] = now]
      /\ UNCHANGED <<stored, remembered, req>>
  BY ReportCacheAssumption DEF Reload, IInv, TypeOK
<1>2. \A d \in 0..MaxData : reloadedAt'[d] = IF d = data THEN now ELSE reloadedAt[d]
  BY <1>1 DEF IInv, TypeOK
<1>3. TypeOK'
  BY <1>1 DEF IInv, TypeOK
<1>4. MatchInv' /\ CapInv'
  BY <1>1 DEF IInv, MatchInv, CapInv
<1>5. ASSUME NEW run \in Run, Recent(run.data, run.ranAt)
      PROVE  run.ranAt <= now /\ (reloadedAt'[run.data] # None => run.ranAt <= reloadedAt'[run.data] + 1)
  BY <1>1, <1>2, <1>5 DEF Recent, Run
<1>6. \A s \in Sessions : stored[s] # None =>
         stored[s].ranAt <= now
           /\ (reloadedAt'[stored[s].data] # None => stored[s].ranAt <= reloadedAt'[stored[s].data] + 1)
  BY <1>5 DEF IInv, TypeOK, AgeInv
<1>7. ASSUME NEW r \in Requests PROVE LocalAge(req[r])'
  <2>1. req[r] \in Locals /\ LocalAge(req[r])
    BY DEF IInv, TypeOK, AgeInv
  <2>2. req[r].copy # None => Recent(req[r].copy.data, req[r].copy.ranAt)'
    BY <1>1, <1>5, <2>1 DEF LocalAge, Locals, Recent
  <2>3. req[r].pc = "screening" =>
          /\ req[r].began <= now /\ now <= req[r].began + 1
          /\ reloadedAt'[req[r].found] # None => req[r].began <= reloadedAt'[req[r].found]
    BY <1>1, <1>2, <2>1 DEF LocalAge, Locals
  <2> QED BY <1>1, <2>2, <2>3 DEF LocalAge
<1>8. /\ \A d \in 0..MaxData : d >= data' => reloadedAt'[d] = None
      /\ \A d \in 0..MaxData : reloadedAt'[d] # None => reloadedAt'[d] \in 0..MaxTime
  BY <1>1, <1>2 DEF IInv, AgeInv
<1>9. AgeInv'
  BY <1>1, <1>6, <1>7, <1>8 DEF AgeInv, Recent
<1> QED BY <1>3, <1>4, <1>9 DEF IInv

\* Time passes, but for a screening that has seen it pass.
LEMMA TickStep ==
  ASSUME IInv, Tick
  PROVE  IInv'
<1>1. /\ now \in 0..MaxTime /\ now + 1 \in 0..MaxTime /\ now' = now + 1
      /\ \A r \in Requests : req[r].pc = "screening" => req[r].began = now
      /\ UNCHANGED <<data, reloadedAt, stored, remembered, req>>
  BY ReportCacheAssumption DEF Tick, IInv, TypeOK
<1>2. TypeOK'
  BY <1>1 DEF IInv, TypeOK
<1>3. MatchInv' /\ CapInv'
  BY <1>1 DEF IInv, MatchInv, CapInv
<1>4. ASSUME NEW run \in Run, Recent(run.data, run.ranAt)
      PROVE  Recent(run.data, run.ranAt)'
  BY <1>1, <1>4 DEF Recent, Run
<1>5. ASSUME NEW r \in Requests PROVE LocalAge(req[r])'
  <2>1. req[r] \in Locals /\ LocalAge(req[r])
    BY DEF IInv, TypeOK, AgeInv
  <2>2. req[r].copy # None => Recent(req[r].copy.data, req[r].copy.ranAt)'
    BY <1>1, <1>4, <2>1 DEF LocalAge, Locals, Recent
  <2>3. req[r].pc = "screening" => req[r].began <= now' /\ now' <= req[r].began + 1
    BY <1>1
  <2> QED BY <1>1, <2>1, <2>2, <2>3 DEF LocalAge
<1>6. \A s \in Sessions : stored[s] # None => Recent(stored[s].data, stored[s].ranAt)'
  BY <1>1, <1>4 DEF IInv, TypeOK, AgeInv, Recent
<1>7. AgeInv'
  BY <1>1, <1>5, <1>6 DEF IInv, AgeInv, Recent
<1> QED BY <1>2, <1>3, <1>7 DEF IInv

\* A restart leaves the sessions and nothing else.
LEMMA RestartStep ==
  ASSUME IInv, Restart
  PROVE  IInv'
<1>1. /\ NoRequest \in Locals /\ LocalMatches(NoRequest) /\ LocalAge(NoRequest)
      /\ NoRequest.pc = "idle" /\ MaxRemembered \in Nat
  BY ReportCacheAssumption DEF NoRequest, Locals, LocalMatches, LocalAge
<1>2. /\ remembered' = <<>> /\ req' = [r \in Requests |-> NoRequest]
      /\ UNCHANGED <<now, data, reloadedAt, stored>>
  BY DEF Restart
<1>3. TypeOK'
  BY <1>1, <1>2 DEF IInv, TypeOK
<1>4. MatchInv' /\ CapInv'
  BY <1>1, <1>2 DEF MatchInv, CapInv, LocalMatches
<1>5. AgeInv'
  <2>1. \A r \in Requests : LocalAge(req[r])'
    BY <1>1, <1>2 DEF LocalAge, Recent
  <2> QED BY <1>2, <2>1 DEF IInv, AgeInv, Recent
<1> QED BY <1>3, <1>4, <1>5 DEF IInv

\* Every step keeps the invariant.
LEMMA NextIInv == IInv /\ [Next]_vars => IInv'
<1> SUFFICES ASSUME IInv, [Next]_vars PROVE IInv'
  OBVIOUS
<1>1. ASSUME NEW r \in Requests, Step(r) PROVE IInv'
  BY <1>1, MovesOnSteps, UseStoredRunStep, ScreenStep, KeepRunStep, BuiltStep, AnswerStep DEF Step
<1>2. ASSUME NEW r \in Requests, NEW s \in Sessions, NEW u \in Urls, NEW k \in Kinds, Arrive(r, s, u, k)
      PROVE  IInv'
  BY <1>2, ArriveStep
<1>3. CASE UNCHANGED vars
  BY <1>3 DEF vars, IInv, TypeOK, MatchInv, LocalMatches, CapInv, AgeInv, LocalAge, Recent
<1> QED BY <1>1, <1>2, <1>3, ReloadStep, TickStep, RestartStep DEF Next

\* Only two steps give a request a run: one it has stored is younger than
\* MaxAge and made at most a tick after its data were replaced; one the function
\* just answered with was asked for at most a tick ago, before they were.
LEMMA RunsAreRecent ==
  ASSUME IInv, [Next]_vars, NEW r \in Requests, req'[r].run # None, req'[r].run # req[r].run,
         reloadedAt[req'[r].run.data] # None
  PROVE  now - reloadedAt[req'[r].run.data] <= MaxAge
<1>1. /\ req \in [Requests -> Locals] /\ now \in Int /\ MaxAge \in Nat \ {0}
      /\ \A d \in 0..MaxData : reloadedAt[d] # None => reloadedAt[d] \in Int
      /\ LocalAge(req[r])
  BY ReportCacheAssumption DEF IInv, TypeOK, AgeInv
<1>2. CASE UseStoredRun(r)
  <2>1. req'[r].run = req[r].copy
    BY <1>1, <1>2 DEF UseStoredRun, Locals
  <2>2. req[r].copy \in Run /\ now - req[r].copy.ranAt < MaxAge
    BY <1>1, <1>2 DEF UseStoredRun, Fits, Locals
  <2>3. req[r].copy.ranAt <= reloadedAt[req[r].copy.data] + 1
    BY <1>1, <2>1, <2>2 DEF LocalAge, Recent
  <2>4. req[r].copy.ranAt \in Int /\ reloadedAt[req[r].copy.data] \in Int
    BY <1>1, <2>1, <2>2 DEF Run
  <2> QED BY <1>1, <2>1, <2>2, <2>3, <2>4
<1>3. CASE KeepRun(r)
  <2>1. req'[r].run.data = req[r].found
    BY <1>1, <1>3 DEF KeepRun, Locals
  <2>2. /\ req[r].found \in 0..MaxData /\ req[r].began \in Int
        /\ now <= req[r].began + 1 /\ req[r].began <= reloadedAt[req[r].found]
    BY <1>1, <1>3, <2>1 DEF KeepRun, Locals, LocalAge
  <2>3. reloadedAt[req[r].found] \in Int
    BY <1>1, <2>1, <2>2
  <2> QED BY <1>1, <2>1, <2>2, <2>3
<1>4. CASE \E q \in Requests : q # r /\ Step(q)
  BY <1>1, <1>4 DEF Step, Lookup, UseStoredRun, Screen, KeepRun, RunFails, RememberAgain,
                   Build, Built, BuildFails, Answer
<1>5. CASE Step(r) /\ ~UseStoredRun(r) /\ ~KeepRun(r)
  <2>1. CASE Lookup(r) \/ Screen(r) \/ RunFails(r)
    BY <1>1, <2>1 DEF Lookup, Screen, RunFails, Locals
  <2>2. CASE RememberAgain(r) \/ Build(r) \/ Built(r) \/ BuildFails(r)
    BY <1>1, <2>2 DEF RememberAgain, Build, Built, BuildFails, Locals
  <2>3. CASE Answer(r)
    BY <1>1, <2>3 DEF Answer, NoRequest
  <2> QED BY <1>5, <2>1, <2>2, <2>3 DEF Step
<1>6. CASE \E q \in Requests, s \in Sessions, u \in Urls, k \in Kinds : Arrive(q, s, u, k)
  <2>1. PICK q \in Requests, s \in Sessions, u \in Urls, k \in Kinds : Arrive(q, s, u, k)
    BY <1>6
  <2> DEFINE l == [NoRequest EXCEPT !.pc = IF k = "download" THEN "lookup" ELSE "run",
                     !.session = s, !.url = u, !.kind = k, !.copy = stored[s]]
  <2>2. l.run = None
    BY DEF NoRequest
  <2>3. req' = [req EXCEPT ![q] = l]
    BY <2>1 DEF Arrive
  <2> HIDE DEF l
  <2> QED BY <1>1, <2>2, <2>3
<1>7. CASE Restart
  BY <1>7 DEF Restart, NoRequest
<1>8. CASE Reload \/ Tick \/ UNCHANGED vars
  BY <1>8 DEF Reload, Tick, vars
<1> QED BY <1>2, <1>3, <1>4, <1>5, <1>6, <1>7, <1>8 DEF Next

------------------------------------------------------------------------------
(* Theorems *)

\* Every step of every request keeps each variable to its kind.
THEOREM TypeCorrect == Spec => []TypeOK
<1>1. IInv => TypeOK
  BY DEF IInv
<1> QED BY <1>1, InitIInv, NextIInv, PTL DEF Spec

\* Whichever run the session store is left with, and whoever built a report, a
\* page lists and a report holds what was found for its URL's case and ruleset.
THEOREM PagesMatchTheirUrls == Spec => []OwnCaseAndRuleset
<1>1. IInv => OwnCaseAndRuleset
  BY DEF IInv, MatchInv, LocalMatches, RunMatches, OwnCaseAndRuleset
<1> QED BY <1>1, InitIInv, NextIInv, PTL DEF Spec

\* The process keeps no more reports than MAX_REMEMBERED_REPORTS, whatever the
\* cap: below it rememberReportZip may drop reports too, and at it it drops one.
THEOREM CapHolds == Spec => []FewRemembered
<1>1. IInv => FewRemembered
  BY DEF IInv, CapInv, FewRemembered
<1> QED BY <1>1, InitIInv, NextIInv, PTL DEF Spec

\* However often a session is saved again, and however late it is, no page goes
\* by data replaced longer ago than RULESET_RUN_MAX_AGE_MS.
THEOREM ReloadsArePickedUp == Spec => PicksUpReloads
<1>1. IInv /\ [Next]_vars =>
        [\A r \in Requests :
           req'[r].run \notin {None, req[r].run} /\ reloadedAt[req'[r].run.data] # None
             => now - reloadedAt[req'[r].run.data] <= MaxAge]_vars
  BY RunsAreRecent
<1> QED BY <1>1, InitIInv, NextIInv, PTL DEF Spec, PicksUpReloads

=============================================================================
