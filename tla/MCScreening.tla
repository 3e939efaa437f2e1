------------------------------ MODULE MCScreening ------------------------------
(***************************************************************************)
(* Instances of Screening for TLC: the site's own parish, one bordering it *)
(* that is near only by the covering outline, a hospital that is in reach  *)
(* or just out of it, and the railway; today's dataset and the quarter     *)
(* after, in which two of them have moved. Beside it, the time a run takes *)
(* (RunDeadline), and where the case boundaries that are screened come     *)
(* from (CaseSearch): a behaviour is of one of the three.                  *)
(***************************************************************************)
EXTENDS Screening, RunDeadline, CaseSearch, TLC

CONSTANTS host, neighbour, hospital, rail, today, later, unknown

CONSTANTS c1, c2, plan, access

VARIABLE part

At(category, site, cover, box) ==
  [category |-> category, site |-> site, cover |-> cover, box |-> box]
MCAreas == {host, neighbour, hospital, rail}
MCToday == host :> At("Parish", 0, 0, 0) @@ neighbour :> At("Parish", 4, 2, 2)
             @@ hospital :> At("Hospital", 3, 2, 1) @@ rail :> At("Railway", 1, 0, 0)
MCLater == [MCToday EXCEPT ![hospital] = At("Hospital", 4, 3, 3), ![rail] = At("Railway", 2, 1, 1)]
MCRowOf == today :> MCToday @@ later :> MCLater
MCFirstPresent == today :> MCAreas @@ later :> {host, hospital}
MCBorders == {<<host, neighbour>>, <<neighbour, host>>}
MCAroundHosts(hosts) == IF hosts = {} THEN {} ELSE {host, neighbour, rail}

Condition(logic, categories, buffer, hostCategory) ==
  [logic |-> logic, categories |-> categories, buffer |-> buffer, host |-> hostCategory]
MCRules == <<Condition("intersection", {"Hospital"}, 2, None),
             Condition("bordering", {"Parish"}, 0, "Parish"),
             Condition("intersection", {"Railway"}, 0, None)>>
MCRadiusByCategory == "Parish" :> 1 @@ "Hospital" :> 0

Request(dataset, box, detailed, coverable) ==
  [dataset |-> dataset, box |-> box, detailed |-> detailed, coverable |-> coverable]
MCAsked == {Request(None, FALSE, FALSE, FALSE), Request(None, FALSE, TRUE, TRUE),
            Request(None, FALSE, TRUE, FALSE), Request(None, TRUE, FALSE, FALSE),
            Request(later, FALSE, TRUE, TRUE), Request(unknown, FALSE, FALSE, FALSE)}

MCCaseOf == <<c1, c1, c2>>
MCCaseOrder == <<c1, c2>>
Upload(document, name, stamp, good) ==
  [document |-> document, name |-> name, stamp |-> stamp, good |-> good]
Stamped(name, date) == [name |-> name, date |-> date]
Bare == Stamped(Missing, Missing)

\* A version stamped earlier than it was saved, and one without a name that is stamped
\* with another's.
MCUploads ==
  {Upload(1, plan, Bare, TRUE), Upload(1, access, Bare, FALSE), Upload(2, plan, Stamped(access, 0), TRUE),
   Upload(2, Missing, Stamped(plan, Missing), TRUE), Upload(3, Missing, Bare, TRUE)}
Digit(x) == CASE x = c1 -> 1 [] x = c2 -> 2 [] x = plan -> 4 [] x = access -> 5 [] OTHER -> x
MCIdOf(id) == 0 - FoldLeft(LAMBDA n, name : 6 * n + Digit(name), Digit(id[1]), id[2])

\* Bound: an admin imports only where nothing has failed yet.
NoTrouble ==
  /\ \A e \in DOMAIN events : events[e].tries = 0
  /\ \A i \in {"subscriber", "admin"} : \A f \in imp[i].failures : ~f.good

\* In the other parts one dataset is in use first, and a request was answered long ago.
LongAnswered ==
  /\ now = MaxWait + AppTimeout + Overrun /\ began = 0 /\ app = "result" /\ fn = "200"
  /\ query = [q \in Queries |-> "done"] /\ tried = [q \in Queries |-> 0]

MCInit ==
  /\ part \in {"finds", "time", "boundaries"}
  /\ Init /\ (part # "finds" => inUse = today)
  /\ IF part = "time" THEN DeadlineInit ELSE LongAnswered
  /\ CbosInit
MCNext ==
  \/ part = "finds" /\ Next /\ UNCHANGED <<runVars, cbosVars, part>>
  \/ part = "time" /\ DeadlineNext /\ UNCHANGED <<vars, cbosVars, part>>
  \/ /\ part = "boundaries" /\ CbosNext /\ (begun' > 0 => NoTrouble')
     /\ UNCHANGED <<vars, runVars, part>>
MCSpec ==
  /\ MCInit /\ [][MCNext]_<<vars, runVars, cbosVars, part>>
  /\ DeadlineFairness /\ CbosFairness

\* What a run holds has its types, and a row of case_boundary is of its case.
TypesOK == TypeOK /\ CbosTypeOK

=============================================================================
