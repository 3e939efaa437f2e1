---------------------------- MODULE MCReportCache ----------------------------
(***************************************************************************)
(* Instances of ReportCache for TLC: one case and two rulesets, with two   *)
(* URLs of the first ruleset (two selections) and the rest of the second.  *)
(***************************************************************************)
EXTENDS ReportCache, TLC

CONSTANTS case1, nsip, local, u1, u2, u3, u4, r1, r2, t1

MCCaseOf == [u \in Urls |-> case1]
MCRulesetOf == [u \in Urls |-> IF u \in {u1, u2} THEN nsip ELSE local]

\* Bound: the reference data is reloaded, and time goes on past the first reports'
\* lives, only where every request so far was for a page.
OnlyPages == remembered = <<>> /\ \A r \in Requests : req[r].kind \in {"page", NoRequest.kind}
MCNext == Next /\ (data' > 0 \/ now' > MaxAge => OnlyPages')
MCSpec == Init /\ [][MCNext]_vars

RequestSymmetry == Permutations(Requests)

=============================================================================
