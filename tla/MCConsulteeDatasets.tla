------------------------- MODULE MCConsulteeDatasets -------------------------
(***************************************************************************)
(* Instances of ConsulteeDatasets for TLC: three groups, three quarters of *)
(* data (2026Q4, the quarter after and the one before), and files that     *)
(* replace, correct and refuse. A date counts months from January 2026.    *)
(***************************************************************************)
EXTENDS ConsulteeDatasetsPromise, TLC

CONSTANTS public, energy, forest, a1, a2, s1, s2, s3, s4

FileOf(g, date, areas) ==
  [group |-> g, date |-> date, areas |-> areas, duplicates |-> 0, foreign |-> FALSE]

\* forest is in the config and has no data yet.
MCGroups == {public, energy, forest}
MCGroupOrder == <<public, energy, forest>>
MCExportAreas == [g \in MCGroups |-> IF g = forest THEN {} ELSE {a1}]

\* 2026Q4's correction of a group, 2027Q1's file of each group and a later one
\* that holds an area twice, an archive file that comes too late, one that holds
\* another group's category and one that holds nothing.
PublicQ4 == FileOf(public, 9, {a1, a2})
PublicQ1 == FileOf(public, 12, {a1, a2})
PublicQ1Corrected == [FileOf(public, 14, {a2}) EXCEPT !.duplicates = 1]
EnergyQ1 == FileOf(energy, 13, {a1})
EnergyQ3 == FileOf(energy, 6, {a1})
Foreign == [FileOf(energy, 12, {a1}) EXCEPT !.foreign = TRUE]
Empty == FileOf(energy, 14, {})

SerialFiles == {PublicQ4, PublicQ1, PublicQ1Corrected, EnergyQ1, EnergyQ3, Foreign, Empty}
ConcurrentFiles == {PublicQ4, PublicQ1, PublicQ1Corrected, EnergyQ1}

RequestSymmetry == Permutations(Requests)

=============================================================================
