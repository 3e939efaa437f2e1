----------------------- MODULE ConsulteeDatasetsPromise -----------------------
(***************************************************************************)
(* ConsulteeDatasets keeps DatasetPromise while its calls are made one at  *)
(* a time, any of which may stop part-way.                                 *)
(***************************************************************************)
EXTENDS ConsulteeDatasets

CONSTANT Some   \* what a group holds that is not the whole of one file

ASSUME PromiseAssumption ==
  /\ Some \notin Files \cup {ReferenceExport, None}
  /\ ReferenceExport # None

\* The load that has taken its group's old rows out and not ended.
Begun(s) == pc[s] \in LoadSteps \ {"check", "create", "delete"}
LoadingFile ==
  IF \E s \in Requests : Begun(s) THEN file[CHOOSE s \in Requests : Begun(s)] ELSE None

\* Whose rows a set of a group's rows are: those of the file they all are, the
\* whole of it, or of the reference export.
ContentOf(g, R) ==
  IF R = {} THEN None
  ELSE IF \E f \in Files : R = FileRows(f) THEN CHOOSE f \in Files : R = FileRows(f)
  ELSE IF R = ExportAreas[g] \X {ReferenceExport} THEN ReferenceExport
  ELSE Some

\* What a quarter's table holds of a group: nothing while the group is being loaded.
Held(q, g) ==
  IF \E s \in Requests : Begun(s) /\ target[s] = q /\ file[s].group = g
  THEN None
  ELSE ContentOf(g, rows[q][g])

Contents == [q \in Quarters |-> [g \in Groups |-> Held(q, g)]]

GroupOfFile(f) == f.group

Promised == INSTANCE DatasetPromise WITH
  GroupOf <- GroupOfFile,
  PeriodOf <- FileQuarter,
  FirstContent <- [g \in Groups |-> IF ExportAreas[g] = {} THEN None ELSE ReferenceExport],
  Nothing <- None,
  content <- Contents,
  loading <- LoadingFile

\* The loader implements the promise: all its statements together replace a
\* group's rows by one file's, all of them, unless it stops, and the quarter they
\* complete is the dataset in use when the load that completed it has ended; a
\* load that stops, a clear or a full import never brings another into use.
KeepsPromise == Promised!Spec

=============================================================================
