---------------------------- MODULE DatasetPromise ----------------------------
(***************************************************************************)
(* What loading reference data group by group promises, said of whole      *)
(* groups: a dataset holds, for each group, one file or nothing; a load    *)
(* takes the group's old file out and then puts its own in; and with that  *)
(* same step a newer quarter becomes the dataset in use if every group     *)
(* with data in the one in use now has some there. What stops part-way     *)
(* leaves some of a file, and no switch. Nothing of rows, statements, log  *)
(* rows or the readiness check is left.                                    *)
(***************************************************************************)
EXTENDS Integers

CONSTANTS
  Groups, Quarters, FirstQuarter,
  Files,             \* the files that can be loaded
  GroupOf(_),        \* the group and the quarter of a file
  PeriodOf(_),
  FirstContent,      \* what the first quarter's dataset holds of each group
  Nothing,
  Some               \* neither nothing nor the whole of a file

VARIABLES
  inUse,     \* the quarter in use
  content,   \* content[q][g]: the file the quarter's dataset holds of the group
  loading    \* the file being loaded

Init ==
  /\ inUse = FirstQuarter
  /\ content = [q \in Quarters |->
                  IF q = FirstQuarter THEN FirstContent ELSE [g \in Groups |-> Nothing]]
  /\ loading = Nothing

\* A quarter older than the one in use takes no load.
Begin(f) ==
  /\ loading = Nothing
  /\ PeriodOf(f) >= inUse
  /\ loading' = f
  /\ content' = [content EXCEPT ![PeriodOf(f)][GroupOf(f)] = Nothing]
  /\ UNCHANGED inUse

\* Every group with data in the dataset in use has some in the quarter's.
Ready(q, held) == \A g \in Groups : held[inUse][g] # Nothing => held[q][g] # Nothing

End(f) ==
  /\ loading = f
  /\ loading' = Nothing
  /\ content' = [content EXCEPT ![PeriodOf(f)][GroupOf(f)] = f]
  /\ inUse' = IF PeriodOf(f) > inUse /\ Ready(PeriodOf(f), content') THEN PeriodOf(f) ELSE inUse

\* A load stops: the old file is gone, and of its own there may be nothing, some
\* or all, but no dataset comes into use.
Stop(f) ==
  /\ loading = f
  /\ loading' = Nothing
  /\ \E left \in {Nothing, Some, f} : content' = [content EXCEPT ![PeriodOf(f)][GroupOf(f)] = left]
  /\ UNCHANGED inUse

\* A clear takes rows of a quarter's groups out, of some of them all.
Clear(q) ==
  /\ loading = Nothing
  /\ \E fewer \in SUBSET {g \in Groups : content[q][g] # Nothing} : \E gone \in SUBSET fewer :
       content' = [content EXCEPT ![q] = [g \in Groups |->
         IF g \in gone THEN Nothing ELSE IF g \in fewer THEN Some ELSE content[q][g]]]
  /\ UNCHANGED <<inUse, loading>>

\* A full import, once it has cleared the dataset in use, fills it from the export.
Refill ==
  /\ loading = Nothing
  /\ \E filled \in SUBSET Groups : \E whole \in SUBSET filled :
       content' = [content EXCEPT ![inUse] = [g \in Groups |->
         IF g \in whole THEN FirstContent[g] ELSE IF g \in filled THEN Some ELSE content[inUse][g]]]
  /\ UNCHANGED <<inUse, loading>>

\* Someone makes another quarter the one in use.
Use(q) ==
  /\ loading = Nothing
  /\ inUse' = q
  /\ UNCHANGED <<content, loading>>

Next ==
  \/ \E f \in Files : Begin(f) \/ End(f) \/ Stop(f)
  \/ \E q \in Quarters : Clear(q) \/ Use(q)
  \/ Refill

Spec == Init /\ [][Next]_<<inUse, content, loading>>

=============================================================================
