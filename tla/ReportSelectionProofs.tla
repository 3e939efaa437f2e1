------------------------- MODULE ReportSelectionProofs -------------------------
(***************************************************************************)
(* Theorems about ReportSelection, for any consultees, runs, links and     *)
(* number of params: the pages of one URL agree, and under one ruleset and *)
(* one run no addition repeats a name, what the form accepts is listed,    *)
(* and what the report says is mapped is what the maps draw.               *)
(*                                                                         *)
(* The last three hang together by what a selection built under one run    *)
(* is (Coherent): each match removed was found and is removed once, each   *)
(* addition is a consultee of its category that is not excluded, under its *)
(* own name, and no two rows of a category but two matches share a name.   *)
(* Each of the forms keeps it so, because a URL is read back as the        *)
(* selection it was written for (ReadBack).                                *)
(***************************************************************************)
EXTENDS ReportSelection, SequenceTheorems, FiniteSetTheorems, WellFoundedInduction, TLAPS

RunInv ==
  /\ ruleset \in Rulesets \cup {None} /\ data \in Datasets
  /\ failed \in BOOLEAN /\ steady \in BOOLEAN

SelectionInv ==
  /\ exclude \in Seq(Param) /\ Removed \in Seq(Selected \cup Excluded)
  /\ add \in Seq(Param) /\ Adds \in Seq(Selected)

\* A removal that names a match names one its category lists, and no other does.
RemovedStand(R) ==
  /\ \A i \in DOMAIN R : R[i].id # None => R[i].id \in Identified(R[i].category)
  /\ \A i, j \in DOMAIN R : R[i].id = R[j].id /\ R[i].id # None => i = j

\* An addition is a consultee of its category, under its name, that is not excluded.
AddsStand(R, A) ==
  \A k \in DOMAIN A :
    /\ A[k].id \in Consultees \ IdsOf(R)
    /\ A[k].category = Category(A[k].id) /\ A[k].name = NameOf[A[k].id]

\* Its name is neither a listed match's nor another addition's, in its category.
NamesApart(R, A) ==
  /\ \A k \in DOMAIN A :
       \A id \in Identified(A[k].category) \ IdsOf(R) : NameOf[id] # A[k].name
  /\ \A j, k \in DOMAIN A : A[j].category = A[k].category /\ A[j].name = A[k].name => j = k

Coherent(R, A) ==
  /\ R \in Seq(Selected) /\ A \in Seq(Selected)
  /\ RemovedStand(R) /\ AddsStand(R, A) /\ NamesApart(R, A)

IInv == RunInv /\ SelectionInv /\ (steady => Coherent(Removed, Adds))
-----------------------------------------------------------------------------
(* Sequences, a selection read back, and the nearest of some consultees *)

\* A sequence without its n-th element: those after it move down one.
LEMMA RemoveAtProperties ==
  ASSUME NEW S, NEW s \in Seq(S), NEW n \in 1 .. Len(s)
  PROVE  /\ RemoveAt(s, n) \in Seq(S)
         /\ Len(RemoveAt(s, n)) = Len(s) - 1
         /\ \A i \in 1 .. Len(s) - 1 : RemoveAt(s, n)[i] = s[IF i < n THEN i ELSE i + 1]
<1> DEFINE before == SubSeq(s, 1, n - 1)
           after == SubSeq(s, n + 1, Len(s))
<1>1. Len(s) \in Nat /\ n \in Nat /\ 1 <= n /\ n <= Len(s)
  BY LenProperties
<1>2. \A i \in 1 .. Len(s) : s[i] \in S
  BY ElementOfSeq
<1>3. /\ before \in Seq(S) /\ Len(before) = n - 1
      /\ \A i \in 1 .. n - 1 : before[i] = s[i]
  <2>1. 1 \in Int /\ n - 1 \in Int /\ \A i \in 1 .. n - 1 : s[i] \in S
    BY <1>1, <1>2
  <2> QED BY <1>1, <2>1, SubSeqProperties
<1>4. /\ after \in Seq(S) /\ Len(after) = Len(s) - n
      /\ \A i \in 1 .. Len(s) - n : after[i] = s[n + i]
  <2>1. n + 1 \in Int /\ Len(s) \in Int /\ \A i \in n + 1 .. Len(s) : s[i] \in S
    BY <1>1, <1>2
  <2> QED BY <1>1, <2>1, SubSeqProperties
<1>5. RemoveAt(s, n) = before \o after
  BY DEF RemoveAt
<1> HIDE DEF before, after
<1>6. /\ before \o after \in Seq(S) /\ Len(before \o after) = Len(s) - 1
      /\ \A i \in 1 .. Len(s) - 1 :
           (before \o after)[i] = IF i <= n - 1 THEN before[i] ELSE after[i - (n - 1)]
  <2>1. Len(before) + Len(after) = Len(s) - 1
    BY <1>1, <1>3, <1>4
  <2>2. /\ before \o after \in Seq(S) /\ Len(before \o after) = Len(before) + Len(after)
        /\ \A i \in 1 .. Len(before) + Len(after) :
             (before \o after)[i] = IF i <= Len(before) THEN before[i] ELSE after[i - Len(before)]
    BY <1>3, <1>4, ConcatProperties
  <2> QED BY <1>3, <2>1, <2>2
<1>7. ASSUME NEW i \in 1 .. Len(s) - 1
      PROVE  (before \o after)[i] = s[IF i < n THEN i ELSE i + 1]
  <2>1. CASE i < n
    BY <1>1, <1>3, <1>6, <2>1
  <2>2. CASE ~(i < n)
    <3>1. i - (n - 1) \in 1 .. Len(s) - n /\ n + (i - (n - 1)) = i + 1 /\ ~(i <= n - 1)
      BY <1>1, <2>2
    <3> QED BY <1>4, <1>6, <2>2, <3>1
  <2> QED BY <2>1, <2>2
<1> QED BY <1>5, <1>6, <1>7

\* A param of a URL, by its fields.
LEMMA ParamFields ==
  ASSUME NEW k \in {"blank", "bare", "entry", "plain", "malformed"},
         NEW id \in Consultees \cup {None}, NEW c \in Categories \cup {""}, NEW n \in Names \cup {""}
  PROVE  [kind |-> k, id |-> id, category |-> c, name |-> n] \in Param
BY DEF Param

\* A removal, or an addition, is written as a param that is read as what it was; an id
\* alone as one that is read as the id.
LEMMA SelectedReadBack ==
  ASSUME NEW e \in Selected, NEW p, p = encodeEntry(e)
  PROVE  p \in Param /\ p.kind = "entry" /\ parseEntry(p) = e
<1>1. /\ e.id \in Consultees \cup {None} /\ e.category \in Categories
      /\ e.name \in Names /\ e.name # ""
      /\ e = [id |-> e.id, category |-> e.category, name |-> e.name]
  BY DEF Selected
<1>2. p = [kind |-> "entry", id |-> e.id, category |-> e.category, name |-> e.name]
  BY <1>1 DEF encodeEntry
<1>3. p.kind = "entry" /\ p.id = e.id /\ p.category = e.category /\ p.name = e.name
  BY <1>2
<1>4. p \in Param
  BY <1>1, <1>2, ParamFields
<1>5. parseEntry(p) = [id |-> p.id, category |-> p.category, name |-> p.name]
  BY DEF parseEntry
<1> QED BY <1>1, <1>3, <1>4, <1>5

LEMMA ExcludedReadBack ==
  ASSUME NEW e \in Excluded, NEW p, p = encodeEntry(e)
  PROVE  /\ p \in Param /\ p.kind = "bare"
         /\ [id |-> p.id, category |-> "", name |-> ""] = e
<1>1. /\ e.id \in Consultees /\ e.category = "" /\ e.name = ""
      /\ e = [id |-> e.id, category |-> e.category, name |-> e.name]
  BY DEF Excluded
<1>2. p = [kind |-> "bare", id |-> e.id, category |-> e.category, name |-> e.name]
  BY <1>1 DEF encodeEntry
<1>3. p.kind = "bare" /\ p.id = e.id
  BY <1>2
<1>4. p \in Param
  BY <1>1, <1>2, ParamFields
<1> QED BY <1>1, <1>3, <1>4

\* What a URL carries is read back as the removals, or the additions, written to it.
LEMMA ReadBack ==
  ASSUME NEW s \in Seq(Selected \cup Excluded)
  PROVE  /\ Encoded(s) \in Seq(Param) /\ removedConsultees(Encoded(s)) = s
         /\ s \in Seq(Selected) => addedConsultees(Encoded(s)) = s
<1> DEFINE params == Encoded(s)
           Bare(p) == [id |-> p.id, category |-> "", name |-> ""]
<1>1. /\ s = [i \in DOMAIN s |-> s[i]] /\ DOMAIN params = DOMAIN s
      /\ DOMAIN s = 1 .. Len(s) /\ Len(s) \in Nat
      /\ \A i \in DOMAIN s : params[i] = encodeEntry(s[i])
  BY LenProperties DEF Encoded
<1>2. ASSUME NEW i \in DOMAIN s, s[i] \in Selected
      PROVE  params[i].kind = "entry" /\ parseEntry(params[i]) = s[i] /\ params[i] \in Param
  BY <1>1, <1>2, SelectedReadBack
<1>3. ASSUME NEW i \in DOMAIN s, s[i] \in Excluded
      PROVE  params[i].kind = "bare" /\ Bare(params[i]) = s[i] /\ params[i] \in Param
  BY <1>1, <1>3, ExcludedReadBack
<1> DEFINE Read(p) == IF p.kind = "bare" THEN Bare(p) ELSE parseEntry(p)
<1>4. \A i \in DOMAIN s : s[i] \in Selected \/ s[i] \in Excluded
  BY <1>1, ElementOfSeq
<1> HIDE DEF params, Bare
<1>5. \A i \in DOMAIN s : /\ params[i].kind \in {"entry", "bare"} /\ params[i] \in Param
                          /\ Read(params[i]) = s[i]
  BY <1>2, <1>3, <1>4
<1>6. params \in Seq(Param)
  <2>1. params = [i \in 1 .. Len(s) |-> params[i]]
    BY <1>1 DEF params, Encoded
  <2> QED BY <1>1, <1>5, <2>1
<1>7. queryValues(params) = params
  BY <1>1, <1>5 DEF queryValues, OfKind
<1>8. OfKind(params, {"bare", "entry", "plain"}) = params
  BY <1>1, <1>5 DEF OfKind
<1>9. removedConsultees(params) = [i \in DOMAIN s |-> Read(params[i])]
  BY <1>1, <1>7, <1>8 DEF removedConsultees, Bare
<1>10. removedConsultees(params) = s
  BY <1>1, <1>5, <1>9
<1>11. ASSUME s \in Seq(Selected) PROVE addedConsultees(params) = s
  <2>1. \A i \in DOMAIN s : s[i] \in Selected
    BY <1>1, <1>11, ElementOfSeq
  <2>2. OfKind(params, {"entry", "plain"}) = params
    BY <1>1, <1>2, <2>1 DEF OfKind
  <2>3. addedConsultees(params) = [i \in DOMAIN s |-> s[i]]
    BY <1>1, <1>2, <1>7, <2>1, <2>2 DEF addedConsultees
  <2> QED BY <1>1, <2>3
<1> QED BY <1>6, <1>10, <1>11 DEF params

\* Some number of a set of natural numbers is its least.
LEMMA LeastNumber ==
  ASSUME NEW S, S \subseteq Nat, S # {}
  PROVE  \E x \in S : \A y \in S : x <= y
<1> DEFINE R == OpToRel(<, Nat)
<1>1. PICK x \in S : \A y \in S : <<y, x>> \notin R
  <2>1. IsWellFoundedOn(R, Nat)
    BY NatLessThanWellFounded
  <2> HIDE DEF R
  <2> QED BY <2>1, WFMin
<1>2. \A y \in S : x <= y
  <2> TAKE y \in S
  <2>1. x \in Nat /\ y \in Nat
    OBVIOUS
  <2>2. ~(y < x)
    BY <1>1, <2>1 DEF OpToRel
  <2> QED BY <2>1, <2>2
<1> QED BY <1>1, <1>2

\* The nearest of some consultees is one of them.
LEMMA NearestIsOne ==
  ASSUME NEW ids, ids \subseteq Consultees, Nearest(ids) # None
  PROVE  Nearest(ids) \in ids
<1>1. ids # {} /\ \A id \in ids : Away[id] \in Nat
  BY SelectionAssumption DEF Nearest
<1>2. PICK near \in ids : \A o \in ids : Away[near] <= Away[o]
  <2> DEFINE S == {Away[id] : id \in ids}
  <2>1. S \subseteq Nat /\ S # {}
    BY <1>1
  <2>2. PICK x \in S : \A y \in S : x <= y
    <3> HIDE DEF S
    <3> QED BY <2>1, LeastNumber
  <2> QED BY <2>2
<1> QED BY <1>1, <1>2 DEF Nearest

\* What a category lists of the run is of that category.
LEMMA FoundFacts ==
  ASSUME RunInv
  PROVE  /\ DOMAIN Run \subseteq Consultees
         /\ \A c : \A id \in Identified(c) \cup NearbyOnly(c) :
              id \in Consultees /\ id \in DOMAIN Run /\ Category(id) = c
<1>1. DOMAIN Run \subseteq Consultees
  <2>1. CASE failed \/ ruleset = None
    BY <2>1 DEF Run
  <2>2. CASE ~(failed \/ ruleset = None)
    BY <2>2, SelectionAssumption DEF Run, RunInv
  <2> QED BY <2>1, <2>2
<1> QED BY <1>1 DEF Identified, NearbyOnly
-----------------------------------------------------------------------------
(* What each form does to a coherent selection *)

\* The consultee a form takes a name for is of the page's category, and its own name
\* is not one the category lists.
LEMMA StoredFacts ==
  ASSUME RunInv, NEW c \in Categories, NEW name \in Names, StoredConsultee(c, name) # None
  PROVE  LET id == StoredConsultee(c, name)
         IN id \in Consultees /\ Category(id) = c /\ NameOf[id] \notin listedNames(c)
<1> DEFINE candidate == NameCandidate(c, name)
<1>1. name \notin listedNames(c)
  BY DEF StoredConsultee
<1>2. Stored[data] \subseteq Consultees
  BY SelectionAssumption DEF RunInv
<1>3. candidate # None => candidate \in Consultees /\ Category(candidate) = c
  <2> DEFINE Called(ids) == {id \in ids : name \in Aliases[id]}
             cases == {id \in Stored[data] : Category(id) = NSIPS}
             found == Called(Identified(c) \cap excludedMatchIds)
             nearby == Called(NearbyOnly(c) \ addedMatchIds)
  <2>1. CASE c = NSIPS
    <3>1. candidate = Nearest(Called(cases))
      BY <2>1 DEF NameCandidate
    <3>2. Called(cases) \subseteq Consultees
      BY <1>2
    <3>3. candidate # None => candidate \in Called(cases)
      BY <3>1, <3>2, NearestIsOne
    <3> QED BY <1>2, <2>1, <3>3
  <2>2. CASE c # NSIPS
    <3>1. candidate \in {Nearest(found), Nearest(nearby)}
      BY <2>2 DEF NameCandidate, removedCandidates, nearbyCandidates
    <3>2. /\ \A id \in found \cup nearby : id \in Consultees /\ Category(id) = c
          /\ found \subseteq Consultees /\ nearby \subseteq Consultees
      BY FoundFacts
    <3>3. /\ Nearest(found) # None => Nearest(found) \in found
          /\ Nearest(nearby) # None => Nearest(nearby) \in nearby
      <4> HIDE DEF found, nearby
      <4> QED BY <3>2, NearestIsOne
    <3> HIDE DEF found, nearby, candidate
    <3> QED BY <3>1, <3>2, <3>3
  <2> QED BY <2>1, <2>2
<1>4. CASE candidate # None
  <2>1. StoredConsultee(c, name) = candidate /\ NameOf[candidate] \notin listedNames(c)
    BY <1>1, <1>4 DEF StoredConsultee
  <2> QED BY <1>3, <1>4, <2>1
<1>5. CASE candidate = None
  <2> DEFINE ids == {id \in Stored[data] : Category(id) = c /\ NameOf[id] = name}
  <2>1. StoredConsultee(c, name) = Nearest(ids)
    BY <1>1, <1>5 DEF StoredConsultee, findConsulteeAreaByName
  <2>2. StoredConsultee(c, name) \in ids
    BY <1>2, <2>1, NearestIsOne
  <2> QED BY <1>1, <1>2, <2>2
<1> QED BY <1>4, <1>5

\* The ids a selection's removals exclude.
LEMMA IdsOfRemoved ==
  ASSUME NEW R
  PROVE  /\ \A i \in DOMAIN R : R[i].id # None => R[i].id \in IdsOf(R)
         /\ \A id \in IdsOf(R) : id # None /\ \E i \in DOMAIN R : R[i].id = id
BY DEF IdsOf, ToSet

\* A removal undone: its match is listed again.
LEMMA UndoKeeps ==
  ASSUME RunInv, NEW R, NEW A, Coherent(R, A), NEW n \in DOMAIN R, R[n].id # None,
         \A k \in DOMAIN A : A[k].category = R[n].category => A[k].name # NameOf[R[n].id]
  PROVE  Coherent(RemoveAt(R, n), A) /\ IdsOf(RemoveAt(R, n)) = IdsOf(R) \ {R[n].id}
<1> DEFINE T == RemoveAt(R, n)
           Old(i) == IF i < n THEN i ELSE i + 1
<1>1. R \in Seq(Selected) /\ DOMAIN R = 1 .. Len(R) /\ Len(R) \in Nat /\ n \in 1 .. Len(R)
  BY LenProperties DEF Coherent
<1>2. /\ T \in Seq(Selected) /\ DOMAIN T = 1 .. Len(R) - 1
      /\ \A i \in DOMAIN T : T[i] = R[Old(i)]
  <2>1. /\ T \in Seq(Selected) /\ Len(T) = Len(R) - 1
        /\ \A i \in 1 .. Len(R) - 1 : T[i] = R[Old(i)]
    BY <1>1, RemoveAtProperties
  <2>2. DOMAIN T = 1 .. Len(T)
    BY <2>1, LenProperties
  <2> QED BY <2>1, <2>2
<1>3. /\ \A i \in DOMAIN T : Old(i) \in DOMAIN R \ {n}
      /\ \A i, j \in DOMAIN T : Old(i) = Old(j) => i = j
      /\ \A m \in DOMAIN R \ {n} : \E i \in DOMAIN T : Old(i) = m
  <2>1. \A i \in DOMAIN T : Old(i) \in DOMAIN R \ {n}
    BY <1>1, <1>2
  <2>2. \A i, j \in DOMAIN T : Old(i) = Old(j) => i = j
    BY <1>1, <1>2
  <2>3. ASSUME NEW m \in DOMAIN R \ {n} PROVE \E i \in DOMAIN T : Old(i) = m
    <3>1. CASE m < n
      BY <1>1, <1>2, <3>1
    <3>2. CASE ~(m < n)
      <4>1. m - 1 \in DOMAIN T /\ Old(m - 1) = m
        BY <1>1, <1>2, <3>2
      <4> QED BY <4>1
    <3> QED BY <3>1, <3>2
  <2> QED BY <2>1, <2>2, <2>3
<1> HIDE DEF T, Old
<1>4. RemovedStand(R) /\ AddsStand(R, A) /\ NamesApart(R, A) /\ A \in Seq(Selected)
  BY DEF Coherent
<1>5. IdsOf(T) = IdsOf(R) \ {R[n].id}
  <2>1. ASSUME NEW id \in IdsOf(T) PROVE id \in IdsOf(R) \ {R[n].id}
    <3>1. PICK i \in DOMAIN T : T[i].id = id /\ id # None
      BY IdsOfRemoved
    <3>2. R[Old(i)].id = id /\ Old(i) \in DOMAIN R \ {n}
      BY <1>2, <1>3, <3>1
    <3> QED BY <1>4, <3>1, <3>2, IdsOfRemoved DEF RemovedStand
  <2>2. ASSUME NEW id \in IdsOf(R) \ {R[n].id} PROVE id \in IdsOf(T)
    <3>1. PICK m \in DOMAIN R \ {n} : R[m].id = id /\ id # None
      BY IdsOfRemoved
    <3>2. PICK i \in DOMAIN T : Old(i) = m
      BY <1>3, <3>1
    <3> QED BY <1>2, <3>1, <3>2, IdsOfRemoved
  <2> QED BY <2>1, <2>2
<1>6. RemovedStand(T)
  BY <1>2, <1>3, <1>4 DEF RemovedStand
<1>7. AddsStand(T, A)
  BY <1>4, <1>5 DEF AddsStand
<1>8. NamesApart(T, A)
  <2>1. \A id \in Identified(R[n].category) : Category(id) = R[n].category
    BY FoundFacts
  <2>2. ASSUME NEW k \in DOMAIN A, NEW id \in Identified(A[k].category) \ IdsOf(T)
        PROVE  NameOf[id] # A[k].name
    <3>1. CASE id \notin IdsOf(R)
      BY <1>4, <2>2, <3>1 DEF NamesApart
    <3>2. CASE id \in IdsOf(R)
      <4>1. id = R[n].id
        BY <1>5, <2>2, <3>2
      <4>2. Category(id) = A[k].category /\ Category(id) = R[n].category
        BY <1>4, <2>2, <4>1, FoundFacts DEF RemovedStand
      <4> QED BY <4>1, <4>2
    <3> QED BY <3>1, <3>2
  <2> QED BY <1>4, <2>2 DEF NamesApart
<1> QED BY <1>2, <1>4, <1>5, <1>6, <1>7, <1>8 DEF Coherent, T
\* One more at the end of the removals, or of the additions.
LEMMA OneMoreRemoved ==
  ASSUME NEW s \in Seq(Selected \cup Excluded), NEW e \in Selected \cup Excluded
  PROVE  LET t == Append(s, e)
         IN /\ t \in Seq(Selected \cup Excluded) /\ DOMAIN t = DOMAIN s \cup {Len(s) + 1}
            /\ Len(s) + 1 \notin DOMAIN s /\ t[Len(s) + 1] = e
            /\ \A i \in DOMAIN s : t[i] = s[i]
            /\ IdsOf(t) = IdsOf(s) \cup ({e.id} \ {None})
<1> DEFINE t == Append(s, e)
           last == Len(s) + 1
<1>1. DOMAIN s = 1 .. Len(s) /\ Len(s) \in Nat
  BY LenProperties
<1>2. /\ t \in Seq(Selected \cup Excluded) /\ Len(t) = last /\ t[last] = e
      /\ \A i \in DOMAIN s : t[i] = s[i]
  BY <1>1, AppendProperties
<1>3. DOMAIN t = 1 .. last
  BY <1>2, LenProperties
<1>4. DOMAIN t = DOMAIN s \cup {last} /\ last \notin DOMAIN s
  BY <1>1, <1>3
<1> HIDE DEF t, last
<1>5. IdsOf(t) = IdsOf(s) \cup ({e.id} \ {None})
  <2>1. \A id \in IdsOf(t) : id \in IdsOf(s) \cup ({e.id} \ {None})
    BY <1>2, <1>4, IdsOfRemoved
  <2>2. \A id \in IdsOf(s) \cup ({e.id} \ {None}) : id \in IdsOf(t)
    BY <1>2, <1>4, IdsOfRemoved
  <2> QED BY <2>1, <2>2
<1> QED BY <1>2, <1>4, <1>5 DEF t, last

LEMMA OneMore ==
  ASSUME NEW s \in Seq(Selected), NEW e \in Selected
  PROVE  LET t == Append(s, e)
         IN /\ t \in Seq(Selected) /\ DOMAIN t = DOMAIN s \cup {Len(s) + 1}
            /\ Len(s) + 1 \notin DOMAIN s /\ t[Len(s) + 1] = e
            /\ \A i \in DOMAIN s : t[i] = s[i]
            /\ IdsOf(t) = IdsOf(s) \cup ({e.id} \ {None})
<1>1. s \in Seq(Selected \cup Excluded) /\ Append(s, e) \in Seq(Selected)
  BY SeqMonotonic, AppendProperties
<1> QED BY <1>1, OneMoreRemoved

\* A consultee of the page's category that no removal names, under a name not listed.
LEMMA AddKeeps ==
  ASSUME RunInv, NEW R, NEW A, Coherent(R, A), NEW id \in Consultees,
         \A i \in DOMAIN R : ~(R[i].category = Category(id) /\ R[i].id = id),
         \A o \in Identified(Category(id)) \ IdsOf(R) : NameOf[o] # NameOf[id],
         \A k \in DOMAIN A : A[k].category = Category(id) => A[k].name # NameOf[id]
  PROVE  Coherent(R, Append(A, [id |-> id, category |-> Category(id), name |-> NameOf[id]]))
<1> DEFINE e == [id |-> id, category |-> Category(id), name |-> NameOf[id]]
           B == Append(A, e)
<1>1. /\ R \in Seq(Selected) /\ A \in Seq(Selected)
      /\ RemovedStand(R) /\ AddsStand(R, A) /\ NamesApart(R, A)
  BY DEF Coherent
<1>2. e \in Selected
  <2>1. Category(id) \in Categories
    <3>1. CategoryOf[data] \in [Consultees -> Categories]
      BY SelectionAssumption DEF RunInv
    <3> QED BY <3>1 DEF Category
  <2>2. NameOf[id] \in Names \ {""}
    BY SelectionAssumption
  <2> QED BY <2>1, <2>2 DEF Selected
<1>3. /\ B \in Seq(Selected) /\ DOMAIN B = DOMAIN A \cup {Len(A) + 1}
      /\ Len(A) + 1 \notin DOMAIN A /\ B[Len(A) + 1] = e
      /\ \A k \in DOMAIN A : B[k] = A[k]
  BY <1>1, <1>2, OneMore
<1>4. id \notin IdsOf(R)
  <2>1. SUFFICES ASSUME id \in IdsOf(R) PROVE FALSE
    OBVIOUS
  <2>2. PICK i \in DOMAIN R : R[i].id = id /\ id # None
    BY <2>1, IdsOfRemoved
  <2>3. Category(id) = R[i].category
    BY <1>1, <2>2, FoundFacts DEF RemovedStand
  <2> QED BY <2>2, <2>3
<1>5. e.id = id /\ e.category = Category(id) /\ e.name = NameOf[id]
  OBVIOUS
<1> HIDE DEF e, B
<1>6. AddsStand(R, B)
  BY <1>1, <1>3, <1>4, <1>5 DEF AddsStand
<1>7. NamesApart(R, B)
  <2>1. \A k \in DOMAIN B : \A o \in Identified(B[k].category) \ IdsOf(R) : NameOf[o] # B[k].name
    BY <1>1, <1>3, <1>5 DEF NamesApart
  <2>2. \A j, k \in DOMAIN B : B[j].category = B[k].category /\ B[j].name = B[k].name => j = k
    BY <1>1, <1>3, <1>5 DEF NamesApart
  <2> QED BY <2>1, <2>2 DEF NamesApart
<1> QED BY <1>1, <1>3, <1>6, <1>7 DEF Coherent, B, e

\* A match its category lists is removed.
LEMMA RemoveMatchKeeps ==
  ASSUME RunInv, NEW R, NEW A, Coherent(R, A), NEW c \in Categories,
         NEW id \in Identified(c) \ IdsOf(R)
  PROVE  Coherent(Append(R, [id |-> id, category |-> c, name |-> NameOf[id]]), A)
<1> DEFINE e == [id |-> id, category |-> c, name |-> NameOf[id]]
           T == Append(R, e)
<1>1. /\ R \in Seq(Selected) /\ A \in Seq(Selected)
      /\ RemovedStand(R) /\ AddsStand(R, A) /\ NamesApart(R, A)
  BY DEF Coherent
<1>2. id \in Consultees /\ Category(id) = c /\ id # None
  BY FoundFacts, SelectionAssumption
<1>3. e \in Selected
  BY <1>2, SelectionAssumption DEF Selected
<1>4. /\ T \in Seq(Selected) /\ DOMAIN T = DOMAIN R \cup {Len(R) + 1}
      /\ Len(R) + 1 \notin DOMAIN R /\ T[Len(R) + 1] = e
      /\ \A i \in DOMAIN R : T[i] = R[i]
      /\ IdsOf(T) = IdsOf(R) \cup ({e.id} \ {None})
  BY <1>1, <1>3, OneMore
<1>5. e.id = id /\ e.category = c /\ e.name = NameOf[id]
  OBVIOUS
<1> HIDE DEF e, T
<1>6. IdsOf(T) = IdsOf(R) \cup {id}
  BY <1>2, <1>4, <1>5
<1>7. RemovedStand(T)
  <2>1. \A i \in DOMAIN R : R[i].id # id
    BY <1>2, IdsOfRemoved
  <2>2. \A i \in DOMAIN T : T[i].id # None => T[i].id \in Identified(T[i].category)
    BY <1>1, <1>4, <1>5 DEF RemovedStand
  <2>3. \A i, j \in DOMAIN T : T[i].id = T[j].id /\ T[i].id # None => i = j
    BY <1>1, <1>4, <1>5, <2>1 DEF RemovedStand
  <2> QED BY <2>2, <2>3 DEF RemovedStand
<1>8. AddsStand(T, A)
  <2>1. ASSUME NEW k \in DOMAIN A PROVE A[k].id # id
    <3>1. SUFFICES ASSUME A[k].id = id PROVE FALSE
      OBVIOUS
    <3>2. A[k].category = c /\ A[k].name = NameOf[id]
      BY <1>1, <1>2, <3>1 DEF AddsStand
    <3> QED BY <1>1, <3>2 DEF NamesApart
  <2> QED BY <1>1, <1>6, <2>1 DEF AddsStand
<1>9. NamesApart(T, A)
  BY <1>1, <1>6 DEF NamesApart
<1> QED BY <1>1, <1>4, <1>7, <1>8, <1>9 DEF Coherent, T, e

\* An addition is dropped, and its removal excludes nothing.
LEMMA RemoveAddedKeeps ==
  ASSUME RunInv, NEW R, NEW A, Coherent(R, A), NEW n \in DOMAIN A
  PROVE  Coherent(Append(R, [id |-> None, category |-> A[n].category, name |-> A[n].name]),
                  RemoveAt(A, n))
<1> DEFINE e == [id |-> None, category |-> A[n].category, name |-> A[n].name]
           T == Append(R, e)
           B == RemoveAt(A, n)
           Old(k) == IF k < n THEN k ELSE k + 1
<1>1. /\ R \in Seq(Selected) /\ A \in Seq(Selected)
      /\ RemovedStand(R) /\ AddsStand(R, A) /\ NamesApart(R, A)
  BY DEF Coherent
<1>2. DOMAIN A = 1 .. Len(A) /\ Len(A) \in Nat /\ n \in 1 .. Len(A)
  BY <1>1, LenProperties
<1>3. e \in Selected
  <2>1. A[n] \in Selected
    BY <1>1, <1>2, ElementOfSeq
  <2> QED BY <2>1 DEF Selected
<1>4. /\ T \in Seq(Selected) /\ DOMAIN T = DOMAIN R \cup {Len(R) + 1}
      /\ Len(R) + 1 \notin DOMAIN R /\ T[Len(R) + 1] = e
      /\ \A i \in DOMAIN R : T[i] = R[i]
      /\ IdsOf(T) = IdsOf(R) \cup ({e.id} \ {None})
  BY <1>1, <1>3, OneMore
<1>5. /\ B \in Seq(Selected) /\ DOMAIN B = 1 .. Len(A) - 1
      /\ \A k \in DOMAIN B : B[k] = A[Old(k)]
  <2>1. /\ B \in Seq(Selected) /\ Len(B) = Len(A) - 1
        /\ \A k \in 1 .. Len(A) - 1 : B[k] = A[Old(k)]
    BY <1>1, <1>2, RemoveAtProperties
  <2>2. DOMAIN B = 1 .. Len(B)
    BY <2>1, LenProperties
  <2> QED BY <2>1, <2>2
<1>6. /\ \A k \in DOMAIN B : Old(k) \in DOMAIN A
      /\ \A j, k \in DOMAIN B : Old(j) = Old(k) => j = k
  BY <1>2, <1>5
<1>7. e.id = None
  OBVIOUS
<1> HIDE DEF e, T, B, Old
<1>8. IdsOf(T) = IdsOf(R)
  BY <1>4, <1>7
<1>9. RemovedStand(T)
  BY <1>1, <1>4, <1>7 DEF RemovedStand
<1>10. AddsStand(T, B)
  BY <1>1, <1>5, <1>6, <1>8 DEF AddsStand
<1>11. NamesApart(T, B)
  BY <1>1, <1>5, <1>6, <1>8 DEF NamesApart
<1> QED BY <1>4, <1>5, <1>9, <1>10, <1>11 DEF Coherent, T, e, B
-----------------------------------------------------------------------------
(* Each action leaves a selection built under one run coherent *)

\* A selection written to the URL is the next page's.
LEMMA Written ==
  ASSUME NEW R \in Seq(Selected \cup Excluded), NEW A \in Seq(Selected),
         exclude' = Encoded(R), add' = Encoded(A)
  PROVE  Removed' = R /\ Adds' = A /\ SelectionInv'
<1>1. A \in Seq(Selected \cup Excluded)
  BY SeqMonotonic
<1>2. Removed' = R /\ Adds' = A /\ Encoded(R) \in Seq(Param) /\ Encoded(A) \in Seq(Param)
  BY <1>1, ReadBack DEF Removed, Adds
<1> QED BY <1>2 DEF SelectionInv

\* Under the run as it is, it is as coherent with it as when it was written.
LEMMA NextPage ==
  ASSUME NEW R, NEW A, Coherent(R, A), exclude' = Encoded(R), add' = Encoded(A),
         UNCHANGED <<ruleset, data, failed>>
  PROVE  /\ Removed' = R /\ Adds' = A /\ Coherent(Removed, Adds)'
         /\ \A c : (Identified(c))' = Identified(c)
<1>1. Removed' = R /\ Adds' = A
  <2>1. R \in Seq(Selected \cup Excluded) /\ A \in Seq(Selected)
    BY SeqMonotonic DEF Coherent
  <2> QED BY <2>1, Written
<1>2. \A c : (Identified(c))' = Identified(c)
  BY DEF Identified, isIdentified, Run, Category
<1>3. Coherent(Removed, Adds)'
  <2>1. (Removed \in Seq(Selected) /\ Adds \in Seq(Selected))'
    BY <1>1 DEF Coherent
  <2>2. RemovedStand(Removed)'
    BY <1>1 DEF Coherent, RemovedStand, Identified, isIdentified, Run, Category
  <2>3. AddsStand(Removed, Adds)'
    BY <1>1 DEF Coherent, AddsStand, Category
  <2>4. NamesApart(Removed, Adds)'
    BY <1>1 DEF Coherent, NamesApart, Identified, isIdentified, Run, Category
  <2> QED BY <2>1, <2>2, <2>3, <2>4 DEF Coherent
<1> QED BY <1>1, <1>2, <1>3

\* Nothing selected is coherent under any run, and is read back as nothing.
LEMMA NothingSelected ==
  /\ Coherent(<<>>, <<>>)
  /\ removedConsultees(Encoded(<<>>)) = <<>> /\ addedConsultees(Encoded(<<>>)) = <<>>
  /\ removedConsultees(<<>>) = <<>> /\ addedConsultees(<<>>) = <<>>
<1>1. <<>> \in Seq(Selected)
  OBVIOUS
<1>2. Encoded(<<>>) = <<>>
  BY DEF Encoded
<1>3. removedConsultees(Encoded(<<>>)) = <<>> /\ addedConsultees(Encoded(<<>>)) = <<>>
  <2>1. <<>> \in Seq(Selected \cup Excluded)
    OBVIOUS
  <2> QED BY <1>1, <2>1, ReadBack
<1>4. DOMAIN <<>> = {}
  OBVIOUS
<1>5. Coherent(<<>>, <<>>)
  BY <1>1, <1>4 DEF Coherent, RemovedStand, AddsStand, NamesApart
<1> QED BY <1>2, <1>3, <1>5

\* And so the next page has it, whatever run it shows, and so has the next page what
\* this one has, of the same run.
LEMMA NothingSelectedThen ==
  ASSUME Removed' = <<>>, Adds' = <<>>
  PROVE  Coherent(Removed, Adds)'
<1>1. <<>> \in Seq(Selected) /\ DOMAIN <<>> = {}
  OBVIOUS
<1> QED BY <1>1 DEF Coherent, RemovedStand, AddsStand, NamesApart

LEMMA SameSelection ==
  ASSUME Coherent(Removed, Adds), UNCHANGED <<exclude, add, ruleset, data, failed>>
  PROVE  Coherent(Removed, Adds)'
<1>1. Removed' = Removed /\ Adds' = Adds
  BY DEF Removed, Adds
<1> QED BY <1>1 DEF Coherent, RemovedStand, AddsStand, NamesApart, Identified, isIdentified, Run, Category

\* The names a category's rows are listed under.
LEMMA ListedNames ==
  ASSUME NEW c
  PROVE  /\ \A id \in Identified(c) \ excludedMatchIds : NameOf[id] \in listedNames(c)
         /\ \A k \in DOMAIN Adds : Adds[k].category = c => Adds[k].name \in listedNames(c)
BY DEF listedNames, ToSet

\* The first of the removals of a consultee is one of them.
LEMMA FirstRemoval ==
  ASSUME SelectionInv, NEW c, NEW id, RemovalOf(c, id) # {}
  PROVE  LET n == FirstOf(RemovalOf(c, id))
         IN n \in 1 .. Len(Removed) /\ Removed[n].category = c /\ Removed[n].id = id
<1> DEFINE removal == RemovalOf(c, id)
<1>1. DOMAIN Removed = 1 .. Len(Removed) /\ Len(Removed) \in Nat
  BY LenProperties DEF SelectionInv
<1>2. removal \subseteq 1 .. Len(Removed)
  BY <1>1 DEF RemovalOf
<1>3. \E i \in removal : \A j \in removal : i <= j
  BY <1>1, <1>2, LeastNumber
<1>4. FirstOf(removal) \in removal
  BY <1>3 DEF FirstOf
<1> QED BY <1>1, <1>4 DEF RemovalOf

\* Whatever the selection was built under, what the forms write are removals and
\* additions.
LEMMA SelectionStep ==
  ASSUME RunInv, SelectionInv, [Next]_vars
  PROVE  SelectionInv'
<1>1. /\ Removed \in Seq(Selected \cup Excluded) /\ Adds \in Seq(Selected)
      /\ DOMAIN Adds = 1 .. Len(Adds) /\ Len(Adds) \in Nat
  BY LenProperties DEF SelectionInv
<1>2. \A id \in Consultees : NameOf[id] \in Names \ {""}
  BY SelectionAssumption
<1>3. ASSUME NEW c \in Categories, NEW name \in Names, AddConsultee(c, name) PROVE SelectionInv'
  <2> DEFINE id == StoredConsultee(c, name)
             n == FirstOf(RemovalOf(c, id))
             e == [id |-> id, category |-> c, name |-> NameOf[id]]
  <2>1. id \in Consultees
    BY <1>3, StoredFacts DEF AddConsultee
  <2>2. CASE RemovalOf(c, id) # {}
    <3>1. exclude' = Encoded(RemoveAt(Removed, n)) /\ add' = Encoded(Adds)
      BY <1>3, <2>2 DEF AddConsultee
    <3>2. RemoveAt(Removed, n) \in Seq(Selected \cup Excluded)
      <4>1. n \in 1 .. Len(Removed)
        BY <2>2, FirstRemoval
      <4> HIDE DEF n
      <4> QED BY <1>1, <4>1, RemoveAtProperties
    <3> HIDE DEF n
    <3> QED BY <1>1, <3>1, <3>2, Written
  <2>3. CASE RemovalOf(c, id) = {}
    <3>1. exclude' = Encoded(Removed) /\ add' = Encoded(Append(Adds, e))
      BY <1>3, <2>3 DEF AddConsultee
    <3>2. e \in Selected
      BY <1>2, <2>1 DEF Selected
    <3> HIDE DEF e
    <3>3. Append(Adds, e) \in Seq(Selected)
      BY <1>1, <3>2, AppendProperties
    <3> QED BY <1>1, <3>1, <3>3, Written
  <2> QED BY <2>2, <2>3
<1>4. ASSUME NEW c \in Categories, NEW id \in Consultees, RemoveMatch(c, id) PROVE SelectionInv'
  <2> DEFINE e == [id |-> id, category |-> c, name |-> NameOf[id]]
  <2>1. exclude' = Encoded(Append(Removed, e)) /\ add' = Encoded(Adds)
    BY <1>4 DEF RemoveMatch, RecordRemoval
  <2>2. e \in Selected
    BY <1>2 DEF Selected
  <2> HIDE DEF e
  <2>3. Append(Removed, e) \in Seq(Selected \cup Excluded)
    BY <1>1, <2>2, AppendProperties
  <2> QED BY <1>1, <2>1, <2>3, Written
<1>5. ASSUME NEW c \in Categories, NEW k \in 1 .. MaxParams, RemoveAdded(c, k) PROVE SelectionInv'
  <2> DEFINE e == [id |-> None, category |-> c, name |-> Adds[k].name]
  <2>1. /\ exclude' = Encoded(Append(Removed, e)) /\ add' = Encoded(RemoveAt(Adds, k))
        /\ k \in 1 .. Len(Adds)
    BY <1>1, <1>5 DEF RemoveAdded, RecordRemoval
  <2>2. e \in Selected
    <3>1. Adds[k] \in Selected
      BY <1>1, <2>1, ElementOfSeq
    <3> QED BY <3>1 DEF Selected
  <2> HIDE DEF e
  <2>3. Append(Removed, e) \in Seq(Selected \cup Excluded)
    BY <1>1, <2>2, AppendProperties
  <2>4. RemoveAt(Adds, k) \in Seq(Selected)
    BY <1>1, <2>1, RemoveAtProperties
  <2> QED BY <2>1, <2>3, <2>4, Written
<1>6. ASSUME NEW r \in Rulesets, PickRuleset(r) PROVE SelectionInv'
  BY <1>1, <1>6, Written DEF PickRuleset
<1>7. CASE ContinueFromBoundary
  <2>1. exclude' = <<>> /\ add' = <<>> /\ Removed' = <<>> /\ Adds' = <<>>
    BY <1>7, NothingSelected DEF ContinueFromBoundary, Removed, Adds
  <2> QED BY <2>1 DEF SelectionInv
<1>8. ASSUME NEW d \in Datasets, NEW fails \in BOOLEAN, RunAgain(d, fails) PROVE SelectionInv'
  BY <1>8 DEF RunAgain, SelectionInv, Removed, Adds
<1>9. CASE UNCHANGED vars
  BY <1>9 DEF vars, SelectionInv, Removed, Adds
<1> QED BY <1>3, <1>4, <1>5, <1>6, <1>7, <1>8, <1>9 DEF Next

LEMMA AddConsulteeKeeps ==
  ASSUME IInv, steady, NEW c \in Categories, NEW name \in Names, AddConsultee(c, name)
  PROVE  Coherent(Removed, Adds)' /\ NameOf[StoredConsultee(c, name)] \in (listedNames(c))'
<1> DEFINE id == StoredConsultee(c, name)
           removal == RemovalOf(c, id)
           n == FirstOf(removal)
<1>1. /\ RunInv /\ SelectionInv /\ Coherent(Removed, Adds)
      /\ RemovedStand(Removed) /\ Removed \in Seq(Selected)
  BY DEF IInv, Coherent
<1>2. id # None /\ UNCHANGED <<ruleset, data, failed>>
  BY DEF AddConsultee
<1>3. id \in Consultees /\ Category(id) = c /\ NameOf[id] \notin listedNames(c)
  BY <1>1, <1>2, StoredFacts
<1>4. /\ \A o \in Identified(c) \ IdsOf(Removed) : NameOf[o] # NameOf[id]
      /\ \A k \in DOMAIN Adds : Adds[k].category = c => Adds[k].name # NameOf[id]
  BY <1>3, ListedNames DEF excludedMatchIds
<1> HIDE DEF id
<1>5. CASE removal # {}
  <2>1. n \in DOMAIN Removed /\ Removed[n].category = c /\ Removed[n].id = id
    BY <1>1, <1>5, FirstRemoval, LenProperties
  <2> DEFINE T == RemoveAt(Removed, n)
  <2>3. exclude' = Encoded(T) /\ add' = Encoded(Adds)
    BY <1>5 DEF AddConsultee, id
  <2>4. Coherent(T, Adds) /\ IdsOf(T) = IdsOf(Removed) \ {id}
    BY <1>1, <1>2, <1>4, <2>1, UndoKeeps
  <2> HIDE DEF T
  <2>5. Coherent(Removed, Adds)' /\ Removed' = T /\ (Identified(c))' = Identified(c)
    BY <1>2, <2>3, <2>4, NextPage
  <2>6. id \in Identified(c)
    BY <1>1, <1>2, <2>1 DEF RemovedStand
  <2>7. NameOf[id] \in (listedNames(c))'
    BY <2>4, <2>5, <2>6 DEF listedNames, excludedMatchIds
  <2> QED BY <2>5, <2>7 DEF id
<1>6. CASE removal = {}
  <2> DEFINE e == [id |-> id, category |-> c, name |-> NameOf[id]]
             B == Append(Adds, e)
  <2>1. exclude' = Encoded(Removed) /\ add' = Encoded(B)
    BY <1>6 DEF AddConsultee, id
  <2>2. \A i \in DOMAIN Removed : ~(Removed[i].category = c /\ Removed[i].id = id)
    BY <1>6 DEF RemovalOf
  <2>3. Coherent(Removed, B)
    BY <1>1, <1>3, <1>4, <2>2, AddKeeps
  <2>4. Len(Adds) + 1 \in DOMAIN B /\ B[Len(Adds) + 1] = e
    <3>1. Adds \in Seq(Selected) /\ B \in Seq(Selected)
      BY <1>1, <2>3 DEF Coherent
    <3> QED BY <3>1
  <2>5. e.category = c /\ e.name = NameOf[id]
    OBVIOUS
  <2> HIDE DEF e, B
  <2>6. Coherent(Removed, Adds)' /\ Adds' = B
    BY <1>2, <2>1, <2>3, NextPage
  <2>7. NameOf[id] \in (listedNames(c))'
    BY <2>4, <2>5, <2>6 DEF listedNames, ToSet
  <2> QED BY <2>6, <2>7 DEF id
<1> QED BY <1>5, <1>6
LEMMA RemoveMatchStep ==
  ASSUME IInv, steady, NEW c \in Categories, NEW id \in Consultees, RemoveMatch(c, id)
  PROVE  Coherent(Removed, Adds)'
<1> DEFINE removal == [id |-> id, category |-> c, name |-> NameOf[id]]
<1>1. /\ exclude' = Encoded(Append(Removed, removal)) /\ add' = Encoded(Adds)
      /\ UNCHANGED <<ruleset, data, failed>> /\ id \in Identified(c) \ IdsOf(Removed)
  BY DEF RemoveMatch, RecordRemoval, excludedMatchIds
<1>2. Coherent(Append(Removed, removal), Adds)
  BY <1>1, RemoveMatchKeeps DEF IInv
<1> HIDE DEF removal
<1> QED BY <1>1, <1>2, NextPage

LEMMA RemoveAddedStep ==
  ASSUME IInv, steady, NEW c \in Categories, NEW k \in 1 .. MaxParams, RemoveAdded(c, k)
  PROVE  Coherent(Removed, Adds)'
<1> DEFINE removal == [id |-> None, category |-> Adds[k].category, name |-> Adds[k].name]
<1>1. /\ exclude' = Encoded(Append(Removed, removal)) /\ add' = Encoded(RemoveAt(Adds, k))
      /\ UNCHANGED <<ruleset, data, failed>> /\ k \in DOMAIN Adds
  BY DEF RemoveAdded, RecordRemoval
<1>2. Coherent(Append(Removed, removal), RemoveAt(Adds, k))
  BY <1>1, RemoveAddedKeeps DEF IInv
<1> HIDE DEF removal
<1> QED BY <1>1, <1>2, NextPage

\* Another ruleset is picked, or the same again.
LEMMA PickRulesetStep ==
  ASSUME IInv, NEW r \in Rulesets, PickRuleset(r), steady'
  PROVE  Coherent(Removed, Adds)'
<1>1. /\ exclude' = Encoded(Removed) /\ add' = Encoded(Adds) /\ ruleset' = r
      /\ UNCHANGED <<data, failed>>
      /\ (Removed = <<>> /\ Adds = <<>>) \/ (steady /\ r = ruleset)
  BY DEF PickRuleset
<1>2. CASE Removed = <<>> /\ Adds = <<>>
  <2>1. Removed' = <<>> /\ Adds' = <<>>
    BY <1>1, <1>2, NothingSelected DEF Removed, Adds
  <2> QED BY <2>1, NothingSelectedThen
<1>3. CASE steady /\ r = ruleset
  <2>1. Coherent(Removed, Adds) /\ UNCHANGED <<ruleset, data, failed>>
    BY <1>1, <1>3 DEF IInv
  <2> QED BY <1>1, <2>1, NextPage
<1> QED BY <1>1, <1>2, <1>3

LEMMA Inductive == IInv /\ [Next]_vars => IInv'
<1> SUFFICES ASSUME IInv, [Next]_vars PROVE IInv'
  OBVIOUS
<1>1. RunInv'
  BY DEF IInv, RunInv, Next, vars, AddConsultee, RemoveMatch, RemoveAdded, RecordRemoval, PickRuleset,
         ContinueFromBoundary, RunAgain
<1>2. ASSUME steady' PROVE Coherent(Removed, Adds)'
  <2>1. ASSUME NEW c \in Categories, NEW name \in Names, AddConsultee(c, name)
        PROVE  Coherent(Removed, Adds)'
    <3>1. steady
      BY <1>2, <2>1 DEF AddConsultee
    <3> QED BY <2>1, <3>1, AddConsulteeKeeps
  <2>2. ASSUME NEW c \in Categories, NEW id \in Consultees, RemoveMatch(c, id)
        PROVE  Coherent(Removed, Adds)'
    <3>1. steady
      BY <1>2, <2>2 DEF RemoveMatch, RecordRemoval
    <3> QED BY <2>2, <3>1, RemoveMatchStep
  <2>3. ASSUME NEW c \in Categories, NEW k \in 1 .. MaxParams, RemoveAdded(c, k)
        PROVE  Coherent(Removed, Adds)'
    <3>1. steady
      BY <1>2, <2>3 DEF RemoveAdded, RecordRemoval
    <3> QED BY <2>3, <3>1, RemoveAddedStep
  <2>4. ASSUME NEW r \in Rulesets, PickRuleset(r) PROVE Coherent(Removed, Adds)'
    BY <1>2, <2>4, PickRulesetStep
  <2>5. CASE ContinueFromBoundary
    <3>1. Removed' = <<>> /\ Adds' = <<>>
      BY <2>5, NothingSelected DEF ContinueFromBoundary, Removed, Adds
    <3> QED BY <3>1, NothingSelectedThen
  <2>6. ASSUME NEW d \in Datasets, NEW fails \in BOOLEAN, RunAgain(d, fails)
        PROVE  Coherent(Removed, Adds)'
    <3>1. Removed' = <<>> /\ Adds' = <<>>
      BY <1>2, <2>6 DEF RunAgain, Removed, Adds
    <3> QED BY <3>1, NothingSelectedThen
  <2>7. CASE UNCHANGED vars
    <3>1. Coherent(Removed, Adds) /\ UNCHANGED <<exclude, add, ruleset, data, failed>>
      BY <1>2, <2>7 DEF IInv, vars
    <3>2. Removed' = Removed /\ Adds' = Adds
      BY <3>1 DEF Removed, Adds
    <3> QED BY <3>1, <3>2, SameSelection
  <2> QED BY <2>1, <2>2, <2>3, <2>4, <2>5, <2>6, <2>7 DEF Next
<1>3. SelectionInv'
  BY SelectionStep DEF IInv
<1> QED BY <1>1, <1>2, <1>3 DEF IInv

LEMMA Initially == Init => IInv
<1> SUFFICES ASSUME Init PROVE IInv
  OBVIOUS
<1>1. RunInv
  BY DEF Init, RunInv
<1>2. steady => Removed = <<>> /\ Adds = <<>>
  BY DEF Init
<1>3. SelectionInv
  BY LinksAssumption DEF Init, SelectionInv, Removed, Adds
<1> QED BY <1>1, <1>2, <1>3, NothingSelected DEF IInv

\* A selection built under one ruleset and one run is coherent with it.
THEOREM SelectionCoheres == Spec => []IInv
<1> QED BY Initially, Inductive, PTL DEF Spec

\* The variables are of their types.
THEOREM TypeCorrect == Spec => []TypeOK
<1>1. IInv => TypeOK
  BY DEF IInv, RunInv, SelectionInv, TypeOK
<1> QED BY <1>1, SelectionCoheres, PTL

-----------------------------------------------------------------------------
(* What the pages show *)

\* Under one ruleset and one run, two rows of a category that share a name are two
\* matches of the ruleset's: no addition repeats a listed name.
THEOREM NoAdditionRepeats == Spec => []ListedOnce
<1>1. IInv => ListedOnce
  <2> SUFFICES ASSUME IInv, steady, NEW c \in Categories,
                      NEW r \in CategoryRows(c), NEW s \in CategoryRows(c), r.name = s.name, r # s
               PROVE  r.by = "ruleset" /\ s.by = "ruleset"
    BY DEF ListedOnce
  <2>1. NamesApart(Removed, Adds)
    BY DEF IInv, Coherent
  <2> DEFINE IsMatch(x) == \E id \in Identified(c) \ excludedMatchIds : x = MatchRow(id)
             IsAdded(x) == \E k \in DOMAIN Adds : Adds[k].category = c /\ x = AddedRow(k)
  <2>2. \A x \in {r, s} : IsMatch(x) \/ IsAdded(x)
    BY DEF CategoryRows
  <2>3. \A x \in {r, s} : IsMatch(x) => x.by = "ruleset"
    BY DEF MatchRow
  <2>4. ~(IsAdded(r) /\ IsAdded(s))
    BY <2>1 DEF NamesApart, AddedRow
  <2>5. \A x, y \in {r, s} : ~(IsMatch(x) /\ IsAdded(y) /\ x.name = y.name)
    BY <2>1 DEF NamesApart, AddedRow, MatchRow, excludedMatchIds
  <2> HIDE DEF IsMatch, IsAdded
  <2> QED BY <2>2, <2>3, <2>4, <2>5
<1> QED BY <1>1, SelectionCoheres, PTL

\* Under one ruleset and one run, what the report says is mapped is what the
\* interactive map and the static map draw as identified.
THEOREM MappedAreDrawn == Spec => []MappedIsDrawn
<1>1. IInv => MappedIsDrawn
  <2> SUFFICES ASSUME IInv, steady, NEW c \in Categories
               PROVE  LET mapped == {row.id : row \in {row \in CategoryRows(c) : Mapped(row)}}
                      IN /\ DrawnAsIdentified(c, addedMatchIds) = mapped
                         /\ categoryStaticMap(c) = mapped
    BY DEF MappedIsDrawn
  <2> DEFINE mapped == {row.id : row \in {row \in CategoryRows(c) : Mapped(row)}}
             added == {Adds[k].id : k \in {k \in DOMAIN Adds : Adds[k].category = c}}
             nearby == NearbyOnly(c) \cap added
  <2>1. AddsStand(Removed, Adds) /\ \A id \in Consultees : id # None
    BY SelectionAssumption DEF IInv, Coherent
  <2>2. \A id \in added : id \in Consultees \ excludedMatchIds /\ Category(id) = c
    BY <2>1 DEF AddsStand, excludedMatchIds
  <2>3. /\ \A id \in Identified(c) \cup NearbyOnly(c) : id \in Consultees /\ id \in DOMAIN Run
        /\ \A id \in Identified(c) \cup NearbyOnly(c) : Category(id) = c
    BY FoundFacts DEF IInv
  <2>4. \A id \in added : id \in DOMAIN Run <=> id \in Identified(c) \cup NearbyOnly(c)
    BY <2>2 DEF Identified, NearbyOnly
  <2>5. mapped = (Identified(c) \ excludedMatchIds) \cup (added \cap DOMAIN Run)
    <3>1. \A id \in Identified(c) \ excludedMatchIds : MatchRow(id) \in CategoryRows(c) /\ Mapped(MatchRow(id))
      BY DEF CategoryRows, MatchRow, Mapped
    <3>2. \A k \in DOMAIN Adds : Adds[k].category = c =>
            /\ AddedRow(k) \in CategoryRows(c)
            /\ Mapped(AddedRow(k)) <=> Adds[k].id \in DOMAIN Run
      BY <2>1 DEF CategoryRows, AddedRow, Mapped, AddsStand
    <3>3. \A id : MatchRow(id).id = id
      BY DEF MatchRow
    <3>4. \A k : AddedRow(k).id = Adds[k].id
      BY DEF AddedRow
    <3>5. \A row \in CategoryRows(c) :
            \/ \E id \in Identified(c) \ excludedMatchIds : row = MatchRow(id)
            \/ \E k \in DOMAIN Adds : Adds[k].category = c /\ row = AddedRow(k)
      BY DEF CategoryRows
    <3>6. ASSUME NEW id \in mapped
          PROVE  id \in (Identified(c) \ excludedMatchIds) \cup (added \cap DOMAIN Run)
      <4>1. PICK row \in CategoryRows(c) : Mapped(row) /\ row.id = id
        OBVIOUS
      <4> QED BY <3>2, <3>3, <3>4, <3>5, <4>1
    <3>7. ASSUME NEW id \in (Identified(c) \ excludedMatchIds) \cup (added \cap DOMAIN Run)
          PROVE  id \in mapped
      <4>1. CASE id \in Identified(c) \ excludedMatchIds
        BY <3>1, <3>3, <4>1
      <4>2. CASE id \in added \cap DOMAIN Run
        BY <3>2, <3>4, <4>2
      <4> QED BY <4>1, <4>2
    <3> HIDE DEF mapped, added
    <3> QED BY <3>6, <3>7
  <2>6. ASSUME NEW ids, added \subseteq ids, \A id \in ids \cap NearbyOnly(c) : id \in added
        PROVE  DrawnAsIdentified(c, ids) = mapped
    <3>1. \A id \in Identified(c) : isIdentified(id)
      BY DEF Identified
    <3>2. \A id \in NearbyOnly(c) : ~isIdentified(id)
      BY DEF NearbyOnly
    <3> HIDE DEF added, mapped
    <3> QED BY <2>2, <2>3, <2>4, <2>5, <2>6, <3>1, <3>2 DEF DrawnAsIdentified
  <2>7. DrawnAsIdentified(c, addedMatchIds) = mapped
    <3>1. \A id : id \in addedMatchIds <=> id # None /\ \E k \in DOMAIN Adds : Adds[k].id = id
      BY DEF addedMatchIds, IdsOf, ToSet
    <3>2. added \subseteq addedMatchIds
      BY <2>1, <2>2, <3>1
    <3>3. \A id \in addedMatchIds \cap NearbyOnly(c) : id \in added
      BY <2>1, <2>3, <3>1 DEF AddsStand
    <3> HIDE DEF added, mapped
    <3> QED BY <2>6, <3>2, <3>3
  <2>8. categoryStaticMap(c) = mapped
    <3>1. {e.id : e \in {e \in ToSet(Adds) : e.category = c}} \ {None} = added
      BY <2>1, <2>2 DEF ToSet
    <3>2. DrawnAsIdentified(c, added) = mapped
      <4> HIDE DEF added, mapped
      <4> QED BY <2>6
    <3> QED BY <3>1, <3>2 DEF categoryStaticMap
  <2> QED BY <2>7, <2>8
<1> QED BY <1>1, SelectionCoheres, PTL
\* The check page's counts, the category page's rows and the report agree, whatever
\* the selection; what the check page leaves out is additions alone.
THEOREM PagesAlwaysAgree == Spec => []PagesAgree
<1>1. PagesAgree
  <2> DEFINE Found == {id \in DOMAIN Run : isIdentified(id)}
             listed == {<<Category(id), MatchRow(id)>> : id \in Found \ excludedMatchIds}
                         \cup {<<Adds[k].category, AddedRow(k)>> : k \in DOMAIN Adds}
             Under(c) == {x[2] : x \in {x \in listed : x[1] = c}}
  <2>1. ASSUME NEW c PROVE Under(c) = CategoryRows(c)
    <3>1. \A id : id \in Identified(c) <=> id \in Found /\ Category(id) = c
      BY DEF Identified
    <3>2. ASSUME NEW row \in Under(c) PROVE row \in CategoryRows(c)
      <4>1. PICK x \in listed : x[1] = c /\ x[2] = row
        OBVIOUS
      <4>2. CASE \E id \in Found \ excludedMatchIds : x = <<Category(id), MatchRow(id)>>
        BY <3>1, <4>1, <4>2 DEF CategoryRows
      <4>3. CASE \E k \in DOMAIN Adds : x = <<Adds[k].category, AddedRow(k)>>
        BY <4>1, <4>3 DEF CategoryRows
      <4> QED BY <4>2, <4>3
    <3>3. ASSUME NEW row \in CategoryRows(c) PROVE row \in Under(c)
      <4>1. CASE \E id \in Identified(c) \ excludedMatchIds : row = MatchRow(id)
        <5>1. PICK id \in Found \ excludedMatchIds : row = MatchRow(id) /\ Category(id) = c
          BY <3>1, <4>1
        <5>2. <<c, row>> \in listed
          BY <5>1
        <5> HIDE DEF listed
        <5> QED BY <5>2
      <4>2. CASE \E k \in DOMAIN Adds : Adds[k].category = c /\ row = AddedRow(k)
        <5>1. <<c, row>> \in listed
          BY <4>2
        <5> HIDE DEF listed
        <5> QED BY <5>1
      <4> QED BY <4>1, <4>2 DEF CategoryRows
    <3> HIDE DEF Under
    <3> QED BY <3>2, <3>3
  <2>2. groupedConsultees = [c \in CheckCategories |-> Under(c)]
    BY DEF groupedConsultees
  <2> HIDE DEF Under, listed
  <2>3. ASSUME NEW c \in DOMAIN groupedConsultees PROVE groupedConsultees[c] = CategoryRows(c)
    BY <2>1, <2>2
  <2> DEFINE report == reportByCategory
             sections == reportCategories \cup {e.category : e \in ToSet(Adds)}
  <2>4. report = [c \in {c \in sections : CategoryRows(c) # {}} |-> CategoryRows(c)]
    BY DEF reportByCategory, CategoryRows
  <2>5. ASSUME NEW c, NEW row \in CategoryRows(c), c \notin reportCategories
        PROVE  \E k \in DOMAIN Adds : Adds[k].category = c /\ row = AddedRow(k)
    <3>1. Identified(c) = {}
      BY <2>5 DEF Identified, reportCategories
    <3> QED BY <3>1 DEF CategoryRows
  <2>6. ASSUME NEW c, CategoryRows(c) # {} PROVE c \in sections
    <3>1. PICK row : row \in CategoryRows(c)
      BY <2>6
    <3>2. CASE c \notin reportCategories
      BY <2>5, <3>1, <3>2 DEF ToSet
    <3> QED BY <3>2
  <2> HIDE DEF sections, report
  <2>7. ASSUME NEW c PROVE CategoryRows(c) = IF c \in DOMAIN report THEN report[c] ELSE {}
    BY <2>4, <2>6
  <2>8. ASSUME NEW c, c \notin DOMAIN groupedConsultees, NEW row \in CategoryRows(c)
        PROVE  row.by = "hand"
    <3>1. c \notin reportCategories
      BY <2>2, <2>8 DEF CheckCategories
    <3> QED BY <2>5, <2>8, <3>1 DEF AddedRow
  <2> QED BY <2>3, <2>7, <2>8 DEF PagesAgree, report
<1> QED BY <1>1, PTL DEF Spec

\* What the form accepts is then listed, under one ruleset and one run: among the
\* matches once more, when its removal is undone, and else as an addition.
THEOREM AcceptedIsListed == Spec => AddedIsListed
<1> DEFINE Listed == \A c \in Categories, name \in Names :
                       steady /\ AddConsultee(c, name) =>
                         LET added == NameOf[StoredConsultee(c, name)] IN added \in listedNames(c)'
<1>1. IInv /\ [Next]_vars => [Listed]_vars
  BY AddConsulteeKeeps
<1> QED BY <1>1, SelectionCoheres, PTL DEF Spec, AddedIsListed
-----------------------------------------------------------------------------
(* What a row's Remove link takes away *)

\* A category's rows under the run of the moment, and how many are alike, when the
\* removals are R and the additions A.
RowsOf(c, R, A) ==
  {MatchRow(id) : id \in Identified(c) \ IdsOf(R)}
    \cup {[by |-> "hand", id |-> A[k].id, name |-> A[k].name, index |-> k] :
            k \in {k \in DOMAIN A : A[k].category = c}}
AlikeRows(c, R, A, r) == {x \in RowsOf(c, R, A) : <<x.by, x.id, x.name>> = <<r.by, r.id, r.name>>}
AlikePlaces(c, A, r) ==
  {k \in DOMAIN A : A[k].category = c /\ A[k].id = r.id /\ A[k].name = r.name}

\* Rows alike that were added are as many as the places they are at.
LEMMA AddedRowsCount ==
  ASSUME NEW c, NEW R, NEW A \in Seq(Selected), NEW r, r.by = "hand"
  PROVE  /\ Cardinality(AlikeRows(c, R, A, r)) = Cardinality(AlikePlaces(c, A, r))
         /\ IsFiniteSet(AlikePlaces(c, A, r)) /\ Cardinality(AlikePlaces(c, A, r)) \in Nat
<1> DEFINE places == AlikePlaces(c, A, r)
           rows == AlikeRows(c, R, A, r)
           Row(k) == [by |-> "hand", id |-> A[k].id, name |-> A[k].name, index |-> k]
           f == [k \in places |-> Row(k)]
<1>1. IsFiniteSet(places) /\ Cardinality(places) \in Nat
  <2>1. places \subseteq 1 .. Len(A) /\ Len(A) \in Nat
    BY LenProperties DEF AlikePlaces
  <2>2. IsFiniteSet(1 .. Len(A))
    BY <2>1, FS_Interval
  <2> HIDE DEF places
  <2>3. IsFiniteSet(places)
    BY <2>1, <2>2, FS_Subset
  <2> QED BY <2>3, FS_CardinalityType
<1>2. rows = {Row(k) : k \in places}
  <2>1. \A id : MatchRow(id).by # r.by
    BY DEF MatchRow
  <2>2. \A k : Row(k).by = r.by /\ Row(k).id = A[k].id /\ Row(k).name = A[k].name
    OBVIOUS
  <2>3. \A x : x \in RowsOf(c, R, A) <=>
          \/ \E id \in Identified(c) \ IdsOf(R) : x = MatchRow(id)
          \/ \E k \in DOMAIN A : A[k].category = c /\ x = Row(k)
    BY DEF RowsOf
  <2> HIDE DEF Row
  <2>4. \A x : x \in rows <=> \E k \in places : x = Row(k)
    BY <2>1, <2>2, <2>3 DEF AlikeRows, AlikePlaces
  <2> QED BY <2>4
<1>3. \A j, k \in places : Row(j) = Row(k) => j = k
  <2>1. \A k : Row(k).index = k
    OBVIOUS
  <2> HIDE DEF Row
  <2> QED BY <2>1
<1> HIDE DEF places, rows, Row
<1>4. f \in Bijection(places, rows)
  BY <1>2, <1>3 DEF Bijection, Injection, Surjection, IsInjective
<1>5. ExistsBijection(places, rows)
  BY <1>4 DEF ExistsBijection
<1> QED BY <1>1, <1>5, FS_Bijection DEF places, rows

\* Rows alike that the run found are one row.
LEMMA MatchRowsCount ==
  ASSUME NEW c, NEW R, NEW A, NEW id
  PROVE  Cardinality(AlikeRows(c, R, A, MatchRow(id))) =
           IF id \in Identified(c) \ IdsOf(R) THEN 1 ELSE 0
<1> DEFINE r == MatchRow(id)
           Row(k) == [by |-> "hand", id |-> A[k].id, name |-> A[k].name, index |-> k]
<1>1. \A o : MatchRow(o).by = "ruleset" /\ MatchRow(o).id = o /\ MatchRow(o).name = NameOf[o]
  BY DEF MatchRow
<1>2. \A k : Row(k).by = "hand"
  OBVIOUS
<1>3. \A x : x \in RowsOf(c, R, A) <=>
        \/ \E o \in Identified(c) \ IdsOf(R) : x = MatchRow(o)
        \/ \E k \in DOMAIN A : A[k].category = c /\ x = Row(k)
  BY DEF RowsOf
<1> HIDE DEF Row
<1>4. \A x : x \in AlikeRows(c, R, A, r) <=> x = r /\ id \in Identified(c) \ IdsOf(R)
  BY <1>1, <1>2, <1>3 DEF AlikeRows
<1> HIDE DEF r
<1>5. CASE id \in Identified(c) \ IdsOf(R)
  <2>1. AlikeRows(c, R, A, r) = {r}
    BY <1>4, <1>5
  <2> QED BY <1>5, <2>1, FS_Singleton DEF r
<1>6. CASE ~(id \in Identified(c) \ IdsOf(R))
  <2>1. AlikeRows(c, R, A, r) = {}
    BY <1>4, <1>6
  <2> QED BY <1>6, <2>1, FS_EmptySet DEF r
<1> QED BY <1>5, <1>6

\* The places alike once the n-th addition is dropped are those there were, but it.
LEMMA DroppedPlace ==
  ASSUME NEW c, NEW A \in Seq(Selected), NEW n \in DOMAIN A, NEW r
  PROVE  Cardinality(AlikePlaces(c, RemoveAt(A, n), r)) = Cardinality(AlikePlaces(c, A, r) \ {n})
<1> DEFINE B == RemoveAt(A, n)
           Old(k) == IF k < n THEN k ELSE k + 1
           S == AlikePlaces(c, B, r)
           T == AlikePlaces(c, A, r) \ {n}
           f == [k \in S |-> Old(k)]
<1>1. DOMAIN A = 1 .. Len(A) /\ Len(A) \in Nat /\ n \in 1 .. Len(A)
  BY LenProperties
<1>2. DOMAIN B = 1 .. Len(A) - 1 /\ \A k \in DOMAIN B : B[k] = A[Old(k)]
  <2>1. /\ B \in Seq(Selected) /\ Len(B) = Len(A) - 1
        /\ \A k \in 1 .. Len(A) - 1 : B[k] = A[Old(k)]
    BY <1>1, RemoveAtProperties
  <2>2. DOMAIN B = 1 .. Len(B)
    BY <2>1, LenProperties
  <2> QED BY <2>1, <2>2
<1>3. /\ \A k \in DOMAIN B : Old(k) \in DOMAIN A \ {n}
      /\ \A j, k \in DOMAIN B : Old(j) = Old(k) => j = k
  BY <1>1, <1>2
<1>4. ASSUME NEW m \in DOMAIN A \ {n} PROVE \E k \in DOMAIN B : Old(k) = m
  <2>1. CASE m < n
    BY <1>1, <1>2, <2>1
  <2>2. CASE ~(m < n)
    <3>1. m - 1 \in DOMAIN B /\ Old(m - 1) = m
      BY <1>1, <1>2, <2>2
    <3> QED BY <3>1
  <2> QED BY <2>1, <2>2
<1> HIDE DEF B, Old
<1>5. IsFiniteSet(S)
  <2>1. S \subseteq 1 .. Len(A) - 1
    BY <1>2 DEF AlikePlaces
  <2>2. IsFiniteSet(1 .. Len(A) - 1)
    BY <1>1, FS_Interval
  <2> HIDE DEF S
  <2> QED BY <2>1, <2>2, FS_Subset
<1>6. /\ \A k \in S : Old(k) \in T
      /\ \A j, k \in S : Old(j) = Old(k) => j = k
      /\ \A m \in T : \E k \in S : Old(k) = m
  BY <1>2, <1>3, <1>4 DEF AlikePlaces
<1> HIDE DEF S, T
<1>7. f \in Bijection(S, T)
  BY <1>6 DEF Bijection, Injection, Surjection, IsInjective
<1>8. ExistsBijection(S, T)
  BY <1>7 DEF ExistsBijection
<1> QED BY <1>5, <1>8, FS_Bijection DEF S, T, B
\* A row's Remove link takes away that row and no other, of any category, whatever the
\* selection was built under.
THEOREM JustTheRowGoes == Spec => RemovesJustTheRow
<1> DEFINE OneGone(c, row, other, r) ==
             Count(other, r)' =
               Count(other, r) - (IF <<other, r.by, r.id, r.name>> = <<c, row.by, row.id, row.name>>
                                  THEN 1 ELSE 0)
           JustTheRow ==
             \A c \in Categories : \A row \in CategoryRows(c) :
               (IF row.by = "ruleset" THEN RemoveMatch(c, row.id) ELSE RemoveAdded(c, row.index)) =>
                 \A other \in Categories : \A r \in CategoryRows(other) : OneGone(c, row, other, r)
<1>1. ASSUME IInv PROVE JustTheRow
  <2>1. /\ RunInv /\ Removed \in Seq(Selected \cup Excluded) /\ Adds \in Seq(Selected)
        /\ DOMAIN Adds = 1 .. Len(Adds)
    BY <1>1, LenProperties DEF IInv, SelectionInv
  <2>2. \A c, r : Count(c, r) = Cardinality(AlikeRows(c, Removed, Adds, r))
    BY DEF Count, AlikeRows, RowsOf, CategoryRows, AddedRow, excludedMatchIds
  <2>3. ASSUME NEW R, NEW A, Removed' = R, Adds' = A, UNCHANGED <<ruleset, data, failed>>
        PROVE  \A c, r : (Count(c, r))' = Cardinality(AlikeRows(c, R, A, r))
    <3>1. \A c : (Identified(c))' = Identified(c)
      BY <2>3 DEF Identified, isIdentified, Run, Category
    <3> QED BY <2>3, <3>1 DEF Count, AlikeRows, RowsOf, CategoryRows, AddedRow, MatchRow, excludedMatchIds
  <2>4. \A c : \A r \in CategoryRows(c) :
          \/ \E id \in Identified(c) \ IdsOf(Removed) : r = MatchRow(id)
          \/ r.by = "hand" /\ r.index \in DOMAIN Adds /\ Adds[r.index].category = c
             /\ r.id = Adds[r.index].id /\ r.name = Adds[r.index].name
    BY DEF CategoryRows, AddedRow, excludedMatchIds
  <2>5. \A id : /\ MatchRow(id).by = "ruleset" /\ MatchRow(id).id = id
                /\ MatchRow(id).name = NameOf[id]
    BY DEF MatchRow
  <2> SUFFICES ASSUME NEW c \in Categories, NEW row \in CategoryRows(c),
                      IF row.by = "ruleset" THEN RemoveMatch(c, row.id) ELSE RemoveAdded(c, row.index),
                      NEW other \in Categories, NEW r \in CategoryRows(other)
               PROVE  OneGone(c, row, other, r)
    OBVIOUS
  <2>6. CASE row.by = "ruleset"
    <3>1. PICK gone \in Identified(c) \ IdsOf(Removed) : row = MatchRow(gone)
      BY <2>4, <2>6
    <3> DEFINE e == [id |-> gone, category |-> c, name |-> NameOf[gone]]
               R == Append(Removed, e)
    <3>2. RemoveMatch(c, gone)
      BY <2>5, <2>6, <3>1
    <3>3. exclude' = Encoded(R) /\ add' = Encoded(Adds) /\ UNCHANGED <<ruleset, data, failed>>
      BY <3>2 DEF RemoveMatch, RecordRemoval
    <3>4. gone \in Consultees /\ Category(gone) = c /\ gone # None
      BY <2>1, <3>1, FoundFacts, SelectionAssumption
    <3>5. e \in Selected \cup Excluded /\ e.id = gone
      BY <3>4, SelectionAssumption DEF Selected
    <3> HIDE DEF e
    <3>6. R \in Seq(Selected \cup Excluded) /\ IdsOf(R) = IdsOf(Removed) \cup {gone}
      BY <2>1, <3>4, <3>5, OneMoreRemoved
    <3> HIDE DEF R
    <3>7. (Count(other, r))' = Cardinality(AlikeRows(other, R, Adds, r))
      BY <2>1, <2>3, <3>3, <3>6, Written
    <3>8. CASE r.by = "hand"
      BY <2>1, <2>2, <2>5, <2>6, <3>7, <3>8, AddedRowsCount
    <3>9. CASE \E id \in Identified(other) \ IdsOf(Removed) : r = MatchRow(id)
      <4>1. PICK id \in Identified(other) \ IdsOf(Removed) : r = MatchRow(id)
        BY <3>9
      <4>2. Count(other, r) = 1
        BY <2>2, <4>1, MatchRowsCount
      <4>3. (Count(other, r))' = IF id = gone THEN 0 ELSE 1
        BY <3>6, <3>7, <4>1, MatchRowsCount
      <4>4. id = gone => other = c
        BY <2>1, <3>4, <4>1, FoundFacts
      <4>5. <<other, r.by, r.id, r.name>> = <<c, row.by, row.id, row.name>> <=> id = gone
        BY <2>5, <3>1, <4>1, <4>4
      <4> QED BY <4>2, <4>3, <4>5
    <3> QED BY <2>4, <3>8, <3>9
  <2>7. CASE row.by # "ruleset"
    <3> DEFINE k == row.index
               e == [id |-> None, category |-> c, name |-> Adds[k].name]
               R == Append(Removed, e)
               A == RemoveAt(Adds, k)
    <3>1. /\ row.by = "hand" /\ k \in DOMAIN Adds /\ Adds[k].category = c
          /\ row.id = Adds[k].id /\ row.name = Adds[k].name
      BY <2>4, <2>5, <2>7
    <3>2. exclude' = Encoded(R) /\ add' = Encoded(A) /\ UNCHANGED <<ruleset, data, failed>>
      BY <2>7 DEF RemoveAdded, RecordRemoval
    <3>3. e \in Selected \cup Excluded /\ e.id = None
      <4>1. Adds[k] \in Selected
        BY <2>1, <3>1, ElementOfSeq
      <4> QED BY <4>1 DEF Selected
    <3> HIDE DEF k, e
    <3>4. R \in Seq(Selected \cup Excluded) /\ IdsOf(R) = IdsOf(Removed)
      <4>1. /\ R \in Seq(Selected \cup Excluded)
            /\ IdsOf(R) = IdsOf(Removed) \cup ({e.id} \ {None})
        BY <2>1, <3>3, OneMoreRemoved
      <4> HIDE DEF R
      <4> QED BY <3>3, <4>1
    <3>5. A \in Seq(Selected)
      BY <2>1, <3>1, RemoveAtProperties
    <3> HIDE DEF R
    <3>6. (Count(other, r))' = Cardinality(AlikeRows(other, R, A, r))
      <4> HIDE DEF A
      <4> QED BY <2>3, <3>2, <3>4, <3>5, Written
    <3>7. CASE r.by = "hand"
      <4> DEFINE places == AlikePlaces(other, Adds, r)
      <4>1. (Count(other, r))' = Cardinality(places \ {k})
        <5>1. (Count(other, r))' = Cardinality(AlikePlaces(other, A, r))
          BY <3>5, <3>6, <3>7, AddedRowsCount
        <5> QED BY <2>1, <3>1, <5>1, DroppedPlace
      <4>2. Count(other, r) = Cardinality(places) /\ IsFiniteSet(places) /\ Cardinality(places) \in Nat
        BY <2>1, <2>2, <3>7, AddedRowsCount
      <4>3. k \in places <=> <<other, r.by, r.id, r.name>> = <<c, row.by, row.id, row.name>>
        BY <3>1, <3>7 DEF AlikePlaces
      <4> HIDE DEF places
      <4>4. Cardinality(places \ {k}) = Cardinality(places) - (IF k \in places THEN 1 ELSE 0)
        <5>1. Cardinality(places \ {k}) =
                IF k \in places THEN Cardinality(places) - 1 ELSE Cardinality(places)
          BY <4>2, FS_RemoveElement
        <5> QED BY <4>2, <5>1
      <4> QED BY <4>1, <4>2, <4>3, <4>4
    <3>8. CASE \E id \in Identified(other) \ IdsOf(Removed) : r = MatchRow(id)
      <4>1. PICK id \in Identified(other) \ IdsOf(Removed) : r = MatchRow(id)
        BY <3>8
      <4>2. Count(other, r) = 1
        BY <2>2, <4>1, MatchRowsCount
      <4>3. (Count(other, r))' = 1
        <5> HIDE DEF A
        <5> QED BY <3>4, <3>6, <4>1, MatchRowsCount
      <4>4. r.by # row.by
        BY <2>5, <2>7, <4>1
      <4> QED BY <4>2, <4>3, <4>4
    <3> QED BY <2>4, <3>7, <3>8
  <2> QED BY <2>6, <2>7
<1>2. IInv /\ [Next]_vars => [JustTheRow]_vars
  BY <1>1
<1> QED BY <1>2, SelectionCoheres, PTL DEF Spec, RemovesJustTheRow
=============================================================================
