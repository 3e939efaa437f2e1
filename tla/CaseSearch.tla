------------------------------ MODULE CaseSearch ------------------------------
(***************************************************************************)
(* What the pages read of case_boundary (case-boundaries.ts): the home     *)
(* page's search and its pages of results, a case's files on its boundary  *)
(* page, and the other cases around a site. Each query picks a case's      *)
(* newest row for itself. A distance is left out but for its order, and a  *)
(* typed query is the titles and references it is found in.                *)
(***************************************************************************)
EXTENDS CbosImport

CONSTANTS
  CaseOrder,   \* the cases, in the order of their references
  IdOf(_),     \* the id of a row, a hash of its case and name: a number
  PageSizes    \* PAGE_SIZE_OPTIONS

\* What toCaseBoundaryFromCbos may call a row: a case, and its file's name, with its
\* version and document where that is taken, or its document alone.
RowNames ==
  {<<n>> : n \in FileNames \cup Documents}
    \cup {<<n, v>> : n \in FileNames, v \in 1..MaxSaves}
    \cup {<<n, v, d>> : n \in FileNames, v \in 1..MaxSaves, d \in Documents}
RowIds == Cases \X RowNames

\* No two rows have one hash.
ASSUME SearchAssumption ==
  /\ IsFiniteSet(Cases) /\ CaseOrder \in SetToSeqs(Cases)
  /\ Titles \subseteq Nat
  /\ \A x \in RowIds : IdOf(x) \in Int
  /\ \A x, y \in RowIds : IdOf(x) = IdOf(y) => x = y
  /\ PageSizes \subseteq Nat \ {0}

\* A query's rows, as its ORDER BY has them.
InOrder(S, Before(_, _)) ==
  CHOOSE s \in SetToSeqs(S) : \A i, j \in DOMAIN s : i < j => Before(s[i], s[j])

Place(c) == CHOOSE k \in DOMAIN CaseOrder : CaseOrder[k] = c

RowsOf(c) == {id \in DOMAIN table : id[1] = c}

\* receivedDate DESC, id.
Received(x, y) ==
  \/ receivedDate(table[x].file) > receivedDate(table[y].file)
  \/ receivedDate(table[x].file) = receivedDate(table[y].file) /\ IdOf(x) < IdOf(y)

NewestMutant(c) == CHOOSE x \in RowsOf(c) : \A y \in RowsOf(c) \ {x} : IdOf(x) < IdOf(y)

\* ROW_NUMBER() OVER (PARTITION BY caseReference ...) = 1.
Newest(c) == CHOOSE x \in RowsOf(c) : \A y \in RowsOf(c) \ {x} : Received(x, y)

listCaseBoundaryFiles(c) == InOrder(RowsOf(c), Received)

\* A case is found by its reference or the title of any of its rows, and listed by
\* its newest one's.
CasesFound(query) == {c \in Cases : \E id \in RowsOf(c) : c \in query \/ table[id].title \in query}
ListedAs(c) == table[Newest(c)].title
ListedBefore(c, d) ==
  \/ ListedAs(c) < ListedAs(d)
  \/ ListedAs(c) = ListedAs(d) /\ Place(c) < Place(d)
Listed(query) == InOrder(CasesFound(query), ListedBefore)

searchCaseBoundariesMutant(query, limit, offset) ==
  LET page == Slice(Listed(query), offset + 1, offset + limit)
  IN [rows |-> [k \in DOMAIN page |-> Newest(page[k])],
      total |-> IF page = <<>> THEN 0 ELSE Len(Listed(query))]

\* The count comes with the rows; past the last of them it is asked for alone.
searchCaseBoundaries(query, limit, offset) ==
  LET page == Slice(Listed(query), offset + 1, offset + limit)
  IN [rows |-> [k \in DOMAIN page |-> Newest(page[k])],
      total |-> IF page # <<>> THEN Len(Listed(query))
                ELSE IF offset > 0 THEN Cardinality(CasesFound(query)) ELSE 0]

PageCount(total, size) == (total + size - 1) \div size

\* The home page; a link past the last page leads there.
buildHomePage(query, size, page) ==
  LET asked == searchCaseBoundaries(query, size, (page - 1) * size)
      last == PageCount(asked.total, size)
  IN IF asked.total > 0 /\ page > last
     THEN [number |-> last, rows |-> searchCaseBoundaries(query, size, (last - 1) * size).rows]
     ELSE [number |-> page, rows |-> asked.rows]

\* The other cases around a site, each once, whichever of the site's files it is:
\* those within a radius, and all of them for an addition by name.
findNearbyCases(site, within) ==
  IF site \notin DOMAIN table THEN {} ELSE {Newest(c) : c \in {c \in within \ {site[1]} : RowsOf(c) # {}}}
findOtherCases(site) == findNearbyCases(site, Cases)

-----------------------------------------------------------------------------
(* Properties *)

\* A search lists each case found once over its pages, by the file the case's own
\* boundary page lists first, and any page's link shows something if anything is
\* found, though results shrink between the two.
SearchShowsEach ==
  \A query \in SUBSET (Titles \cup Cases), size \in PageSizes :
    LET last == PageCount(Cardinality(CasesFound(query)), size)
        shown == [page \in 1..(last + 2) |-> buildHomePage(query, size, page).rows]
    IN /\ CasesFound(query) # {} => \A page \in DOMAIN shown : shown[page] # <<>>
       /\ \A c \in Cases :
            Cardinality({at \in (1..last) \X (1..size) :
                           at[2] \in DOMAIN shown[at[1]] /\ shown[at[1]][at[2]][1] = c})
              = (IF c \in CasesFound(query) THEN 1 ELSE 0)
       /\ \A page \in 1..last : \A id \in ToSet(shown[page]) : id = listCaseBoundaryFiles(id[1])[1]

\* A case at rest is searched, listed and, around other sites, drawn by a boundary no
\* older than any CBOS can give it, whenever that was imported - of those that have a
\* row to themselves, and by the date the pages have: a version saved later but stamped
\* with an earlier date is not the newest. What is shown may be newer still, where CBOS
\* has deleted it since.
NewestIsShown ==
  \A c \in Cases :
    LET named == distinctFileNames(FilesOf(c))
        stored == {f \in FilesOf(c) : f.good /\ Sharing(named, f) = {f}}
        Shows(id) == \A f \in stored : receivedDate(f) <= receivedDate(table[id].file)
    IN AtRest(c) /\ c \notin excused /\ stored # {}
       => /\ Shows(listCaseBoundaryFiles(c)[1])
          /\ \A id \in ToSet(searchCaseBoundaries(Titles, Cardinality(Cases), 0).rows) : id[1] = c => Shows(id)
          /\ \A site \in DOMAIN table : \A id \in findNearbyCases(site, {c}) \cup findOtherCases(site) :
                                             id[1] = c => Shows(id)

=============================================================================
