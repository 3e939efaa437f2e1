-------------------------------- MODULE MCRules --------------------------------
(***************************************************************************)
(* An instance of RulesetFiles for TLC: sheets of up to two rows, of rows  *)
(* the app reads and rows it refuses, with commas, quotes and a line break *)
(* in their cells, their columns in either order; three files, two of them *)
(* alike but for a "-"; and settings that name a default that is there, or *)
(* not, the same name twice, and one wording twice.                        *)
(***************************************************************************)
EXTENDS RulesetFiles, TLC

\* a_b, a-b and c.
MCFileOrder == <<<<<<"a">>, <<"b">>>>, <<<<"a", "b">>>>, <<<<"c">>>>>>

Nowhere == <<>>
Host == <<"B", Blank, "Host", Blank, "Authority">>
Neighbour == <<"B", Blank, "bordering", Blank, "authority">>
Hospitals == <<"Hospitals", Comma, Blank, "all">>
Respaced == <<Blank, "hospitals", Comma, Blank, Blank, "all">>
Parishes == <<"Parish", Blank, Quote, "A", Quote>>
Within == <<"Within", Newline, "buffer">>
Intersects == <<"Intersects">>
Borders == <<"Borders">>
Km(n) == <<n>>

Header == <<<<"Group", Blank, "hierarchy">>, <<"Group">>, <<"Category">>,
            <<"Consultee", Blank, "Type(s)">>, <<"Logic">>, <<"Buffer", Blank, "(km)">>>>
Row(category, type, logic, buffer) == <<<<"1">>, <<"Public">>, category, type, logic, buffer>>
Sheet(header, rows, ends) == [header |-> header, rows |-> rows, ends |-> ends]

Rows == {Row(Nowhere, Hospitals, Within, Km("5")), Row(Nowhere, Respaced, Within, Km("5.0")),
         Row(Nowhere, Hospitals, Within, <<>>), Row(Host, Parishes, Intersects, Km("0")),
         Row(Neighbour, Parishes, Borders, <<>>), Row(Nowhere, Parishes, Intersects, Km("5")),
         Row(Nowhere, Hospitals, Borders, <<>>), Row(Nowhere, Hospitals, Intersects, Km("x")),
         Row(Nowhere, Hospitals, <<>>, <<>>)}
Plain == {Sheet(Header, <<Row(Nowhere, Parishes, Intersects, <<>>)>>, TRUE), Sheet(Header, <<>>, TRUE)}
Turned == Sheet(Reverse(Header), <<Reverse(Row(Nowhere, Hospitals, Within, Km("5"))),
                                   Reverse(Row(Host, Parishes, Intersects, <<>>))>>, FALSE)
MCSheets ==
  Plain \cup {Sheet(Header, <<r>>, TRUE) : r \in Rows} \cup {Sheet(Header, <<r, q>>, FALSE) : r, q \in Rows}
    \cup {Turned, Sheet(Tail(Header), <<>>, TRUE)}

Types == <<[wording |-> Hospitals, categories |-> {"Hospital"}, host |-> Absent],
           [wording |-> Parishes, categories |-> {"Parish", "Park"}, host |-> "Parish"]>>
Logics == <<[wording |-> Within, means |-> "buffer"], [wording |-> Intersects, means |-> "intersection"],
            [wording |-> Borders, means |-> "bordering"]>>
Setting(default, names, types) == [default |-> default, names |-> names, types |-> types, logic |-> Logics]
MCSettings ==
  {Setting(MCFileOrder[1], <<>>, Types), Setting(MCFileOrder[3], <<>>, Types),
   Setting(MCFileOrder[3], MCFileOrder[2] :> <<<<"c">>>>, Types),
   Setting(MCFileOrder[3], <<>>, Append(Types, [wording |-> Respaced, categories |-> {"Clinic"}, host |-> Absent]))}

MCLowerCase ==
  "Hospitals" :> "hospitals" @@ "Parish" :> "parish" @@ "Intersects" :> "intersects" @@ "Borders" :> "borders"
    @@ "Within" :> "within" @@ "A" :> "a" @@ "B" :> "b" @@ "Host" :> "host" @@ "Authority" :> "authority"
    @@ "Group" :> "group" @@ "Category" :> "category" @@ "Consultee" :> "consultee"
    @@ "Type(s)" :> "type(s)" @@ "Logic" :> "logic" @@ "Buffer" :> "buffer"
MCWords == {"hospitals", "all", "parish", "a", "b"}
MCNumberOf == "5" :> 5 @@ "5.0" :> 5 @@ "0" :> 0

\* Bound: the third file alone has the sheets that differ.
PlainButOne ==
  \A f \in DOMAIN dir : (f = MCFileOrder[3] /\ DOMAIN dir = {f}) \/ dir[f] \in Plain
=============================================================================
