-------------------------------- MODULE MCCells --------------------------------
(***************************************************************************)
(* Instances of ReportCells for TLC: a fire authority whose code and name  *)
(* the source calls otherwise than a parish's, a hospital, a consultee of  *)
(* no group and a case with fields of its own; metadata that is nested,    *)
(* nested as text, a list, blank in part, no JSON or not there; and a file *)
(* that sets everything by tab and category, and one that exports all.     *)
(***************************************************************************)
EXTENDS ReportCells

MCHomeTab == <<"Administrative boundaries", "Public bodies", "Public bodies", NotSet, "NSIPs">>
Parish == 1
Fire == 2
Hospital == 3
Unplaced == 4
Nsip == 5

Number(word) == [kind |-> "number", of |-> <<word>>]
Object(entries) == [kind |-> "object", of |-> entries]
AsText(entries) == [kind |-> "objectAsText", of |-> entries]
List(items) == [kind |-> "list", of |-> items]
Key(key, value) == [name |-> <<key>>, value |-> value]
Under(attribute, heading) == [attribute |-> attribute, heading |-> <<heading>>]
Listed(pairs) == [which |-> "listed", pairs |-> pairs]
Whole(which) == [which |-> which, pairs |-> <<>>]

Source(name, category, metadata, nsip) ==
  [name |-> name, category |-> category, metadata |-> metadata, nsip |-> nsip]
MCRowSources ==
  {Source(1, Parish, Object(<<Key("CODE", Text(<<"E04">>)), Key("NAME", Text(<<"Abbey">>)),
                              Key("area", Object(<<Key("ha", Number("12")),
                                                     Key("survey", AsText(<<Key("year", Number("2024"))>>))>>))>>), <<>>),
   Source(2, Parish, Object(<<Key("CODE", Nothing), Key("NAME", Text(<<"Barton">>)),
                              Key("parts", List(<<Number("1"), Nothing, Object(<<Key("n", Number("2"))>>)>>))>>), <<>>),
   Source(1, Fire, Object(<<Key("NAME_W", Nothing), Key("NAME", Text(<<"Avon">>)), Key("ONS_CODE", Text(<<"E31">>))>>), <<>>),
   Source(3, Fire, Object(<<Key("NAME_W", Text(<<"Gwent">>)), Key("NAME", Text(<<"Gwent Fire">>))>>), <<>>),
   Source(2, Hospital, List(<<Number("1"), Object(<<Key("a", Text(<<"b">>))>>)>>), <<>>),
   Source(4, Unplaced, Nothing, <<>>),
   Source(1, Unplaced, [kind |-> "broken", of |-> <<"not json">>], <<>>),
   Source(3, Nsip, Object(<<Key("Query", Text(<<"stored">>)), Key("NAME", Text(<<"plan">>))>>),
          <<Key("Number", Text(<<"EN010001">>)), Key("Query", Text(<<"35km buffer">>))>>)}

CodeAndName == Listed(<<Under(<<"CODE">>, "Code"), Under(<<"NAME">>, "Official name")>>)
MCReportYaml ==
  {[defaults |-> [columns |-> <<"consultee", "category">>, metadata |-> CodeAndName],
    tabs |-> ("Public bodies" :>
                [columns |-> <<"consultee">>, metadata |-> Listed(<<Under(<<"Metadata">>, "Code")>>),
                 categories |-> Fire :> Listed(<<Under(<<"ONS_CODE">>, "Code"), Under(<<"NAME_W">>, "Official name"),
                                                 Under(<<"NAME">>, "Official name")>>)]
              @@ "NSIPs" :>
                [columns |-> <<>>, metadata |-> Listed(<<Under(<<"Number">>, "Number"), Under(<<"Query">>, "Query")>>),
                 categories |-> Nsip :> NotSet])],
   [defaults |-> [columns |-> <<"consultee">>, metadata |-> Whole("all")],
    tabs |-> "Public bodies" :>
                [columns |-> NotSet, metadata |-> NotSet,
                 categories |-> Fire :> Whole("none")
                                @@ Hospital :> NotSet]],
   [defaults |-> [columns |-> <<"consultee">>, metadata |-> CodeAndName],
    tabs |-> "Administrative boundaries" :>
                [columns |-> NotSet, categories |-> <<>>,
                 metadata |-> Listed(<<Under(<<"area", "survey", "year">>, "Surveyed"), Under(<<"parts">>, "Code")>>)]]}
=============================================================================
