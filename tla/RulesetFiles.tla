----------------------------- MODULE RulesetFiles -----------------------------
(***************************************************************************)
(* How the app reads its rulesets when it starts: each is a sheet of a     *)
(* workbook, saved by Excel as a CSV file; rulesets.yaml says what the     *)
(* wordings in them mean (packages/database/src/geospatial/rulesets.ts),   *)
(* and report/reasons.ts what a page says of a condition that was met. A   *)
(* file the app cannot read stops it.                                      *)
(*                                                                         *)
(* A text is a sequence of tokens: words and what separates them. A file's *)
(* name (in lower case, less _ruleset.csv) is the sequence of its words,   *)
(* each the sequence of the parts a "-" joins.                             *)
(***************************************************************************)
EXTENDS Integers, Sequences, SequencesExt

CONSTANTS
  FileOrder,   \* the files there may be, in file-name order
  Sheets,      \* what each may hold: [header, rows, ends]
  Settings,    \* what rulesets.yaml may hold: [default, names, types, logic]
  LowerCase,   \* [tokens with capitals -> those without]
  Words,       \* the tokens of letters and digits
  NumberOf,    \* [tokens -> Int]: those that read as a number
  Absent,
  Throws       \* what a reading gives that fails

Comma == ","
Quote == "\""
Return == "CR"
Newline == "LF"
Blank == " "

VARIABLES
  dir,       \* the ruleset files there are: file -> sheet
  settings,  \* rulesets.yaml
  offered    \* the rulesets of the app that started with these; before it did, Absent; Throws if it stopped

fileVars == <<dir, settings, offered>>

-----------------------------------------------------------------------------
(* Texts. *)

Lower(text) == [i \in DOMAIN text |-> IF text[i] \in DOMAIN LowerCase THEN LowerCase[text[i]] ELSE text[i]]

trim(text) ==
  LET inked == {i \in DOMAIN text : text[i] # Blank}
  IN SelectSeq([i \in DOMAIN text |->
                  IF \E j, k \in inked : j <= i /\ i <= k THEN text[i] ELSE Absent],
               LAMBDA t : t # Absent)

SingleSpaced(text) ==
  SelectSeq([i \in DOMAIN text |-> IF text[i] = Blank /\ text[i - 1] = Blank THEN Absent ELSE text[i]],
            LAMBDA t : t # Absent)

\* Case aside, and however it is spaced.
normalise(text) == SingleSpaced(Lower(trim(text)))

\* Its words alone: what an id is made of.
slug(text) == SelectSeq(Lower(text), LAMBDA t : t \in Words)

-----------------------------------------------------------------------------
(* A CSV file. *)

\* Excel quotes a field that needs it and doubles the quotes in one; it may end
\* the last row with a line break.
SavedField(text) ==
  IF \A i \in DOMAIN text : text[i] \notin {Comma, Quote, Return, Newline} THEN text
  ELSE <<Quote>> \o FlattenSeq([i \in DOMAIN text |-> IF text[i] = Quote THEN <<Quote, Quote>> ELSE <<text[i]>>])
         \o <<Quote>>
SavedRow(cells) ==
  FlattenSeq([c \in DOMAIN cells |-> IF c = 1 THEN SavedField(cells[c]) ELSE <<Comma>> \o SavedField(cells[c])])
Saved(sheet) ==
  LET rows == <<sheet.header>> \o sheet.rows
  IN FlattenSeq([r \in DOMAIN rows |->
       SavedRow(rows[r]) \o IF r < Len(rows) \/ sheet.ends THEN <<Return, Newline>> ELSE <<>>])

\* The parser's state: the rows it has read, the row and field it is in, whether
\* that field is quoted, and whether the next token is half of one just read.
Opening == [rows |-> <<>>, row |-> <<>>, field |-> <<>>, quoted |-> FALSE, skip |-> FALSE]

PushField(s) == [s EXCEPT !.row = Append(@, s.field), !.field = <<>>]
PushRow(s) == [s EXCEPT !.rows = Append(@, PushField(s).row), !.row = <<>>, !.field = <<>>]

ReadPlain(s, token, following) ==
  CASE token = Quote -> [s EXCEPT !.quoted = TRUE]
    [] token = Comma -> PushField(s)
    [] token = Newline -> PushRow(s)
    [] token = Return -> [PushRow(s) EXCEPT !.skip = following = Newline]
    [] OTHER -> [s EXCEPT !.field = Append(@, token)]

ReadQuoted(s, token, following) ==
  CASE token = Quote /\ following = Quote -> [s EXCEPT !.field = Append(@, Quote), !.skip = TRUE]
    [] token = Quote /\ following # Quote -> [s EXCEPT !.quoted = FALSE]
    [] OTHER -> [s EXCEPT !.field = Append(@, token)]

ReadToken(s, token, following) ==
  IF s.skip THEN [s EXCEPT !.skip = FALSE]
  ELSE IF s.quoted THEN ReadQuoted(s, token, following) ELSE ReadPlain(s, token, following)

\* The last row, if no line break ends it, and those before it.
RowsRead(s) == IF s.field # <<>> \/ s.row # <<>> THEN PushRow(s).rows ELSE s.rows

\* Rows with nothing in them are left out.
parseCsv(text) ==
  LET Following(i) == IF i < Len(text) THEN text[i + 1] ELSE Absent
      Read == FoldLeft(LAMBDA s, i : ReadToken(s, text[i], Following(i)), Opening, [i \in DOMAIN text |-> i])
  IN SelectSeq(RowsRead(Read), LAMBDA cells : \E c \in DOMAIN cells : trim(cells[c]) # <<>>)
-----------------------------------------------------------------------------
(* The settings. *)

\* No wording twice, however it is cased or spaced, and each means something.
ByWording(entries, keys) ==
  IF entries = <<>> \/ ~IsInjective(keys) THEN Throws
  ELSE [k \in ToSet(keys) |-> entries[CHOOSE i \in DOMAIN entries : keys[i] = k]]
parseWordings(entries) == ByWording(entries, [i \in DOMAIN entries |-> normalise(entries[i].wording)])

SettingsOf(file, types, logic) ==
  IF types = Throws \/ logic = Throws \/ \E i \in DOMAIN file.types : file.types[i].categories = {} THEN Throws
  ELSE [default |-> file.default, names |-> file.names, types |-> types, logic |-> logic]
parseRulesetSettings(file) == SettingsOf(file, parseWordings(file.types), parseWordings(file.logic))

-----------------------------------------------------------------------------
(* A ruleset of a file's rows. *)

COLUMNS == {"category", "type", "logic", "buffer", "group", "hierarchy"}
ColumnWording(c) ==
  CASE c = "category" -> <<"category">>
    [] c = "type" -> <<"consultee", Blank, "type(s)">>
    [] c = "logic" -> <<"logic">>
    [] c = "buffer" -> <<"buffer", Blank, "(km)">>
    [] c = "group" -> <<"group">>
    [] c = "hierarchy" -> <<"group", Blank, "hierarchy">>

\* "B Host Authority": its letter, and whether it hosts the site or borders its host.
Authority(category) ==
  LET c == Lower(trim(category))
  IN IF /\ Len(c) = 5 /\ c[1] \in {"a", "b", "c", "d"} /\ c[2] = Blank
        /\ c[3] \in {"host", "bordering"} /\ c[4] = Blank /\ c[5] = "authority"
     THEN <<c[1], c[3]>> ELSE <<>>

conditionName(category, type) == <<Authority(category), type>>

\* What is read of a row: its type's and its logic's settings, and its buffer.
Type(row, set) == set.types[normalise(row["type"])]
Logic(row, set) == set.logic[normalise(row["logic"])].means
Buffer(row) ==
  IF row["buffer"] = <<>> THEN 0
  ELSE IF Len(row["buffer"]) = 1 /\ row["buffer"][1] \in DOMAIN NumberOf THEN NumberOf[row["buffer"][1]] ELSE -1

\* Of its letter and kind, its type's words and its buffer, however that is written.
ConditionId(row) ==
  Authority(row["category"]) \o slug(row["type"])
    \o IF Buffer(row) > 0 THEN <<CHOOSE t \in DOMAIN NumberOf : NumberOf[t] = Buffer(row), "km">> ELSE <<>>

Understood(row, set) ==
  /\ normalise(row["type"]) \in DOMAIN set.types /\ normalise(row["logic"]) \in DOMAIN set.logic
  /\ Buffer(row) >= 0
  /\ Buffer(row) > 0 => Logic(row, set) = "buffer"
  /\ Logic(row, set) = "bordering" => Type(row, set).host # Absent

Condition(row, set) ==
  [id |-> ConditionId(row), name |-> conditionName(row["category"], row["type"]),
   logicType |-> IF Logic(row, set) = "bordering" THEN "bordering" ELSE "intersection",
   categories |-> Type(row, set).categories,
   host |-> IF Logic(row, set) = "bordering" THEN Type(row, set).host ELSE Absent,
   buffer |-> IF Logic(row, set) = "bordering" THEN Absent ELSE Buffer(row)]

\* A row's cells by the columns the header names, wherever they are.
HeaderOf(parsed) == IF parsed = <<>> THEN <<>> ELSE [i \in DOMAIN parsed[1] |-> Lower(trim(parsed[1][i]))]
CellsUnder(columns, parsed) ==
  LET At(c) == CHOOSE i \in DOMAIN columns : columns[i] = ColumnWording(c) /\ \A j \in 1 .. i - 1 : columns[j] # columns[i]
      Cell(cells, i) == IF i <= Len(cells) THEN trim(cells[i]) ELSE <<>>
  IN IF \E c \in COLUMNS : ColumnWording(c) \notin ToSet(columns) THEN Throws
     ELSE [r \in 1 .. Len(parsed) - 1 |-> [c \in COLUMNS |-> Cell(parsed[r + 1], At(c))]]
Cells(parsed) == CellsUnder(HeaderOf(parsed), parsed)

\* Mutant: rows that would be one condition are kept.
ConditionsOfMutant(rows, set) ==
  IF rows = Throws \/ \E r \in DOMAIN rows : ~Understood(rows[r], set) THEN Throws
  ELSE [r \in DOMAIN rows |-> Condition(rows[r], set)]

ConditionsOf(rows, set) ==
  IF \/ rows = Throws
     \/ \E r \in DOMAIN rows : ~Understood(rows[r], set)
     \/ ~IsInjective([r \in DOMAIN rows |-> ConditionId(rows[r])])
  THEN Throws
  ELSE [r \in DOMAIN rows |-> Condition(rows[r], set)]
parseRulesetCsv(text, set) == ConditionsOf(Cells(parseCsv(text)), set)

-----------------------------------------------------------------------------
(* The rulesets of the app. *)

\* In an id "_" is as good as "-"; a name keeps the two apart.
rulesetIdFromFileName(file) == FlattenSeq(file)
rulesetNameFromFileName(file) == file

Named(file, set) == IF file \in DOMAIN set.names THEN set.names[file] ELSE rulesetNameFromFileName(file)

Ruleset(file, set) ==
  [id |-> rulesetIdFromFileName(file), name |-> Named(file, set), rules |-> parseRulesetCsv(Saved(dir[file]), set)]

\* The default's first, then the rest in file-name order.
DefaultFirst(rulesets, default) ==
  SelectSeq(rulesets, LAMBDA r : r.id = default) \o SelectSeq(rulesets, LAMBDA r : r.id # default)

\* What the app offers, if it starts: no two of a name.
Checked(rulesets, set) ==
  IF \/ rulesets = <<>>
     \/ ~({set.default} \cup DOMAIN set.names \subseteq DOMAIN dir)
     \/ \E i \in DOMAIN rulesets : rulesets[i].rules = Throws
     \/ ~IsInjective([i \in DOMAIN rulesets |-> rulesets[i].name])
  THEN Throws
  ELSE DefaultFirst(rulesets, rulesetIdFromFileName(set.default))
OfferedOf(files, set) == IF set = Throws THEN Throws ELSE Checked([i \in DOMAIN files |-> Ruleset(files[i], set)], set)
loadRulesets == OfferedOf(SelectSeq(FileOrder, LAMBDA f : f \in DOMAIN dir), parseRulesetSettings(settings))

FilesInit ==
  /\ dir \in UNION {[files -> Sheets] : files \in SUBSET ToSet(FileOrder)}
  /\ settings \in Settings
  /\ offered = Absent

StartApp ==
  /\ offered' = loadRulesets
  /\ UNCHANGED <<dir, settings>>

FilesNext == StartApp

\* The first of its id.
getRuleset(id) == offered[CHOOSE i \in DOMAIN offered : offered[i].id = id /\ \A j \in 1 .. i - 1 : offered[j].id # id]

\* What a page says of a consultee that met the condition: the first of its id.
describeReason(id, rules) ==
  LET met == {i \in DOMAIN rules : rules[i].id = id}
      rule == rules[CHOOSE i \in met : \A j \in met : i <= j]
  IN IF met = {} THEN <<id>>
     ELSE IF rule.logicType = "bordering" THEN <<rule.name>> ELSE <<rule.name, rule.buffer>>

-----------------------------------------------------------------------------
(* Properties. *)

\* What a row of a sheet says: its cells under the headings, as a person reads it.
Written(sheet, r) ==
  [c \in COLUMNS |->
     LET i == CHOOSE i \in DOMAIN sheet.header : Lower(trim(sheet.header[i])) = ColumnWording(c)
     IN trim(sheet.rows[r][i])]
Meaning(entries, text) == entries[CHOOSE i \in DOMAIN entries : normalise(entries[i].wording) = normalise(text)]

\* The condition screens as the row is written, and a page describes it as that row.
SaysSo(condition, row, rules) ==
  LET type == Meaning(settings.types, row["type"])
      means == Meaning(settings.logic, row["logic"]).means
  IN /\ condition.categories = type.categories
     /\ condition.logicType = "bordering" <=> means = "bordering"
     /\ means = "bordering" => condition.host = type.host
     /\ means = "buffer" => condition.buffer = Buffer(row)
     /\ means = "intersection" => condition.buffer = 0
     /\ describeReason(condition.id, rules) =
          <<conditionName(row["category"], row["type"])>>
            \o IF means = "bordering" THEN <<>> ELSE <<condition.buffer>>

\* "Saving another sheet of the rulesets workbook is all it takes for the app to
\* offer it": an app that has started offers every sheet, the default's first,
\* whatever the order of its columns and the commas, quotes and line breaks in
\* its cells, each of its rows a condition that screens as the row is written and
\* that a page describes as that row, never as another; and its link opens it.
\* Only a file whose name differs from an earlier one's in "-" and "_" alone is
\* offered and cannot be opened (loadRulesets, parseRulesetCsv, describeReason).
RulesetAsWritten ==
  offered \notin {Absent, Throws} =>
    /\ offered[1].id = rulesetIdFromFileName(settings.default)
    /\ \A f \in DOMAIN dir :
         \E i \in DOMAIN offered :
           LET rules == offered[i].rules
           IN /\ offered[i].id = rulesetIdFromFileName(f) /\ offered[i].name = Named(f, settings)
              /\ (\A g \in DOMAIN dir : rulesetIdFromFileName(g) = rulesetIdFromFileName(f) => g = f)
                   => getRuleset(rulesetIdFromFileName(f)) = offered[i]
              /\ Len(rules) = Len(dir[f].rows)
              /\ \A r \in DOMAIN rules : SaysSo(rules[r], Written(dir[f], r), rules)
=============================================================================
