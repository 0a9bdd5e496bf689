------------------------------- MODULE Uploads -------------------------------
(***************************************************************************)
(* Files uploaded into a table of ClickHouse (handlers/query_upload.go):   *)
(* reading a file, the types inferred for its columns, the table created or *)
(* matched, and the rows inserted in batches.  A value is a token of the   *)
(* file; converted, it keeps its token while it still means the same:      *)
(* "007" becomes "7", a long decimal rounded, a moment with a zone UTC.    *)
(***************************************************************************)
EXTENDS Naturals, Sequences, FiniteSets, SequencesExt

CONSTANTS
    Clients,        \* administrators, each uploading one file
    BatchSize,      \* rows of one INSERT: 500 in the code
    None,
    Scenarios       \* bound: [files, ask, tries: by client, form, table, faults]

VARIABLES
    table,          \* the target in ClickHouse
    upload,         \* what each client's request has computed
    scenario

vars == <<table, upload, scenario>>

\* A column name is a word and the numbers appended to it; a blank one is <<>>.
Fold(name) == [name EXCEPT ![1] = IF @ = "A" THEN "a" ELSE @]
Valid(name) == name # <<>> /\ name[1] # "a.b"
Blank == "  "

\* Texts that strconv and time read as a value of a type, and those the insert reads.
ParseBool == {"t", "true", "1"}
ParseBoolUploadValue == {"true", "yes", "1"}
ParseInt == {"1", "7", "007"}
ParseFloat == ParseInt \cup {"1.5", "long", "NaN"}
IsDateTimeString == {"moment", "fraction", "zoned"}
ParseFlexibleTime == IsDateTimeString \cup {"day"}
\* Values of JSON and Parquet that are not texts.
Bools == {"#true"}
Whole == {"#7", "#2^53", "#2^53+1", "#2^64"}
Numbers == Whole \cup {"#1.5"}

\* What an upload changes without an error, and into what: blanks and spaces around a
\* text, zeros and signs before an integer, decimals and integers beyond a float64, an
\* integer beyond an int64, fractions of a second, and the zone of a moment.
Changed == {<<Blank, None>>, <<"padded", "words">>, <<"007", "7">>, <<"long", "rounded">>,
            <<"#2^53+1", "#2^53">>, <<"#2^64", "wrapped">>, <<"fraction", "moment">>,
            <<"zoned", "utc">>}

----------------------------------------------------------------------------
(* Reading the file. *)

\* Faulty: a repeated header keeps its name.
NormalizeCSVHeadersAsIs(header) ==
    [i \in DOMAIN header |->
        IF header[i] = <<>> THEN <<"column", i>> ELSE header[i]]

\* The counter is of the name before its suffix: a, a, a_2 become a, a_2, a_2.
NormalizeCSVHeaders(header) ==
    LET base == [i \in DOMAIN header |->
            IF header[i] = <<>> THEN <<"column", i>> ELSE header[i]]
        before(i) == Cardinality({j \in 1..(i - 1) : base[j] = base[i]}) IN
    [i \in DOMAIN header |->
        IF before(i) = 0 THEN base[i] ELSE Append(base[i], before(i) + 1)]

NormalizeUploadValue(v) ==
    IF v \in {Blank, None} THEN None ELSE IF v = "padded" THEN "words" ELSE v

\* A short record leaves its last columns empty; the last column of a name wins.
CSVRow(headers, record) ==
    [name \in ToSet(headers) |->
        LET cells == record.cells
             i == CHOOSE k \in DOMAIN headers :
                headers[k] = name /\ \A j \in DOMAIN headers : headers[j] = name => j <= k
        IN IF i > Len(cells) THEN None ELSE NormalizeUploadValue(cells[i])]

\* A row of a file: [cells |-> ...], [object |-> ...] or [value |-> ...].
IsObject(raw) == "object" \in DOMAIN raw

NormalizeRowFromAny(raw) ==
    IF IsObject(raw) THEN [name \in DOMAIN raw.object |-> NormalizeUploadValue(raw.object[name])]
    ELSE [name \in {<<"value">>} |-> NormalizeUploadValue(raw.value)]

\* A number of JSON is a float64, and a row of Parquet goes through JSON.
AsFloat(v) == IF v = "#2^53+1" THEN "#2^53" ELSE v
Unmarshalled(raw) ==
    IF IsObject(raw) THEN [object |-> [name \in DOMAIN raw.object |-> AsFloat(raw.object[name])]]
    ELSE [value |-> AsFloat(raw.value)]

ParseCSVDataset(file) ==
    LET headers == NormalizeCSVHeaders(file.header) IN
    [i \in DOMAIN file.rows |-> CSVRow(headers, file.rows[i])]
ParseJSONDataset(file) ==
    [i \in DOMAIN file.rows |-> NormalizeRowFromAny(Unmarshalled(file.rows[i]))]
ParseParquetDataset(file) ==
    [i \in DOMAIN file.rows |-> NormalizeRowFromAny(Unmarshalled(file.rows[i]))]

ParseUploadDataset(file) ==
    CASE file.format = "csv" -> ParseCSVDataset(file)
      [] file.format \in {"json", "jsonl"} -> ParseJSONDataset(file)
      [] file.format = "parquet" -> ParseParquetDataset(file)

\* Size, format and syntax.
Readable(file) ==
    /\ file.fits /\ file.wellFormed
    /\ file.format \in {"csv", "json", "jsonl", "parquet"}

----------------------------------------------------------------------------
(* The types of the columns. *)

\* Faulty: a number with a fraction leaves the column whole.
InferUploadColumnTypeLoose(values) ==
    LET vs == values \ {None} IN
    [nullable |-> None \in values \/ vs = {},
     base |-> CASE vs = {} -> "String"
                [] vs \subseteq ParseBool \cup Bools -> "Bool"
                [] vs \subseteq ParseInt \cup Numbers -> "Int64"
                [] OTHER -> "String"]

InferUploadColumnType(values) ==
    LET vs == values \ {None} IN
    [nullable |-> None \in values \/ vs = {},
     base |-> CASE vs = {} -> "String"
                [] vs \subseteq ParseBool \cup Bools -> "Bool"
                [] vs \subseteq ParseInt \cup Whole -> "Int64"
                [] vs \subseteq ParseFloat \cup Numbers -> "Float64"
                [] vs \subseteq IsDateTimeString -> "DateTime"
                [] vs \subseteq {"day"} -> "Date"
                [] OTHER -> "String"]

Cell(row, name) == IF name \in DOMAIN row THEN row[name] ELSE None

\* One column of each name; a row without it counts as empty.
InferUploadColumns(rows) ==
    LET names == UNION {DOMAIN rows[i] : i \in DOMAIN rows} \ {<<>>} IN
    SetToSeq({[name |-> n, type |-> InferUploadColumnType({Cell(rows[i], n) : i \in DOMAIN rows})] :
              n \in names})

----------------------------------------------------------------------------
(* The values of a row, as the type of their column wants them. *)

Refused == "refused"

CoerceBool(v) ==
    IF v \in ParseBoolUploadValue \cup Bools THEN v ELSE IF v \in Numbers THEN "#true" ELSE Refused
\* A float64 beyond int64 wraps.
CoerceInt(v) ==
    IF v = "#2^64" THEN "wrapped" ELSE IF v = "007" THEN "7"
    ELSE IF v \in ParseInt \cup Whole THEN v ELSE Refused
\* encoding/json has no NaN; what a float64 cannot hold is rounded.
CoerceFloat(v) ==
    IF v = "007" THEN "7" ELSE IF v = "long" THEN "rounded"
    ELSE IF v \in (ParseFloat \ {"NaN"}) \cup Numbers THEN AsFloat(v) ELSE Refused
\* In UTC, to the second.
CoerceTime(v, type) ==
    IF v \notin ParseFlexibleTime THEN Refused
    ELSE IF v = "zoned" THEN IF type = "Date" THEN "utc day" ELSE "utc"
    ELSE IF type = "Date" THEN "day"
    ELSE IF v = "fraction" THEN "moment" ELSE v

CoerceUploadValueForType(v, type) ==
    IF v = None THEN None
    ELSE CASE type = "Bool" -> CoerceBool(v)
           [] type = "Int64" -> CoerceInt(v)
           [] type = "Float64" -> CoerceFloat(v)
           [] type \in {"DateTime", "Date"} -> CoerceTime(v, type)
           [] OTHER -> NormalizeUploadValue(v)

\* The row is looked up by the name the table gives the column.
Line(row, columns) ==
    [name \in {columns[i].name : i \in DOMAIN columns} |->
        LET c == columns[CHOOSE i \in DOMAIN columns :
                columns[i].name = name /\ \A j \in 1..(i - 1) : columns[j].name # name]
        IN CoerceUploadValueForType(Cell(row, name), c.type.base)]

HasData(line) == \E name \in DOMAIN line : line[name] # None

----------------------------------------------------------------------------
(* ClickHouse. *)

Names(columns) == {columns[i].name : i \in DOMAIN columns}

\* CREATE TABLE [IF NOT EXISTS]: refused for a column named twice.
Created(t, columns) ==
    IF t.there THEN t
    ELSE [t EXCEPT !.there = TRUE, !.columns = ToSet(columns)]
CanCreate(t, columns, ifNotExists) ==
    /\ t.there => ifNotExists
    /\ Cardinality(Names(columns)) = Len(columns)

\* An INSERT names columns of the table.
CanInsert(t, columns) == t.there /\ Names(columns) \subseteq {c.name : c \in t.columns}

----------------------------------------------------------------------------
(* What the proofs assume of a scenario. *)

IsASeq(s) == s \in Seq(ToSet(s))

\* A row of a CSV file is a sequence of cells, one of JSON or Parquet an object or a value;
\* Refused is no value.
RowOK(file, raw) ==
    IF file.format = "csv" THEN IsASeq(raw.cells) /\ Refused \notin ToSet(raw.cells)
    ELSE IF IsObject(raw)
    THEN /\ IsFiniteSet(DOMAIN raw.object)
         /\ \A name \in DOMAIN raw.object : raw.object[name] # Refused
    ELSE raw.value # Refused

FileOK(file) ==
    /\ IsASeq(file.header) /\ \A j \in DOMAIN file.header : IsASeq(file.header[j])
    /\ IsASeq(file.rows) /\ \A i \in DOMAIN file.rows : RowOK(file, file.rows[i])

\* A table has one column of a name.
Unique(columns) == \A s, t \in columns : s.name = t.name => s = t

UploadAssumption ==
    /\ BatchSize \in Nat \ {0}
    /\ None \notin {Refused, Blank, "padded", "words", "7", "007", "long", "rounded", "fraction",
                    "moment", "zoned", "utc", "utc day", "day", "#true", "#2^53", "#2^53+1",
                    "#2^64", "wrapped"}
    /\ \A s \in Scenarios :
          /\ \A c \in Clients : FileOK(s.files[c])
          /\ IsASeq(s.form)
          /\ DOMAIN s.table = {"there", "columns", "batches"}
          /\ s.table.batches = <<>> /\ Unique(s.table.columns)

----------------------------------------------------------------------------
(* A request. *)

New == [at |-> "idle", form |-> <<>>, rows |-> <<>>, columns |-> <<>>, inferred |-> FALSE,
        start |-> 0, inserted |-> 0, try |-> 0, last |-> None]

Init ==
    /\ scenario \in Scenarios
    /\ table = scenario.table
    /\ upload = [c \in Clients |-> [New EXCEPT !.form = scenario.form]]

\* The columns of the form are checked like those of a CREATE TABLE.
ParseUploadColumnsForm(form) == \A i \in DOMAIN form : Valid(form[i].name)

Rows(c) == ParseUploadDataset(scenario.files[c])
Answer(c, what) == upload' = [upload EXCEPT ![c].at = what]

\* The types shown to the client, who sends them with the file.
DiscoverUploadSchema(c) ==
    /\ upload[c].at = "idle" /\ upload[c].form = <<>>
    /\ Readable(scenario.files[c]) /\ Rows(c) # <<>>
    /\ upload' = [upload EXCEPT ![c].form = InferUploadColumns(Rows(c)), ![c].inferred = TRUE]
    /\ UNCHANGED <<table, scenario>>

\* A client may upload again after an error.
IngestUpload(c) ==
    /\ upload[c].at \in {"idle", "failed"} /\ upload[c].try < scenario.tries[c]
    /\ LET u == [upload[c] EXCEPT !.try = @ + 1, !.start = 0, !.inserted = 0, !.last = None]
           columns == IF u.form # <<>> THEN u.form ELSE InferUploadColumns(Rows(c)) IN
       upload' = [upload EXCEPT ![c] =
           IF /\ Readable(scenario.files[c])
              /\ Rows(c) # <<>>
              /\ ParseUploadColumnsForm(u.form)
           THEN [u EXCEPT !.at = IF scenario.ask[c].create THEN "create" ELSE "describe",
                          !.rows = Rows(c), !.columns = columns,
                          !.inferred = @ \/ u.form = <<>>]
           ELSE [u EXCEPT !.at = "failed"]]
    /\ UNCHANGED <<table, scenario>>

\* The table keeps the columns it has, the request those of its file.
BuildCreateTableSQL(c) ==
    /\ upload[c].at = "create"
    /\ LET ifNotExists == scenario.ask[c].ifNotExists
           columns == upload[c].columns IN
       \/ /\ ParseUploadColumnsForm(columns) /\ CanCreate(table, columns, ifNotExists)
          /\ table' = Created(table, columns) /\ Answer(c, "insert")
       \/ /\ ~(ParseUploadColumnsForm(columns) /\ CanCreate(table, columns, ifNotExists))
          /\ Answer(c, "failed") /\ UNCHANGED table
       \* Created, and the answer lost.
       \/ /\ scenario.faults
          /\ ParseUploadColumnsForm(columns) /\ CanCreate(table, columns, ifNotExists)
          /\ table' = Created(table, columns) /\ Answer(c, "failed")
    /\ UNCHANGED scenario

\* The column of the table for a column of the file: of its name, or else of its letters.
Matches(name) ==
    LET exact == {t \in table.columns : t.name = name} IN
    IF name = <<>> THEN {} ELSE IF exact # {} THEN exact
    ELSE {t \in table.columns : Fold(t.name) = Fold(name)}

\* A column of the table is taken once; a column of the file without one is left out.
ResolveInsertColumns(columns) ==
    SetToSeq({CHOOSE t \in Matches(columns[i].name) : TRUE :
              i \in {k \in DOMAIN columns : Matches(columns[k].name) # {}}})

DescribeTable(c) ==
    /\ upload[c].at = "describe"
    /\ IF ~table.there THEN Answer(c, "failed")
       ELSE LET columns == ResolveInsertColumns(upload[c].columns) IN
            IF columns = <<>> THEN Answer(c, "failed")
            ELSE upload' = [upload EXCEPT ![c].at = "insert", ![c].columns = columns]
    /\ UNCHANGED <<table, scenario>>

\* The rows of the next INSERT and what it writes of them; a row of nothing is left out.
Batch(u) ==
    {i \in DOMAIN u.rows : u.start < i /\ i <= u.start + BatchSize}
LineOf(u, i) == Line(u.rows[i], u.columns)
RefusedIn(u) ==
    UNION {{Cell(u.rows[i], n) : n \in {m \in Names(u.columns) : LineOf(u, i)[m] = Refused}} :
           i \in Batch(u)}
Written(u) == {i \in Batch(u) : HasData(LineOf(u, i))}

Inserted(c, u) ==
    [table EXCEPT !.batches = Append(@,
        [by |-> c, try |-> u.try, lines |-> [i \in Written(u) |-> LineOf(u, i)]])]

\* Faulty: the rows are counted before the INSERT answers.
AdvancedEarly(u) == [u EXCEPT !.start = @ + BatchSize, !.inserted = @ + Cardinality(Batch(u))]

Advanced(u) == [u EXCEPT !.start = @ + BatchSize, !.inserted = @ + Cardinality(Written(u))]

\* A value the type refuses ends the request; the batches before it stay.
RefuseBatch(c) ==
    /\ upload[c].at = "insert" /\ RefusedIn(upload[c]) # {}
    /\ upload' = [upload EXCEPT ![c].at = "failed", ![c].last = RefusedIn(upload[c])]
    /\ UNCHANGED <<table, scenario>>

InsertBatch(c) ==
    LET u == upload[c] IN
    /\ u.at = "insert" /\ Batch(u) # {} /\ RefusedIn(u) = {}
    /\ IF Written(u) = {} \/ CanInsert(table, u.columns)
       THEN /\ upload' = [upload EXCEPT ![c] = Advanced(u)]
            /\ table' = IF Written(u) = {} THEN table ELSE Inserted(c, u)
       ELSE Answer(c, "failed") /\ UNCHANGED table
    /\ UNCHANGED scenario

\* The INSERT fails, or its answer is lost after 90 s.
InsertFails(c) ==
    LET u == upload[c] IN
    /\ scenario.faults
    /\ u.at = "insert" /\ RefusedIn(u) = {} /\ Written(u) # {}
    /\ table' \in {table} \cup IF CanInsert(table, u.columns) THEN {Inserted(c, u)} ELSE {}
    /\ Answer(c, "failed")
    /\ UNCHANGED scenario

\* All batches are in: the request is audited and answered.
Succeeds(c) ==
    /\ upload[c].at = "insert" /\ Batch(upload[c]) = {}
    /\ Answer(c, "done")
    /\ UNCHANGED <<table, scenario>>

Next == \E c \in Clients :
    \/ DiscoverUploadSchema(c) \/ IngestUpload(c)
    \/ BuildCreateTableSQL(c) \/ DescribeTable(c)
    \/ RefuseBatch(c) \/ InsertBatch(c) \/ InsertFails(c) \/ Succeeds(c)

Spec == Init /\ [][Next]_vars

----------------------------------------------------------------------------
(* Properties. *)

\* The batches of the request, and the rows it has counted.
Mine(c) == {k \in DOMAIN table.batches :
               table.batches[k].by = c /\ table.batches[k].try = upload[c].try}
Sent(c) == {i \in 1..upload[c].start : i \in DOMAIN upload[c].rows /\ HasData(LineOf(upload[c], i))}

\* The rows of a request are in the table in the order of the file and once, a batch
\* whole or not at all; the count it reports leaves out at most the last batch
\* (insertJSONEachRowBatches).
BatchesWhole == \A c \in Clients :
    LET u == upload[c]
        rows(k) == DOMAIN table.batches[k].lines IN
    u.at \in {"insert", "done", "failed"} /\ u.rows # <<>> =>
        /\ \A j, k \in Mine(c) : j < k => \A x \in rows(j), y \in rows(k) : x < y
        /\ UNION {rows(k) : k \in Mine(c)} \in {Sent(c)} \cup
               IF u.at = "failed" THEN {Sent(c) \cup Written(u)} ELSE {}
        /\ u.inserted = Cardinality(Sent(c))

Text == [base |-> "String", nullable |-> FALSE]

\* No header is repeated as what another one becomes: a_2 after two a, or column where
\* another is blank.
HeaderOK(header) ==
    /\ \A j \in DOMAIN header : Len(header[j]) <= 1
    /\ ~ {<<>>, <<"column">>} \subseteq ToSet(header)

\* A cell that an upload inserted has the value the file gave it, whatever type was
\* inferred for its column, or else the one that Changed names for it.  Of columns that
\* come out with one name the last is kept.
HeaderOf(file, j) == NormalizeCSVHeaders(file.header)[j]
LastOfName(file, j) ==
    \A k \in DOMAIN file.header : HeaderOf(file, k) = HeaderOf(file, j) => k <= j
CellsKept == \A k \in DOMAIN table.batches :
    LET b == table.batches[k]
        file == scenario.files[b.by]
        kept(line, name, v) ==
            /\ name \in DOMAIN line /\ upload[b.by].inferred
            /\ scenario.ask[b.by].create \/ [name |-> name, type |-> Text] \in table.columns
            => line[name] = v \/ <<v, line[name]>> \in Changed IN
    \A i \in DOMAIN b.lines :
        LET raw == file.rows[i] IN
        IF file.format = "csv"
        THEN \A j \in DOMAIN raw.cells \cap DOMAIN file.header :
                HeaderOK(file.header) \/ LastOfName(file, j) =>
                    kept(b.lines[i], HeaderOf(file, j), raw.cells[j])
        ELSE IsObject(raw) =>
                \A name \in DOMAIN raw.object : kept(b.lines[i], name, raw.object[name])

\* A type inferred from a file refuses none of its values, but for t and f, which are
\* booleans to the inference and not to the insert, and NaN.
TypesFit == \A c \in Clients :
    LET u == upload[c] IN
    u.inferred /\ u.last # None /\ scenario.ask[c].create => u.last \subseteq {"t", "NaN"}

\* A column not inferred as Nullable never receives a null.
NullsDeclared == \A k \in DOMAIN table.batches :
    LET b == table.batches[k] IN
    upload[b.by].inferred /\ scenario.ask[b.by].create =>
        \A i \in DOMAIN b.lines, j \in DOMAIN upload[b.by].columns :
            LET col == upload[b.by].columns[j] IN
            b.lines[i][col.name] = None => col.type.nullable

UploadInv == BatchesWhole /\ CellsKept /\ TypesFit /\ NullsDeclared
=============================================================================
