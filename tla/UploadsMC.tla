------------------------------ MODULE UploadsMC ------------------------------
(* The instances of Uploads: every short column of values, and two clients at one table. *)
EXTENDS Uploads

CONSTANTS c1, c2

File(format, header, rows) ==
    [format |-> format, fits |-> TRUE, wellFormed |-> TRUE, header |-> header, rows |-> rows]
NoFile == [File("csv", <<>>, <<>>) EXCEPT !.fits = FALSE]
Object(row) == [object |-> row]
Cells(row) == [cells |-> row]
Create == [create |-> TRUE, ifNotExists |-> TRUE]
Describe == [create |-> FALSE, ifNotExists |-> TRUE]
Absent == [there |-> FALSE, columns |-> {}, batches |-> <<>>]
Table(columns) == [Absent EXCEPT !.there = TRUE, !.columns = columns]
Col(name, base) == [name |-> name, type |-> [base |-> base, nullable |-> FALSE]]
A == <<"a">>

Scenario(f1, f2, ask1, ask2, form, t, tries1, tries2, faults) ==
    [files |-> c1 :> f1 @@ c2 :> f2, ask |-> c1 :> ask1 @@ c2 :> ask2,
     tries |-> c1 :> tries1 @@ c2 :> tries2, form |-> form, table |-> t, faults |-> faults]
Alone(file, ask, form, t) == Scenario(file, NoFile, ask, Create, form, t, 1, 0, FALSE)

Texts == {"t", "true", "yes", "1", "7", "007", "1.5", "long", "NaN", "day", "moment", "fraction",
          "zoned", "words", "padded", Blank}
Values == {"t", "7", "1.5", "zoned", "#true", "#7", "#1.5", "#2^53+1", "#2^64", None}
Columns == {Alone(File("csv", <<A>>, [i \in 1..3 |-> Cells(<<col[i]>>)]), Create, <<>>, Absent) :
              col \in [1..3 -> Texts]} \cup
           {Alone(File(f, <<>>, [i \in 1..3 |-> IF i = 2 /\ col[2] = None
                                    THEN Object(<<"b">> :> "words") ELSE Object(A :> col[i])]),
                  Create, <<>>, Absent) :
              f \in {"json", "parquet"}, col \in [1..3 -> Values]}

Wide == File("csv", <<A, A, <<>>>>, <<Cells(<<"7", "words", "day">>), Cells(<<"1">>), Cells(<<Blank, Blank>>)>>)
Cased == File("jsonl", <<>>, <<Object(<<"A">> :> "7" @@ <<"b">> :> "true"),
                               [value |-> "7"], Object(<<"b">> :> "words")>>)
Again == File("csv", <<<<"column">>, <<>>, <<"column">>>>, <<Cells(<<"7", "words", "day">>)>>)
Dotted == File("csv", <<<<"a.b">>, A>>, <<Cells(<<"7", "1">>)>>)
Bad == [Wide EXCEPT !.wellFormed = FALSE]

TheScenarios == Columns \cup
    {Scenario(Wide, Cased, Create, Create, <<>>, Absent, 2, 1, TRUE),
     Scenario(Wide, Cased, Create, Describe, <<>>, Table({Col(A, "String"), Col(<<"b">>, "Bool")}), 1, 2, TRUE),
     Scenario(Cased, Dotted, Describe, Describe, <<>>, Table({Col(A, "Int64"), Col(<<"b">>, "String")}), 2, 1, TRUE),
     Alone(Wide, Create, <<Col(A, "Int64"), Col(<<"a", 2>>, "DateTime")>>, Absent),
     Alone(Wide, Create, <<Col(A, "Int64"), Col(A, "Int64")>>, Absent),
     Alone(Wide, [Create EXCEPT !.ifNotExists = FALSE], <<>>, Table({Col(A, "String")})),
     Alone(Again, Create, <<>>, Absent),
     Alone(Dotted, Create, <<>>, Absent),
     Alone(Bad, Create, <<>>, Absent)}
=============================================================================
