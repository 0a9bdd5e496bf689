--------------------------- MODULE PollingSourcesMC ---------------------------
(* Small instances of PollingSources. *)
EXTENDS PollingSources

CONSTANTS k1, k2

Rows(ids, kind) == [i \in DOMAIN ids |-> [id |-> ids[i], kind |-> kind]]
Change1(key, rows) == <<[key |-> key, rows |-> rows]>>
Bad == <<[id |-> 9, kind |-> "bad"]>>
End == <<[id |-> 9, kind |-> "end"]>>

\* Three rows, one that cannot be read, and one inserted later.
Table == [type |-> "database", query |-> "plain", column |-> TRUE, lenient |-> TRUE,
          foreign |-> "query" :> (Rows(<<1, 2>>, "good") \o Bad \o Rows(<<3>>, "good")),
          changes |-> Change1("query", Rows(<<4>>, "good")), polls |-> 2, runs |-> 2, faults |-> 1]

\* Two objects: full batches, and a line that is too long after one that is not.
Bucket == [Table EXCEPT !.type = "s3",
              !.foreign = k1 :> (Rows(<<1>>, "good") \o Bad \o Rows(<<2>>, "good")),
              !.changes = Change1(k2, Rows(<<3>>, "good") \o End)]

TheScenarios ==
    { Table,
      [Table EXCEPT !.lenient = FALSE],
      [Table EXCEPT !.query = "placeholder"],
      [Bucket EXCEPT !.polls = 3, !.runs = 1],
      [Bucket EXCEPT !.foreign = k1 :> Rows(<<1>>, "good") @@ k2 :> End, !.changes = <<>>],
      [Bucket EXCEPT !.changes = Change1(k1, Rows(<<3>>, "good")), !.faults = 2] }
=============================================================================
