---------------------------- MODULE MCIndexedTable ---------------------------
(* Small instances of IndexedTable. *)
EXTENDS IndexedTable, TLC

OwnSchemas == [n \in Names |-> n]
EqualSchemas == [n \in Names |-> "schema"]

\* Two INTEGER columns.  Python's True is an int, equals 1 and is stored as 1.
MCValuesOf == [qty |-> {"1", "True", "2"}, price |-> {"2", "True"}]
PythonEqual == [v \in Values |-> IF v = "True" THEN "1" ELSE v]
PageValue == [v \in Values |-> IF v = "True" THEN "1" ELSE v]

\* A bucket number means nothing but which values share it.
BucketSymmetry == Permutations(Buckets)
==============================================================================
