------------------------------ MODULE MCHeapFile -----------------------------
(* Small instances of HeapFile. *)
EXTENDS HeapFile

\* Scans are interchangeable: they start closed and run the same code.
ScanSymmetry == Permutations(Scans)

\* The first pages are allocated in turn, after the header page.
OneFirstPage == [t \in Tables |-> 1]
TwoFirstPages == [t \in Tables |-> IF t = "orders" THEN 1 ELSE 2]

\* Every inserter on the same table.
SharedTable == [k \in Inserters |-> "orders"]

\* One inserter of "parts"; the others insert into "orders".
SplitTables == [k \in Inserters |-> IF k = "ip" THEN "parts" ELSE "orders"]
==============================================================================
