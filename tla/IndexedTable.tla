----------------------------- MODULE IndexedTable ----------------------------
(***************************************************************************)
(* Hash indexes beside the heap files they index: HashIndex, the index     *)
(* part of Catalog, create_hash_index and the insert callback of           *)
(* DatabaseManager.  A heap file is what module RowTable promises, the     *)
(* sequence of its rows, each with the values of its indexed columns.      *)
(***************************************************************************)
EXTENDS Integers, SequencesExt

CONSTANTS
  Names, Schemas, SchemaOf,   \* tables and their schemas, as in Database
  ValuesOf,    \* [column -> Python values of its rows and of the keys asked for]
  Same,        \* [Values -> anything], equal where Python's == says True
  ReadBack,    \* [Values -> Values], what the page gives back for a value
  Buckets,     \* bucket numbers
  MaxRows,     \* bound on the rows ever inserted
  ShortScans   \* TRUE when has_next may say FALSE too early (see HeapFile)

Columns == DOMAIN ValuesOf
Values == UNION Range(ValuesOf)

ASSUME IndexAssumption ==
  /\ SchemaOf \in [Names -> Schemas]
  /\ ReadBack \in [Values -> Values]
  /\ \A v \in Values : Same[v] = Same[ReadBack[v]]
  /\ Buckets # {}
  /\ MaxRows \in Nat /\ ShortScans \in BOOLEAN

VARIABLES
  catalog,    \* the names in Catalog.schemas, oldest first
  heap,       \* [Names -> rows of the heap file of that relation name]
  index,      \* [Names -> [Columns -> the registered HashIndex, or NoIndex]]
  missed,     \* history: [Names -> [Columns -> the rows a short scan left out]]
  thread,     \* the insert whose callback has not run yet, or Idle
  bucketOf,   \* _bucket_for_key: some function of type and str of a value
  lastRow     \* number of the last row inserted

vars == <<catalog, heap, index, missed, thread, bucketOf, lastRow>>

IndexRow == [row : 1..MaxRows, value : [Columns -> Values]]
NoIndex == [b \in {} |-> <<>>]
EmptyIndex == [b \in Buckets |-> <<>>]
NoIndexes == [n \in Names |-> [c \in Columns |-> NoIndex]]
NoneMissed == [n \in Names |-> [c \in Columns |-> {}]]
Idle == [step |-> "idle"]

TypeOK ==
  /\ catalog \in Seq(Names) /\ IsInjective(catalog)
  /\ heap \in [Names -> Seq(IndexRow)]
  /\ index \in [Names -> [Columns -> {NoIndex} \cup [Buckets -> Seq(IndexRow)]]]
  /\ missed \in [Names -> [Columns -> SUBSET (1..MaxRows)]]
  /\ thread \in {Idle} \cup [step : {"callback"}, name : Names, record : IndexRow]
  /\ bucketOf \in [Values -> Buckets]
  /\ lastRow \in 0..MaxRows

Init ==
  /\ catalog = <<>>
  /\ heap = [n \in Names |-> <<>>]
  /\ index = NoIndexes /\ missed = NoneMissed
  /\ thread = Idle
  /\ bucketOf \in [Values -> Buckets]
  /\ lastRow = 0

------------------------------------------------------------------------------
(* HashIndex *)

\* insert: append to the bucket of the tuple's key.
IndexInsert(ix, c, record) ==
  [ix EXCEPT ![bucketOf[record.value[c]]] = Append(@, record)]

\* Mutant: the key is not compared with the tuples of its bucket.
LookupBucket(ix, c, key) == DOMAIN ix[bucketOf[key]]

\* lookup: it returns the tuples that equal the key, in the order they have in
\* the key's bucket.  These are their positions in it.
Lookup(ix, c, key) ==
  LET bucket == ix[bucketOf[key]]
  IN  {i \in DOMAIN bucket : Same[bucket[i].value[c]] = Same[key]}

\* The rows of a table as its pages give them back.
PageRow(record) ==
  [record EXCEPT !.value = [c \in Columns |-> ReadBack[record.value[c]]]]
ScanRows(n) == [i \in DOMAIN heap[n] |-> PageRow(heap[n][i])]

\* build_from_table over the rows an iterator returned.
IndexOf(rows, c) ==
  LET built[k \in 0..Len(rows)] ==
        IF k = 0 THEN EmptyIndex ELSE IndexInsert(built[k - 1], c, rows[k])
  IN  built[Len(rows)]

------------------------------------------------------------------------------
(* Catalog and DatabaseManager *)

\* Mutant: the name is not looked up first.
AddSchemaTwice(n) ==
  /\ thread = Idle
  /\ catalog' = Append(catalog, n)
  /\ UNCHANGED <<heap, index, missed, thread, bucketOf, lastRow>>

AddSchema(n) ==
  /\ thread = Idle
  /\ \A i \in DOMAIN catalog : catalog[i] # n
  /\ catalog' = Append(catalog, n)
  /\ UNCHANGED <<heap, index, missed, thread, bucketOf, lastRow>>

Registered(n) == \E i \in DOMAIN catalog : catalog[i] = n

\* The heap file that get_heap_file(n) opens.
NameOfSchema(n) == catalog[Min({i \in DOMAIN catalog : SchemaOf[catalog[i]] = SchemaOf[n]})]

\* create_hash_index: scan the table, then register; a second index on the
\* column takes the place of the first.
CreateHashIndex(n, c) ==
  /\ thread = Idle /\ Registered(n)
  /\ LET rows == ScanRows(NameOfSchema(n)) IN
     \E k \in 0..Len(rows) :
       /\ ShortScans \/ k = Len(rows)
       /\ index' = [index EXCEPT ![n][c] = IndexOf(SubSeq(rows, 1, k), c)]
       /\ missed' = [missed EXCEPT ![n][c] = {rows[i].row : i \in (k + 1)..Len(rows)}]
  /\ UNCHANGED <<catalog, heap, thread, bucketOf, lastRow>>

\* insert into get_heap_file(n): the row is in the heap file ...
InsertStores(n, v) ==
  /\ thread = Idle /\ Registered(n)
  /\ lastRow < MaxRows
  /\ LET record == [row |-> lastRow + 1, value |-> v] IN
       /\ heap' = [heap EXCEPT ![NameOfSchema(n)] = Append(@, record)]
       /\ thread' = [step |-> "callback", name |-> NameOfSchema(n), record |-> record]
  /\ lastRow' = lastRow + 1
  /\ UNCHANGED <<catalog, index, missed, bucketOf>>

\* ... and then _update_indexes_for_insert under the relation's name.
InsertCallback ==
  /\ thread.step = "callback"
  /\ index' = [index EXCEPT ![thread.name] =
                 [c \in Columns |->
                    IF @[c] = NoIndex THEN NoIndex ELSE IndexInsert(@[c], c, thread.record)]]
  /\ thread' = Idle
  /\ UNCHANGED <<catalog, heap, missed, bucketOf, lastRow>>

\* A new DatabaseManager: heap files are on disk, schemas and indexes are not.
Restart ==
  /\ thread = Idle
  /\ catalog' = <<>>
  /\ index' = NoIndexes /\ missed' = NoneMissed
  /\ UNCHANGED <<heap, thread, bucketOf, lastRow>>

Next ==
  \/ \E n \in Names :
       \/ AddSchema(n)
       \/ \E c \in Columns : CreateHashIndex(n, c)
       \/ \E v \in [Columns -> Values] :
            (\A c \in Columns : v[c] \in ValuesOf[c]) /\ InsertStores(n, v)
  \/ InsertCallback
  \/ Restart

Spec == Init /\ [][Next]_vars

------------------------------------------------------------------------------
(* Safety *)

\* Equal as Python's tuples, and the same row of the table.
SameRow(r, s) == r.row = s.row /\ \A c \in Columns : Same[r.value[c]] = Same[s.value[c]]

\* For every key asked for, whenever no insert is under way, and however the
\* index was built, replaced and kept up to date, an index scan returns rows that
\* a filter over the heap file returns, in its order and each once.  It returns
\* all of them but those that the scan that built the index did not come to and
\* those that equal the key and are written in another way (1 and True, 0.0 and
\* -0.0), whose bucket may be another.
Matching(rows, c, key) == {i \in DOMAIN rows : Same[rows[i].value[c]] = Same[key]}
WrittenAs(rows, c, key) == {i \in DOMAIN rows : rows[i].value[c] = key /\ ReadBack[key] = key}
LookupAgrees(n, c, key) ==
  LET found == Lookup(index[n][c], c, key)
      bucket == index[n][c][bucketOf[key]]
      rows == ScanRows(NameOfSchema(n))
      stored == heap[NameOfSchema(n)]
  IN  \E at \in [found -> Matching(rows, c, key)] :
        /\ \A i \in found : SameRow(bucket[i], rows[at[i]])
        /\ \A i, j \in found : i < j => at[i] < at[j]
        /\ \A k \in WrittenAs(stored, c, key) :
             stored[k].row \notin missed[n][c] => \E i \in found : at[i] = k

IndexAgreesWithScan ==
  thread = Idle =>
    \A n \in Names, c \in Columns : index[n][c] # NoIndex =>
      \A key \in ValuesOf[c] : LookupAgrees(n, c, key)
==============================================================================
