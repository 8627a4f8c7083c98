----------------------------- MODULE MCDataPage ------------------------------
(* A page of 104 bytes with the real header and column lengths.            *)
EXTENDS DataPage

Py(class, id, len) == [class |-> class, id |-> id, len |-> len, ok |-> TRUE]
Broken(class, id) == [class |-> class, id |-> id, len |-> 1, ok |-> FALSE]

\* Strings of 0, 3, 14 (the column's length), 15 and 40 characters, one that
\* is not ASCII; an integer that needs more than 32 bits; True and False.
MCValues ==
  {Py("str", 0, 0), Py("str", 1, 3), Py("str", 2, 14), Py("str", 3, 15), Py("str", 4, 40),
   Broken("str", 5), Py("float", 1, 0), Py("int", 0, 0), Py("int", 2, 0), Broken("int", 3),
   Py("bool", 0, 0), Py("bool", 1, 0)}

MCSchemas ==
  {<<"STRING">>, <<"INTEGER", "STRING">>, <<"STRING", "INTEGER">>, <<"STRING", "BOOLEAN">>,
   <<"BOOLEAN", "STRING", "DOUBLE">>, <<"STRING", "STRING">>, <<"DOUBLE", "INTEGER">>}
==============================================================================
