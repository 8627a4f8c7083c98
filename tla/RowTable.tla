------------------------------- MODULE RowTable ------------------------------
(***************************************************************************)
(* What a heap file promises to its callers, with no pages: a table is the *)
(* sequence of its rows.  An insert that returns has appended its row, an  *)
(* insert that raises has changed nothing, and nothing else, no scan, no   *)
(* flush, no eviction, ever changes a table.                               *)
(***************************************************************************)
EXTENDS Sequences

CONSTANTS Tables, Rows

VARIABLES
  rows,   \* [Tables -> Seq(Rows)]
  call    \* the insert that is running, or how the last call ended

tableVars == <<rows, call>>

Running == [state : {"running"}, table : Tables, row : Rows]
Settled == [state |-> "settled"]
Raised == [state |-> "raised"]

TableInit ==
  /\ rows = [t \in Tables |-> <<>>]
  /\ call = Settled

Begin ==
  /\ call.state # "running"
  /\ call' \in Running
  /\ UNCHANGED rows

Return ==
  /\ call.state = "running"
  /\ rows' = [rows EXCEPT ![call.table] = Append(rows[call.table], call.row)]
  /\ call' = Settled

Raise ==
  /\ call.state = "running"
  /\ call' = Raised
  /\ UNCHANGED rows

\* Some other call follows an insert that raised.
Forget ==
  /\ call = Raised
  /\ call' = Settled
  /\ UNCHANGED rows

TableNext == Begin \/ Return \/ Raise \/ Forget

TableSpec == TableInit /\ [][TableNext]_tableVars
==============================================================================
