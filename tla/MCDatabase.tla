------------------------------ MODULE MCDatabase -----------------------------
(* Small instances of Database. *)
EXTENDS Database

\* Every table has a schema of its own.
OwnSchemas == [n \in Names |-> n]

\* All tables have equal schemas.
EqualSchemas == [n \in Names |-> "schema"]
==============================================================================
