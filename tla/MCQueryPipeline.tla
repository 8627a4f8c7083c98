--------------------------- MODULE MCQueryPipeline ---------------------------
(* Two tables that share column k, and SELECTs that use every operator.     *)
EXTENDS QueryPipeline, MCQueryPlanning

MCValuesOf == [k |-> {1, 2}, v |-> {0, 1}, w |-> {1}]
MCMaxRows == [orders |-> 3, parts |-> 2]

\* A WHERE clause on two lines.
TwoLineCommands == {Select(<<>>, <<Where(<<Is("k", "=", 1), By("line AND", Is("v", "=", 1))>>)>>)}
==============================================================================
