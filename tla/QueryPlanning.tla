---------------------------- MODULE QueryPlanning ----------------------------
(***************************************************************************)
(* The life of one SELECT after another in QueryEngine: the text is read   *)
(* (module QueryText), validated against the schemas, planned as a list of *)
(* operators, and its pipeline runs until it is closed or fails.  What the *)
(* iterators of the pipeline do is in module QueryPipeline.                *)
(***************************************************************************)
EXTENDS QueryText

CONSTANTS
  Columns,     \* [table -> its column names, in order]
  Booleans,    \* the BOOLEAN columns; 1 is True and 0 is False
  Indexes      \* the <<table, column>> create_hash_index may be called for

\* The names of columns are in lower case (TupleDescItem).
ASSUME PlanningAssumption ==
  /\ \A t \in DOMAIN Columns : \A c \in Range(Columns[t]) : c \in DOMAIN Lower => Lower[c] = c
  /\ \A i \in Indexes : i[2] \in Range(Columns[i[1]])

VARIABLES
  indexed,   \* the <<table, column>> that have a hash index
  command,   \* the text that was typed last
  query,     \* the query that was read from it
  phase,     \* how far it is
  plan       \* the operators of its pipeline, the table access first

planningVars == <<indexed, command, query, phase, plan>>

Junk == -1     \* a literal that does not parse; None, for a BOOLEAN column
Has(t, c) == c \in Range(Columns[t])

------------------------------------------------------------------------------
(* Query.validate *)

\* Type.parse_type(literal) is False: also the value of the word "false".
ParsesToFalse(f) == f.literal = IF f.column \in Booleans THEN 0 ELSE Junk

\* The tables of the query.
Sources(q) == {q.table} \cup {j.table : j \in Range(q.join)}

Validate(q) ==
  /\ Sources(q) \subseteq DOMAIN Columns
  /\ \A c \in Range(q.columns) : \E t \in Sources(q) : Has(t, c)
  /\ \A j \in Range(q.join) :
       /\ \A c \in Range(q.columns) : ~(Has(q.table, c) /\ Has(j.table, c))
       /\ Has(q.table, j.left) /\ Has(j.table, j.right)
       /\ j.left \in Booleans <=> j.right \in Booleans
  /\ \A f \in Range(q.filters) :
       (\E t \in Sources(q) : Has(t, f.column)) /\ ~ParsesToFalse(f)
  /\ \A c \in Range(q.order) : \E t \in Sources(q) : Has(t, c)

------------------------------------------------------------------------------
(* QueryPlanner *)

\* _index_for_filter
Indexable(q, f) == f.comparison = "=" /\ <<q.table, f.column>> \in indexed

\* Mutant: the filter after the one that is moved is dropped.
OrderedDropsNext(q) ==
  LET first == SelectInSeq(q.filters, LAMBDA f : Indexable(q, f))
  IN  IF q.join # <<>> \/ first = 0 THEN q.filters
      ELSE <<q.filters[first]>> \o SubSeq(q.filters, 1, first - 1)
           \o SubSeq(q.filters, first + 2, Len(q.filters))

\* _order_filters_for_access: the first filter with an index goes first.
OrderedFilters(q) ==
  LET first == SelectInSeq(q.filters, LAMBDA f : Indexable(q, f))
  IN  IF q.join # <<>> \/ first = 0 THEN q.filters
      ELSE <<q.filters[first]>> \o RemoveAt(q.filters, first)

Stages(op, args) == [i \in DOMAIN args |-> [op |-> op, by |-> args[i]]]
StageIf(op, args) == IF args = <<>> THEN <<>> ELSE <<[op |-> op, by |-> args]>>

\* The join or the access to the table, and the filters above it.
Access(q) ==
  LET filters == OrderedFilters(q)
  IN  IF q.join # <<>> THEN Stages("join", q.join) \o Stages("filter", filters)
      ELSE IF filters # <<>> /\ Indexable(q, Head(filters))
      THEN <<[op |-> "index", by |-> Head(filters)]>> \o Stages("filter", Tail(filters))
      ELSE <<[op |-> "scan", by |-> <<>>]>> \o Stages("filter", filters)

\* create_logical_plan and _build_iterator
Planned(q) ==
  Access(q) \o StageIf("order", q.order) \o StageIf("project", q.columns) \o Stages("limit", q.limit)

------------------------------------------------------------------------------
(* QueryEngine.run *)

PlanningInit ==
  /\ indexed \in SUBSET Indexes
  /\ phase = "prompt" /\ command = <<>> /\ query = <<>> /\ plan = <<>>

\* The loop comes back to its prompt, also after an exception.
Prompt ==
  /\ phase \in {"rejected", "unplanned", "closed", "failed"}
  /\ phase' = "prompt" /\ command' = <<>> /\ query' = <<>> /\ plan' = <<>>
  /\ UNCHANGED indexed

\* generate_query parses the command, or returns None or raises.
Read ==
  /\ phase = "prompt"
  /\ command' \in Commands
  /\ IF command' \in RefusedTexts THEN phase' = "rejected" /\ query' = <<>>
     ELSE phase' = "parsed" /\ query' = QueryOfText[command']
  /\ UNCHANGED <<indexed, plan>>

\* validate refuses it,
Reject ==
  /\ phase = "parsed" /\ ~Validate(query)
  /\ phase' = "rejected"
  /\ UNCHANGED <<indexed, command, query, plan>>

\* or the planner builds its pipeline,
Plan ==
  /\ phase = "parsed" /\ Validate(query)
  /\ phase' = "open" /\ plan' = Planned(query)
  /\ UNCHANGED <<indexed, command, query>>

\* or the planner raises, when it opens a table or looks a key up,
PlanRaises ==
  /\ phase = "parsed" /\ Validate(query)
  /\ phase' = "unplanned"
  /\ UNCHANGED <<indexed, command, query, plan>>

\* and a pipeline is closed after its last row, or raises.
End ==
  /\ phase = "open" /\ phase' \in {"closed", "failed"}
  /\ UNCHANGED <<indexed, command, query, plan>>

PlanningNext == Prompt \/ Read \/ Reject \/ Plan \/ PlanRaises \/ End
PlanningSpec == PlanningInit /\ [][PlanningNext]_planningVars

------------------------------------------------------------------------------
(* Properties *)

Accepted == phase \in {"open", "closed", "failed"}

\* The query that runs says what a beginning of the command says, whose last
\* literal, column or number may be cut short, less some conditions; nothing behind
\* the point where the expression stops gets into it.  When the command keeps to
\* the grammar the query says all of it: reading clause by clause, splitting at
\* AND, the aliases and the change of case lose nothing (generate_query,
\* FilterArgs.parse).
QueryWasWritten == Accepted => Says(query, command)

\* FilterArgs.parse: "Parses a whole WHERE clause string".
WholeWhereRead == Accepted => Len(query.filters) = Len(TermsOf(command.clauses))

Rank(op) ==
  [scan |-> 1, index |-> 1, join |-> 1, filter |-> 2, order |-> 3, project |-> 4, limit |-> 5][op]
Conditional == {k \in DOMAIN plan : plan[k].op \in {"index", "filter"}}
Does(op, arg) == \E k \in DOMAIN plan : plan[k].op = op /\ plan[k].by = arg

\* Each condition of the query is applied once, by an index or by a filter, and
\* an index is only used for an equality on its column and without a join.  The
\* sort, the projection and the limit are applied when the query has them, the
\* limit last, and nothing else is (create_logical_plan, _build_iterator,
\* _order_filters_for_access).
PlanDoesTheQuery ==
  Accepted =>
    /\ \A i, j \in DOMAIN plan :
         i < j => \/ Rank(plan[i].op) < Rank(plan[j].op)
                  \/ plan[i].op = "filter" /\ plan[j].op = "filter"
    /\ \E uses \in Bijection(DOMAIN query.filters, Conditional) :
         \A i \in DOMAIN uses : plan[uses[i]].by = query.filters[i]
    /\ \A k \in DOMAIN plan :
         /\ plan[k].op = "index" => query.join = <<>> /\ Indexable(query, plan[k].by)
         /\ plan[k].op = "join" => <<plan[k].by>> = query.join
         /\ plan[k].op = "order" => query.order # <<>> /\ plan[k].by = query.order
         /\ plan[k].op = "project" => query.columns # <<>> /\ plan[k].by = query.columns
         /\ plan[k].op = "limit" => <<plan[k].by>> = query.limit
    /\ DOMAIN plan # {} /\ Rank(plan[1].op) = 1
    /\ query.join # <<>> => plan[1].op = "join"
    /\ query.order # <<>> => Does("order", query.order)
    /\ query.columns # <<>> => Does("project", query.columns)
    /\ query.limit # <<>> => Does("limit", query.limit[1])
==============================================================================
