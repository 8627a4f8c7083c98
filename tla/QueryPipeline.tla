---------------------------- MODULE QueryPipeline ----------------------------
(***************************************************************************)
(* The iterators of the executor for the plans of module QueryPlanning: a  *)
(* pipeline of stages, each an iterator over the one below.  The caller    *)
(* (QueryEngine or a program) asks has_next and __next__ of the last stage *)
(* in any order and closes it.  A table is the sequence of its rows; a     *)
(* scan pins one page until it has returned the last one (module HeapFile  *)
(* has the pages).                                                         *)
(***************************************************************************)
EXTENDS QueryPlanning, TLC

CONSTANTS
  ValuesOf,    \* [column -> the values its rows may hold, as integers]
  MaxRows,     \* [table -> bound on its rows]
  MaxAllRows,  \* bound on the rows of all tables
  Markable     \* operators a caller may mark and reset a pipeline of

ASSUME QueryAssumption ==
  /\ DOMAIN Columns = DOMAIN MaxRows /\ MaxAllRows \in Nat
  /\ \A t \in DOMAIN Columns : Columns[t] \in Seq(DOMAIN ValuesOf) /\ MaxRows[t] \in Nat
  /\ Booleans \subseteq DOMAIN ValuesOf
  /\ \A c \in Booleans : ValuesOf[c] \subseteq {0, 1}

VARIABLES
  tables,    \* [table -> its rows]
  at,        \* the state of the iterator of each operator
  given,     \* history: the rows returned
  said,      \* the answer to the last has_next or __next__, if it was not a row
  marked     \* history: how many rows were given when mark was called

pipeline == <<tables, at, given, said, marked>>
vars == <<planningVars, pipeline>>

RowOf(t) == [Range(Columns[t]) -> UNION Range(ValuesOf)]
TableRows(t) ==
  {row \in RowOf(t) : \A c \in Range(Columns[t]) : row[c] \in ValuesOf[c]}
TablesOf(t) == BoundedSeq(TableRows(t), MaxRows[t])

------------------------------------------------------------------------------
(* The pipeline *)

\* The iterators as their constructors leave them.
NewScan == [pos |-> 0, mark |-> 0, held |-> TRUE]
NewStage(stage) ==
  [scan    |-> NewScan,
   index   |-> [pos |-> 0, mark |-> 0, ahead |-> FALSE],
   join    |-> [left |-> NewScan, right |-> NewScan, row |-> <<>>, next |-> <<>>],
   filter  |-> [next |-> <<>>],
   order   |-> [tuples |-> <<>>, loaded |-> FALSE, index |-> 0],
   project |-> [columns |-> stage.by],
   limit   |-> [count |-> 0]][stage.op]

------------------------------------------------------------------------------
(* Predicates and the comparator *)

\* Equals, NotModifier and Range: matches_condition
Satisfies(row, f) ==
  \/ f.comparison \in {"=", "<=", ">="} /\ row[f.column] = f.literal
  \/ f.comparison = "<>" /\ row[f.column] # f.literal
  \/ f.comparison \in {"<", "<="} /\ row[f.column] < f.literal
  \/ f.comparison \in {">", ">="} /\ row[f.column] > f.literal

\* Range predicates raise on a BOOLEAN column.
Unsupported(f) == f.column \in Booleans /\ f.comparison \notin {"=", "<>"}

\* ColumnComparator.compare(a, b) < 0
Before(a, b, columns) ==
  \E i \in DOMAIN columns :
    /\ a[columns[i]] < b[columns[i]]
    /\ \A j \in 1..(i - 1) : a[columns[j]] = b[columns[j]]

\* list.sort with that comparator: equal rows keep their order.
Sorted(rows, columns) ==
  LET ahead(i, j) == \/ Before(rows[i], rows[j], columns)
                     \/ i < j /\ ~Before(rows[j], rows[i], columns)
      place(i) == Cardinality({j \in DOMAIN rows : ahead(j, i)}) + 1
  IN  [n \in DOMAIN rows |-> rows[CHOOSE i \in DOMAIN rows : place(i) = n]]

------------------------------------------------------------------------------
(* The scan of a table and the probe of an index *)

RowsOf(t) == tables[t]
LeftRows == RowsOf(query.table)
RightRows == RowsOf(query.join[1].table)
Probed == SelectSeq(LeftRows, LAMBDA row : Satisfies(row, plan[1].by))

\* DataFileIterator.has_next: past the last row the page goes back.
More(scan, rows) == scan.pos < Len(rows)
AskedScan(scan, rows) == IF More(scan, rows) THEN scan ELSE [scan EXCEPT !.held = FALSE]

\* Mutant: an exhausted scan stays exhausted.
RewoundNot(scan) == scan

\* DataFileIterator.reset
Rewound(scan) == [scan EXCEPT !.pos = scan.mark, !.held = TRUE]

\* Mutant: the mark always takes the row that is looked at back.
IndexMarkAlwaysBack(ix) == [ix EXCEPT !.mark = ix.pos - 1]

\* IndexScan.mark and reset
IndexMark(ix) == [ix EXCEPT !.mark = ix.pos - (IF ix.ahead THEN 1 ELSE 0)]
IndexReset(ix) == [ix EXCEPT !.pos = ix.mark, !.ahead = FALSE]

------------------------------------------------------------------------------
(* NestedLoopJoin *)

TakesLeft(join) ==
  [join EXCEPT !.row = <<LeftRows[join.left.pos + 1]>>, !.left.pos = @ + 1]

\* The loop of has_next.  An empty right table makes __next__ raise.
RECURSIVE JoinLoop(_)
JoinLoop(j) ==
  LET by == query.join[1]
      join == [j EXCEPT !.left = AskedScan(@, LeftRows)]
      moreLeft == More(join.left, LeftRows)
      moreRight == More(join.right, RightRows)
      turned == IF moreRight THEN join ELSE TakesLeft([join EXCEPT !.right = Rewound(@)])
      right == RightRows[turned.right.pos + 1]
      next == [turned EXCEPT !.right.pos = @ + 1]
      ends(state, out) == [join |-> [state EXCEPT !.right = AskedScan(@, RightRows)], out |-> out]
  IN  CASE ~moreLeft /\ join.row = <<>> -> [join |-> join, out |-> "no"]
        [] ~moreLeft /\ join.row # <<>> /\ ~moreRight -> ends(join, "no")
        [] OTHER ->
             IF ~More(turned.right, RightRows) THEN ends(turned, "stop")
             ELSE IF turned.row[1][by.left] = right[by.right]
             THEN [join |-> [next EXCEPT !.next = <<right @@ turned.row[1]>>], out |-> "yes"]
             ELSE JoinLoop(next)

AskJoin(join) ==
  IF join.next # <<>> THEN [join |-> join, out |-> "yes"]
  ELSE JoinLoop(IF join.row = <<>> /\ More(join.left, LeftRows) THEN TakesLeft(join) ELSE join)

\* Mutant: only the left input is closed.
ClosedLeft(join) == [join EXCEPT !.left.held = FALSE]

\* AbstractJoin.close
ClosedJoin(join) == [join EXCEPT !.left.held = FALSE, !.right.held = FALSE]

------------------------------------------------------------------------------
(* close, has_next and __next__ of the k-th iterator, in its state s *)

YesIf(condition) == IF condition THEN "yes" ELSE "no"
Answers(s, out) == [at |-> s, out |-> out]
Returns(s, row) == [at |-> s, out |-> "row", row |-> row]

RECURSIVE CloseAt(_, _)
CloseAt(k, s) ==
  LET closed(stage) == Answers([s EXCEPT ![k] = stage], "closed")
  IN  CASE plan[k].op = "scan"  -> closed([s[k] EXCEPT !.held = FALSE])
        [] plan[k].op = "index" -> closed([s[k] EXCEPT !.ahead = FALSE, !.pos = Len(Probed)])
        [] plan[k].op = "join"  -> closed(ClosedJoin(s[k]))
        [] plan[k].op = "order" -> IF s[k].loaded THEN closed([s[k] EXCEPT !.tuples = <<>>])
                                   ELSE Answers(s, "raised")
        [] OTHER -> CloseAt(k - 1, s)

RECURSIVE HasNext(_, _), NextRow(_, _), Seek(_, _), Drain(_, _, _)

\* DataFileIterator
AskScan(k, s) ==
  Answers([s EXCEPT ![k] = AskedScan(@, LeftRows)], YesIf(More(s[k], LeftRows)))
TakeScan(k, s) == Returns([s EXCEPT ![k].pos = @ + 1], LeftRows[s[k].pos + 1])

\* IndexScan: has_next takes the row and keeps it.
AskIndex(k, s) ==
  IF s[k].ahead \/ ~More(s[k], Probed) THEN Answers(s, YesIf(s[k].ahead))
  ELSE Answers([s EXCEPT ![k].ahead = TRUE, ![k].pos = @ + 1], "yes")
TakeIndex(k, s) == Returns([s EXCEPT ![k].ahead = FALSE], Probed[s[k].pos])

\* Filter.has_next: the loop to the next row that matches.
Seek(k, s) ==
  LET asked == HasNext(k - 1, s)
      next == NextRow(k - 1, asked.at)
  IN  IF asked.out # "yes" THEN asked
      ELSE IF Unsupported(plan[k].by) THEN Answers(next.at, "raised")
      ELSE IF Satisfies(next.row, plan[k].by)
      THEN Answers([next.at EXCEPT ![k].next = <<next.row>>], "yes")
      ELSE Seek(k, next.at)
AskFilter(k, s) == IF s[k].next # <<>> THEN Answers(s, "yes") ELSE Seek(k, s)
\* Filter.__next__ and NestedLoopJoin.__next__
TakeKept(k, s) == Returns([s EXCEPT ![k].next = <<>>], s[k].next[1])

\* InMemoryOrderBy: __next__ loads all rows of the child, sorts them and
\* closes the child.
AskOrder(k, s) ==
  IF s[k].loaded THEN Answers(s, YesIf(s[k].index < Len(s[k].tuples)))
  ELSE HasNext(k - 1, s)
Drain(k, s, rows) ==
  LET asked == HasNext(k, s)
      next == NextRow(k, asked.at)
  IN  IF asked.out = "yes" THEN Drain(k, next.at, Append(rows, next.row))
      ELSE [at |-> asked.at, rows |-> rows]

\* Mutant: only the first of the columns is compared.
LoadedByFirst(k, s) ==
  LET all == Drain(k - 1, s, <<>>)
  IN  IF s[k].loaded THEN s
      ELSE [CloseAt(k - 1, all.at).at EXCEPT
              ![k] = [tuples |-> Sorted(all.rows, SubSeq(plan[k].by, 1, 1)), loaded |-> TRUE, index |-> 0]]

\* InMemoryOrderBy.__next__, the first time
Loaded(k, s) ==
  LET all == Drain(k - 1, s, <<>>)
  IN  IF s[k].loaded THEN s
      ELSE [CloseAt(k - 1, all.at).at EXCEPT
              ![k] = [tuples |-> Sorted(all.rows, plan[k].by), loaded |-> TRUE, index |-> 0]]
TakeOrder(k, s) ==
  LET loaded == Loaded(k, s)
  IN  Returns([loaded EXCEPT ![k].index = @ + 1], loaded[k].tuples[loaded[k].index + 1])

\* Limit
AskLimit(k, s) ==
  LET below == HasNext(k - 1, s)
  IN  IF below.out = "yes" /\ s[k].count >= plan[k].by THEN Answers(below.at, "no") ELSE below
TakeLimit(k, s) == NextRow(k - 1, [s EXCEPT ![k].count = @ + 1])

HasNext(k, s) ==
  LET join == AskJoin(s[k])
  IN  CASE plan[k].op = "scan"    -> AskScan(k, s)
        [] plan[k].op = "index"   -> AskIndex(k, s)
        [] plan[k].op = "join"    -> Answers([s EXCEPT ![k] = join.join], join.out)
        [] plan[k].op = "filter"  -> AskFilter(k, s)
        [] plan[k].op = "order"   -> AskOrder(k, s)
        [] plan[k].op = "project" -> HasNext(k - 1, s)
        [] plan[k].op = "limit"   -> AskLimit(k, s)

\* The row that has_next found.
Take(k, s) ==
  CASE plan[k].op = "scan"  -> TakeScan(k, s)
    [] plan[k].op = "index" -> TakeIndex(k, s)
    [] plan[k].op \in {"join", "filter"} -> TakeKept(k, s)
    [] plan[k].op = "order" -> TakeOrder(k, s)
    [] plan[k].op = "limit" -> TakeLimit(k, s)

Project(row, columns) == [i \in DOMAIN columns |-> row[columns[i]]]

\* A projection calls __next__ below it at once; the others ask has_next.
NextProjected(k, s) ==
  LET below == NextRow(k - 1, s)
  IN  IF below.out = "row" THEN [below EXCEPT !.row = Project(@, plan[k].by)] ELSE below
NextRow(k, s) ==
  LET asked == HasNext(k, s)
  IN  IF plan[k].op = "project" THEN NextProjected(k, s)
      ELSE IF asked.out = "yes" THEN Take(k, asked.at)
      ELSE Answers(asked.at, IF asked.out = "no" THEN "stop" ELSE asked.out)

------------------------------------------------------------------------------
(* The caller *)

Top == Len(plan)

TypeOK ==
  /\ \A t \in DOMAIN Columns : tables[t] \in TablesOf(t)
  /\ indexed \subseteq Indexes
  /\ phase = "prompt" \/ command \in Commands
  /\ query = <<>> \/ DOMAIN query = {"table", "join", "filters", "order", "columns", "limit"}
  /\ phase \in {"prompt", "parsed", "rejected", "unplanned", "open", "closed", "failed"}
  /\ DOMAIN at = DOMAIN plan \/ (phase = "unplanned" /\ at = <<NewScan>>)
  /\ \A k \in DOMAIN plan :
       /\ plan[k].op \in {"scan", "index"} => at[k].pos \in 0..Len(LeftRows) /\ at[k].mark \in 0..at[k].pos
       /\ plan[k].op = "join" => at[k].left.pos <= Len(LeftRows) /\ at[k].right.pos <= Len(RightRows)
       /\ plan[k].op = "limit" => at[k].count \in 0..plan[k].by
  /\ said \in {"none", "yes", "no", "stop", "raised"}
  /\ marked \in 0..Len(given)

Init ==
  /\ tables \in {f \in [DOMAIN Columns -> UNION {TablesOf(t) : t \in DOMAIN Columns}] :
                  /\ \A t \in DOMAIN Columns : f[t] \in TablesOf(t)
                  /\ MapThenSumSet(LAMBDA t : Len(f[t]), DOMAIN Columns) <= MaxAllRows}
  /\ PlanningInit
  /\ at = <<>> /\ given = <<>> /\ said = "none" /\ marked = 0

NextPrompt ==
  /\ Prompt
  /\ at' = <<>> /\ given' = <<>> /\ said' = "none" /\ marked' = 0
  /\ UNCHANGED tables

ReadQuery == Read /\ UNCHANGED pipeline
QueryRejected == Reject /\ UNCHANGED pipeline

\* The planner builds the iterators.
QueryPlanned ==
  /\ Plan
  /\ at' = [k \in DOMAIN plan' |-> NewStage(plan'[k])]
  /\ UNCHANGED <<tables, given, said, marked>>

\* The planner raises, for a join also when it has opened the left scan already:
\* nothing closes that.
PlannerRaises ==
  /\ PlanRaises
  /\ at' \in {<<>>} \cup {<<NewScan>> : join \in Range(query.join)}
  /\ UNCHANGED <<tables, given, said, marked>>

AskHasNext ==
  LET asked == HasNext(Top, at)
  IN  /\ phase = "open"
      /\ at' = asked.at /\ said' = asked.out
      /\ phase' = IF asked.out = "raised" THEN "failed" ELSE "open"
      /\ UNCHANGED <<tables, indexed, command, query, plan, given, marked>>

\* QueryEngine lets an exception of __next__ pass and does not close.
FetchRow ==
  LET next == NextRow(Top, at)
  IN  /\ phase = "open"
      /\ at' = next.at
      /\ given' = IF next.out = "row" THEN Append(given, next.row) ELSE given
      /\ said' = IF next.out = "row" THEN "none" ELSE next.out
      /\ phase' = IF next.out = "raised" THEN "failed" ELSE "open"
      /\ UNCHANGED <<tables, indexed, command, query, plan, marked>>

CloseQuery ==
  LET closed == CloseAt(Top, at)
  IN  /\ phase = "open"
      /\ at' = closed.at
      /\ phase' = IF closed.out = "raised" THEN "failed" ELSE "closed"
      /\ UNCHANGED <<tables, indexed, command, query, plan, given, said, marked>>

\* Sort and join refuse both calls; filter and limit pass reset on but keep
\* their own state.
Remarkable ==
  /\ phase = "open"
  /\ \A k \in DOMAIN plan : plan[k].op \in Markable \cap {"scan", "index", "filter", "limit", "project"}

\* mark on an exhausted scan keeps the old slot (see HeapFile).
MarkedScan(scan) == [scan EXCEPT !.mark = scan.pos]
MarkPosition ==
  /\ Remarkable /\ (plan[1].op = "scan" => at[1].held)
  /\ at' = [at EXCEPT ![1] = IF plan[1].op = "scan" THEN MarkedScan(@) ELSE IndexMark(@)]
  /\ marked' = Len(given)
  /\ UNCHANGED <<tables, indexed, command, query, phase, plan, given, said>>

ResetPosition ==
  /\ Remarkable
  /\ at' = [at EXCEPT ![1] = IF plan[1].op = "scan" THEN Rewound(@) ELSE IndexReset(@)]
  /\ given' = SubSeq(given, 1, marked) /\ said' = "none"
  /\ UNCHANGED <<tables, indexed, command, query, phase, plan, marked>>

Next ==
  \/ NextPrompt \/ ReadQuery \/ QueryRejected \/ QueryPlanned \/ PlannerRaises
  \/ AskHasNext \/ FetchRow \/ CloseQuery \/ MarkPosition \/ ResetPosition

Spec == Init /\ [][Next]_vars

------------------------------------------------------------------------------
(* Properties *)

\* What SQL says the query returns: the matching pairs of rows in the order of
\* the left table, filtered, sorted, projected and cut.
Joined(q) ==
  LET left == RowsOf(q.table)
      matches(row) == SelectSeq(RowsOf(q.join[1].table),
                                LAMBDA r : r[q.join[1].right] = row[q.join[1].left])
      pairs(row) == [n \in DOMAIN matches(row) |-> row @@ matches(row)[n]]
  IN  IF q.join = <<>> THEN left ELSE FlattenSeq([i \in DOMAIN left |-> pairs(left[i])])

Answer(q) ==
  LET kept == SelectSeq(Joined(q), LAMBDA row : \A f \in Range(q.filters) : Satisfies(row, f))
      sorted == IF q.order = <<>> THEN kept ELSE Sorted(kept, q.order)
      columns == IF q.columns = <<>> THEN sorted
                 ELSE [i \in DOMAIN sorted |-> Project(sorted[i], q.columns)]
  IN  IF q.limit = <<>> \/ q.limit[1] >= Len(columns) THEN columns
      ELSE SubSeq(columns, 1, q.limit[1])

\* However has_next, __next__, mark and reset are interleaved, and whether an
\* index is used or not, the rows returned are a prefix of the query's answer:
\* none is lost, repeated or out of place in a lookahead, a buffered join row,
\* the reordered filters or the sort (QueryPlanner, Filter, NestedLoopJoin,
\* InMemoryOrderBy, IndexScan, Limit, Projection).
RowsAreTheAnswer ==
  phase \in {"open", "closed", "failed"} => IsPrefix(given, Answer(query))

\* has_next answers True only if a row is still to come, and it answers False,
\* and __next__ stops, only when the whole answer was returned.
AnswersAreTrue ==
  LET left == Len(Answer(query)) - Len(given)
  IN  phase = "open" => /\ said = "yes" => left > 0
                        /\ said \in {"no", "stop"} => left = 0

\* When close returns without an error no scan of the pipeline still pins a
\* page: the join closes both inputs, and the sort closed its child when it
\* loaded it (close of each iterator).
PagesGivenBack ==
  phase = "closed" =>
    \A k \in DOMAIN plan :
      /\ plan[k].op = "scan" => ~at[k].held
      /\ plan[k].op = "join" => ~at[k].left.held /\ ~at[k].right.held
==============================================================================
