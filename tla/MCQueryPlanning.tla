--------------------------- MODULE MCQueryPlanning ---------------------------
(* Two tables that share column k, and the texts of SELECTs.                *)
EXTENDS QueryPlanning, TLC

MCColumns == [orders |-> <<"k", "v">>, parts |-> <<"k", "w">>]
MCIndexes == {<<"orders", "k">>}
MCLower == [w \in {"k", "v", "w", "parts", "none"} |-> w] @@ ("K" :> "k" @@ "V" :> "v")

\* Words, numbers and conditions that are read whole, in part, or not at all.
Word(written) == [by |-> ",", written |-> written, read |-> written, form |-> "whole"]
PartOf(item, read) == [item EXCEPT !.read = read, !.form = "part"]
Unread(item) == [item EXCEPT !.form = "unread"]
Is(column, comparison, literal) ==
  [by |-> "AND", column |-> column, comparison |-> comparison,
   written |-> literal, read |-> literal, form |-> "whole"]
By(by, item) == [item EXCEPT !.by = by]
Open(item) == [item EXCEPT !.form = "open"]

Select(list, clauses) ==
  [list |-> list, listed |-> TRUE, clauses |-> clauses,
   table |-> [written |-> "orders", read |-> "orders", form |-> "whole"]]
Join(left, right) ==
  [kind |-> "join", table |-> "parts", left |-> left, named |-> TRUE, items |-> <<right>>]
OnK == Join("k", Word("K"))
Where(terms) == [kind |-> "where", items |-> terms]
OrderBy(columns) == [kind |-> "order", items |-> columns]
LimitTo(count) == [kind |-> "limit", items |-> <<Word(count)>>]
Other == [kind |-> "other", items |-> <<>>]

\* Commands that keep to the grammar.
PlainCommands == {
  Select(<<"v">>, <<>>),
  Select(<<>>, <<Where(<<Is("k", "=", 1)>>)>>),
  Select(<<"K">>, <<Where(<<Is("v", "=", 1), Is("k", "=", 2)>>), LimitTo(1)>>),
  Select(<<>>, <<Where(<<Is("k", "<", 2)>>), OrderBy(<<Word("V")>>), LimitTo(2)>>),
  Select(<<>>, <<Where(<<Is("k", "!=", 1)>>)>>),
  Select(<<>>, <<OrderBy(<<Word("v"), Word("K")>>)>>),
  Select(<<>>, <<Where(<<Is("k", ">=", 2), Is("v", "<", 1)>>)>>),
  Select(<<>>, <<Where(<<Is("v", "=", Junk)>>)>>),
  Select(<<>>, <<Where(<<Is("v", "<>", 0)>>)>>),
  Select(<<>>, <<OnK>>),
  Select(<<"v", "w">>, <<OnK, Where(<<Is("v", "=", 1)>>), OrderBy(<<Word("k")>>), LimitTo(1)>>),
  Select(<<"v">>, <<OnK, Where(<<Is("w", "<=", 1), Is("k", "=", 1)>>), LimitTo(2)>>),
  Select(<<"k">>, <<OnK>>),
  Select(<<>>, <<Where(<<Is("k", "=", Junk)>>)>>),
  Select(<<>>, <<Where(<<Is("K", "=", 1)>>)>>)}

\* Commands the regular expression does not read to their end: whole clauses and
\* conditions are left out,
OddCommands == {
  [Select(<<"k">>, <<>>) EXCEPT !.listed = FALSE],
  Select(<<>>, <<Where(<<Is("k", "=", 1), Open(Is("v", "=", Junk)), Open(By("quoted AND", Is("v", "=", 1)))>>)>>),
  Select(<<>>, <<Where(<<Is("v", "=", 1), By("OR", Is("k", "=", 2))>>), LimitTo(1)>>),
  Select(<<"v">>, <<Where(<<Is("k", "=", 2), Is("v", "=", 1), Unread(Is("v", ">", 0)),
                            Is("k", "~", 1)>>), LimitTo(1)>>),
  Select(<<"v">>, <<Where(<<Is("k", "=", 1), By("line AND", Is("v", "=", 1))>>), Other, LimitTo(1)>>),
  Select(<<"k">>, <<[OnK EXCEPT !.named = FALSE], Where(<<Is("v", "=", 1)>>)>>),
  Select(<<"k">>, <<LimitTo(1), OrderBy(<<Word("k")>>)>>),
  Select(<<>>, <<OnK, OnK>>),
  Select(<<>>, <<LimitTo(1), Other>>),
  Select(<<"v">>, <<OrderBy(<<Word("k")>>), OrderBy(<<Word("v")>>)>>)}

\* ... or the reading stops inside a clause, most often in the middle of a name, a
\* literal, a column or a number, or takes a condition out of quotes.
CutCommands == {
  [Select(<<>>, <<LimitTo(1)>>) EXCEPT !.table = [written |-> "orders-old", read |-> "orders", form |-> "part"]],
  [Select(<<>>, <<>>) EXCEPT !.table = [written |-> "-", read |-> "-", form |-> "unread"]],
  Select(<<>>, <<Join("k", PartOf(Word("none"), "parts")), LimitTo(1)>>),
  Select(<<>>, <<Join("k", PartOf(Word("none"), "k")), Where(<<Is("v", "=", 1)>>)>>),
  Select(<<>>, <<Join("k", Unread(Word("k")))>>),
  Select(<<"v">>, <<Where(<<Is("v", "=", 1), PartOf(Is("k", "=", 3), 2), Is("k", "<", 2)>>), LimitTo(1)>>),
  Select(<<>>, <<Where(<<PartOf(Is("v", "=", 0), Junk)>>)>>),
  Select(<<>>, <<OrderBy(<<Word("k"), By(" ,", Word("v"))>>), LimitTo(1)>>),
  Select(<<>>, <<OrderBy(<<Word("v"), PartOf(Word("none"), "k"), Word("v")>>)>>),
  Select(<<>>, <<[LimitTo(25) EXCEPT !.items[1] = PartOf(@, 2)]>>),
  Select(<<>>, <<OrderBy(<<Word("v")>>), [LimitTo(-1) EXCEPT !.items[1] = [Unread(@) EXCEPT !.read = 0]]>>),
  Select(<<>>, <<Where(<<Is("k", "=", 1), By("line AND", Open(Is("v", "=", Junk))),
                         By("quoted AND", Is("v", "=", 1))>>), LimitTo(1)>>)}

AllCommands == PlainCommands \cup OddCommands \cup CutCommands
==============================================================================
