------------------------------- MODULE QueryText -----------------------------
(***************************************************************************)
(* What Query.generate_query makes of the text of a SELECT.  The text is a *)
(* select list, a table and the clauses in the order they were written;    *)
(* words, numbers and quotes are abstracted to what the regular expression *)
(* of query.py reads of them.  The expression is anchored at the start of  *)
(* the text only: it reads as many clauses as it can, in its own order,    *)
(* the last of them as far as it can, and what follows is ignored.         *)
(***************************************************************************)
EXTENDS Integers, SequencesExt, FiniteSetsExt

CONSTANTS
  Commands,   \* the texts that are typed
  Lower       \* [word -> the word in lower case], the columns of Commands

\* A word, number or quoted text is read whole, or in part (parts of parts.w, Mary
\* of Mary-Ann, 2 of 2.5), or not at all.  A quoted text is open when an AND
\* between blanks follows inside the quotes: the places behind such an AND are
\* joined by "quoted AND", and are open when they are no condition.
Token(t) == t.form \in {"whole", "open"} => t.read = t.written
Forms == {"whole", "part", "unread"}

Tables == {t \in [written : STRING, read : STRING, form : Forms] : Token(t)}
Words ==
  {t \in [by : {",", " ,"}, written : DOMAIN Lower, read : DOMAIN Lower, form : Forms] : Token(t)}
Counts == {t \in [by : {","}, written : Int, read : Nat, form : Forms] : Token(t)}

\* A condition is joined to the one before it by AND between blanks, by AND
\* after a line break or a tab, or by anything else, like OR.
Conditions ==
  {t \in [by : {"AND", "line AND", "quoted AND", "OR"}, column : DOMAIN Lower,
          comparison : STRING, written : Int, read : Int, form : Forms \cup {"open"}] : Token(t)}

\* The items of a join are its right column; named is FALSE when it is not of the
\* form <table> ON <word> =.
Clauses ==
  [kind : {"join"}, table : STRING, left : DOMAIN Lower, named : BOOLEAN, items : [1..1 -> Words]]
  \cup [kind : {"where"}, items : Seq(Conditions) \ {<<>>}]
  \cup [kind : {"order"}, items : Seq(Words) \ {<<>>}]
  \cup [kind : {"limit"}, items : [1..1 -> Counts]]
  \cup [kind : {"other"}, items : {<<>>}]

\* list is <<>> for "*"; listed is FALSE when it has more than words and commas.
ASSUME TextAssumption ==
  \A text \in Commands :
    /\ Range(text.list) \subseteq DOMAIN Lower /\ text.listed \in BOOLEAN
    /\ text.table \in Tables
    /\ text.clauses \in Seq(Clauses)

Lowered(words) == [i \in DOMAIN words |-> Lower[words[i]]]

------------------------------------------------------------------------------
(* The regular expression *)

\* The longest prefix of a sequence that has only good places.
LongestPrefix(s, good) == SubSeq(s, 1, Max({n \in 0..Len(s) : 1..n \subseteq good}))

\* \w+\s*(>=|<>|!=|<=|=|>|<)\s*('[^']*'|"[^"]*"|[\w\.]+), or a \w+ or \d+
Readable(kind, item) ==
  /\ item.form # "unread"
  /\ kind = "where" =>
       item.by = "quoted AND" \/ item.comparison \in {">=", "<>", "!=", "<=", "=", ">", "<"}

\* \s+AND\s+ or ,\s* and what follows, behind an item that was read to its end.
ItemsRead(c) ==
  LongestPrefix(c.items,
                {i \in DOMAIN c.items :
                   /\ Readable(c.kind, c.items[i])
                   /\ i > 1 => c.items[i].by \notin {"OR", " ,"} /\ c.items[i - 1].form # "part"})

\* The clause matches where it stands,
Starts(c) == ItemsRead(c) # <<>> /\ (c.kind = "join" => c.named)

\* and up to its end, so that the next clause can match.
ReadWhole(c) == ItemsRead(c) = c.items /\ Last(c.items).form # "part"

Place(c) == [join |-> 1, where |-> 2, order |-> 3, limit |-> 4, other |-> 5][c.kind]

ClausesRead(text) ==
  LET follows(before, c) == Place(before) < Place(c) /\ ReadWhole(before)
      read == LongestPrefix(text.clauses,
                            {i \in DOMAIN text.clauses :
                               /\ text.table.form = "whole" /\ Starts(text.clauses[i])
                               /\ i > 1 => follows(text.clauses[i - 1], text.clauses[i])})
  IN  [i \in DOMAIN read |-> [read[i] EXCEPT !.items = ItemsRead(read[i])]]

------------------------------------------------------------------------------
(* FilterArgs.parse *)

\* Mutant: the alias is not known.
FindWithoutAlias(comparison) == IF comparison = "!=" THEN "=" ELSE comparison

\* Comparison.find
Find(comparison) == IF comparison = "!=" THEN "<>" ELSE comparison

FilterArgs(term) ==
  [column |-> term.column, comparison |-> Find(term.comparison), literal |-> term.read]

\* re.split(" AND ") and a match of the beginning of each part: a condition
\* after a line break is in the part of the one before it, a quoted text is split.
BeginsPart(terms) == {i \in DOMAIN terms : i = 1 \/ terms[i].by \in {"AND", "quoted AND"}}
ParsedFilters(terms) ==
  FlattenSeq([i \in DOMAIN terms |->
                IF i \in BeginsPart(terms) THEN <<FilterArgs(terms[i])>> ELSE <<>>])

\* A part that does not match: ValueError.
SplitsQuotes(terms) == \E i \in BeginsPart(terms) : terms[i].form = "open"

------------------------------------------------------------------------------
(* generate_query *)

\* The clauses of one kind among those given.
OfKind(clauses, kind) ==
  FlattenSeq([i \in DOMAIN clauses |-> IF clauses[i].kind = kind THEN <<clauses[i]>> ELSE <<>>])
TermsOf(clauses) ==
  LET wheres == OfKind(clauses, "where")
  IN  FlattenSeq([i \in DOMAIN wheres |-> wheres[i].items])

\* None, or ValueError.
Refused(text) ==
  ~text.listed \/ text.table.form = "unread" \/ SplitsQuotes(TermsOf(ClausesRead(text)))

\* The query of the clauses: only the columns of WHERE keep their case.
QueryOf(table, list, clauses, filters) ==
  LET joins == OfKind(clauses, "join")
      orders == OfKind(clauses, "order")
      limits == OfKind(clauses, "limit")
      joined(c) == [table |-> c.table, left |-> Lower[c.left], right |-> Lower[c.items[1].read]]
      columns(c) == [i \in DOMAIN c.items |-> Lower[c.items[i].read]]
  IN  [table |-> table, columns |-> Lowered(list),
       join |-> [i \in DOMAIN joins |-> joined(joins[i])],
       filters |-> filters,
       order |-> FlattenSeq([i \in DOMAIN orders |-> columns(orders[i])]),
       limit |-> [i \in DOMAIN limits |-> limits[i].items[1].read]]

GenerateQuery(text) ==
  QueryOf(text.table.read, text.list, ClausesRead(text), ParsedFilters(TermsOf(ClausesRead(text))))

\* The outcome for every text.
RefusedTexts == {text \in Commands : Refused(text)}
QueryOfText == [text \in Commands |-> GenerateQuery(text)]

------------------------------------------------------------------------------
(* What was written *)

WrittenFilter(term) ==
  [column |-> Lower[term.column],
   comparison |-> IF term.comparison = "!=" THEN "<>" ELSE term.comparison,
   literal |-> term.read]

\* The beginning of a text: its first n clauses, the last of them with m items.
\* All of it is as it was written, but the last item is what was read of it.
AsWritten(item) == [item EXCEPT !.read = item.written]
Beginning(text, n, m) ==
  LET clause(k) == text.clauses[k]
      items(k) == [i \in 1..(IF k < n THEN Len(clause(k).items) ELSE m) |->
                     IF k = n /\ i = m THEN clause(k).items[i] ELSE AsWritten(clause(k).items[i])]
  IN  [k \in 1..n |-> [clause(k) EXCEPT !.items = items(k)]]

\* What it says.
Meaning(text, n, m) ==
  LET said == Beginning(text, n, m)
      terms == TermsOf(said)
  IN  QueryOf(IF n = 0 THEN text.table.read ELSE text.table.written, text.list, said,
              [i \in DOMAIN terms |-> WrittenFilter(terms[i])])

\* The text keeps to the grammar of the regular expression, on one line.
Plain(text) ==
  /\ text.listed /\ text.table.form = "whole"
  /\ \A k \in DOMAIN text.clauses :
       LET c == text.clauses[k]
       IN  /\ c.kind # "other" /\ (c.kind = "join" => c.named)
           /\ k > 1 => Place(text.clauses[k - 1]) < Place(c)
           /\ \A i \in DOMAIN c.items :
                /\ Readable(c.kind, c.items[i]) /\ c.items[i].form = "whole"
                /\ c.items[i].by \in {"AND", ","}

\* s is t without some of its elements.
PickedFrom(s, t) ==
  \E from \in [DOMAIN s -> DOMAIN t] :
    /\ \A i, j \in DOMAIN s : i < j => from[i] < from[j]
    /\ \A i \in DOMAIN s : s[i] = t[from[i]]

\* The query says what a beginning of the text says, at most one clause of a
\* kind, but for conditions of WHERE (of those in quotes, behind an AND, it may say
\* some); and it says all of a plain text.
SaysTo(q, text, n, m) ==
  LET meaning == Meaning(text, n, m)
  IN  /\ \A i, j \in 1..n : text.clauses[i].kind = text.clauses[j].kind => i = j
      /\ \A part \in {"table", "columns", "join", "order", "limit"} : q[part] = meaning[part]
      /\ PickedFrom(q.filters, meaning.filters)
Whole(text, n) == IF n = 0 THEN 0 ELSE Len(text.clauses[n].items)
Says(q, text) ==
  /\ \E n \in 0..Len(text.clauses) : \E m \in 0..Whole(text, n) :
       (n > 0 => m > 0) /\ SaysTo(q, text, n, m)
  /\ Plain(text) => q = Meaning(text, Len(text.clauses), Whole(text, Len(text.clauses)))
==============================================================================
