------------------------------- MODULE Engine -------------------------------
(***************************************************************************)
(* QueryExecutor at work: executeTask routes a query, executeSelect or     *)
(* executeUpdate turns its WHERE clause into postfix (Tokenizer and        *)
(* Expressions), chooses the pages to read and evaluates the clause on     *)
(* every row in them; between two queries rows are inserted and the        *)
(* process starts again (Table).                                           *)
(*                                                                         *)
(* A query is its words up to WHERE, the text behind WHERE and the         *)
(* expression the user means by it.  INSERT only logs, as a query, and     *)
(* JOIN only builds a path (JoinPath).  executeTask ends with the deletion *)
(* of a variable that does not exist, which is left out.                   *)
(***************************************************************************)
EXTENDS Table, Expressions

CONSTANTS
  Schemas,    \* the names of each table's columns
  Fields,     \* the fields of each row
  Queries(_)  \* what users ask of a database with these pages

ASSUME EngineAssumption ==
  /\ Schemas \in [Tables -> Seq(Int) \ {<< >>}]
  /\ DOMAIN Fields = Rows
  /\ \A r \in Rows : /\ Fields[r] \in Seq(Field) \ {<< >>}
                    /\ Fields[r][1] = Tok("INT", KeyOf[r])
  /\ \A database \in [PageIds -> BoundedSeq(Rows, RowsPerPage)] :
       \A q \in Queries(database) : q.where \in Text

VARIABLES
  query,  \* the query being executed
  visit,  \* the pages still to read, the current one first
  at,     \* the row of it that is read next, from 1
  found   \* the rows that matched: << page, row >>

queryVars == << query, visit, at, found >>
vars == << tableVars, clauseVars, queryVars >>

NoQuery == [words |-> << >>, where |-> << >>, clause |-> NoClause]

Init ==
  /\ TableInit
  /\ clause = NoClause /\ schema = << >> /\ infix = << >> /\ phase = "idle" /\ next = 1
  /\ ops = << >> /\ out = << >> /\ row = << >> /\ evalStack = << >> /\ match = FALSE
  /\ query = NoQuery /\ visit = << >> /\ at = 1 /\ found = {}

(***************************************************************************)
(* executeTask and the extract functions.                                  *)
(***************************************************************************)
Word(q, n) == IF n \in DOMAIN q.words THEN q.words[n] ELSE ""

Selects(q) == Word(q, 1) \in {"SELECT", "select"}

IsUpdate(q, n) == Word(q, n) \in {"UPDATE", "update"}

\* ADMIN and UPDATE are both upper case or both lower case.
Updates(q) ==
  \/ IsUpdate(q, 1)
  \/ << Word(q, 1), Word(q, 2) >> \in {<< "ADMIN", "UPDATE" >>, << "admin", "update" >>}

\* Only the upper-case ADMIN is skipped.
UpdateStart(q) == IF Word(q, 1) = "ADMIN" THEN 2 ELSE 1

\* SELECT takes the fourth word, whatever the others are.
TableAsked(q) == IF Selects(q) THEN Word(q, 4) ELSE Word(q, UpdateStart(q) + 1)

\* WHERE is one in upper case only, behind the table or behind SET.
HasWhere(q) ==
  LET n == IF Selects(q) THEN 5 ELSE UpdateStart(q) + 2
  IN  \/ Word(q, n) = "WHERE"
      \/ Updates(q) /\ Word(q, n) = "SET" /\ \E m \in DOMAIN q.words : m > n /\ Word(q, m) = "WHERE"

IsRouted(q) == (Selects(q) \/ Updates(q)) /\ TableAsked(q) \in Tables

Ask(q) ==
  /\ IsRouted(q)
  /\ query' = q
  /\ schema' = Schemas[TableAsked(q)]
  /\ infix' = IF HasWhere(q) THEN TokenizeAll(q.where) ELSE << >>
  /\ clause' = IF HasWhere(q) THEN q.clause ELSE NoClause
  /\ phase' = "convert"
  /\ UNCHANGED << tableVars, next, ops, out, row, evalStack, match, visit, at, found >>

\* Another query, or an unknown table.
AskInVain(q) ==
  /\ ~ IsRouted(q)
  /\ query' = q
  /\ phase' = "answered"
  /\ UNCHANGED << tableVars, clause, schema, infix, next, ops, out, row, evalStack, match,
                  visit, at, found >>

(***************************************************************************)
(* executeSelect and executeUpdate.                                        *)
(***************************************************************************)
\* parseWhereForIndexedColumn and hasIndex: only the first three tokens count.
ByIndex ==
  /\ Selects(query)
  /\ Len(infix) >= 3
  /\ << infix[1].type, infix[2].type, infix[3].type >> = << "IDENTIFIER", "EQUALS", "NUMBER_INT" >>
  /\ TableAsked(query) \in Indexed
  /\ infix[1].value = schema[1]

\* lookupPage.
LookedUp(e) == IF e \in Entries THEN index[e] ELSE NoPage

\* A key the index does not have reads no page at all.
IndexPages ==
  LET page == LookedUp(<< TableAsked(query), infix[3].value >>)
  IN  IF page = NoPage THEN << >> ELSE << page >>

ScanPages == [p \in Scanned |-> p]

Plan ==
  /\ phase = "plan"
  /\ phase' = "scan"
  /\ UNCHANGED << tableVars, clause, schema, infix, next, ops, out, row, evalStack, match,
                  query, at, found >>

PlanIndex == ByIndex /\ Plan /\ visit' = IndexPages
PlanScan == ~ ByIndex /\ Plan /\ visit' = ScanPages

\* readRow: the rows of all tables on the page, then, for the zeros behind
\* them, rows without a field, of which one stands for all.
RowRead ==
  LET rows == pages[Head(visit)]
  IN  IF at <= Len(rows) THEN Fields[rows[at]] ELSE << >>

\* What becomes of the row read, and on to the next one.
Note(matches) ==
  /\ found' = IF matches THEN found \union {<< Head(visit), at >>} ELSE found
  /\ IF at <= Len(pages[Head(visit)])
       THEN at' = at + 1 /\ UNCHANGED visit
       ELSE at' = 1 /\ visit' = Tail(visit)
  /\ UNCHANGED << tableVars, query >>

\* Without a clause every row matches.
TakeRow ==
  /\ phase = "scan" /\ visit # << >> /\ out = << >>
  /\ Note(TRUE)
  /\ UNCHANGED clauseVars

StartRow ==
  /\ phase = "scan" /\ visit # << >> /\ out # << >>
  /\ Evaluate(RowRead)
  /\ UNCHANGED << tableVars, queryVars >>

EndRow == Return /\ Note(match')

EndScan ==
  /\ phase = "scan" /\ visit = << >>
  /\ phase' = "answered"
  /\ UNCHANGED << tableVars, clause, schema, infix, next, ops, out, row, evalStack, match, queryVars >>

\* The postfix and the row are freed.
EndQuery ==
  /\ phase = "answered"
  /\ clause' = NoClause /\ schema' = << >> /\ infix' = << >> /\ phase' = "idle" /\ next' = 1
  /\ ops' = << >> /\ out' = << >> /\ row' = << >> /\ evalStack' = << >> /\ match' = FALSE
  /\ query' = NoQuery /\ visit' = << >> /\ at' = 1 /\ found' = {}
  /\ UNCHANGED tableVars

Next ==
  \/ /\ phase = "idle"
     /\ \/ TableNext /\ UNCHANGED << clauseVars, queryVars >>
        \/ \E q \in Queries(pages) : Ask(q) \/ AskInVain(q)
  \/ ClauseNext /\ UNCHANGED << tableVars, queryVars >>
  \/ PlanIndex \/ PlanScan
  \/ TakeRow \/ StartRow \/ EndRow \/ EndScan \/ EndQuery

Spec == Init /\ [][Next]_vars

(***************************************************************************)
(* Properties.                                                             *)
(***************************************************************************)
\* The types of the variables of all three modules.
TypeOK ==
  /\ TableTypeOK
  /\ ClauseTypeOK
  /\ visit \in Seq(1 .. total)
  /\ at \in Nat \ {0}
  /\ found \subseteq (1 .. total) \X Nat
=============================================================================
