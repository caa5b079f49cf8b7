------------------------------ MODULE MCEngine ------------------------------
(***************************************************************************)
(* Engine for TLC.  On every database of up to MaxInserts rows a user asks a  *)
(* few queries, of every route; on one of them, with rows of both tables,  *)
(* clauses of one operator of every kind on all operands, two on a few and *)
(* three of every level, grouped in every way, with and without spaces;    *)
(* and such clauses with a piece left out or NOT put in front.             *)
(***************************************************************************)
EXTENDS Clauses

MCRows == { "c1", "c2", "o1" }
MCTableOf == [r \in MCRows |-> IF r = "o1" THEN "orders" ELSE "customer"]
MCKeyOf == [r \in MCRows |-> IF r = "c2" THEN 2 ELSE 1]
MCFields ==
  [r \in MCRows |-> << Tok("INT", MCKeyOf[r]),
                       IF r = "o1" THEN Tok("VARCHAR", 3) ELSE Tok("FLOAT", 15 * MCKeyOf[r]) >>]

\* Names 1 and 2 are columns of customer, 3 and 4 those of orders, 9 is none.
MCSchemas == [t \in {"customer", "orders"} |-> IF t = "customer" THEN << 1, 2 >> ELSE << 3, 4 >>]

(***************************************************************************)
(* Clauses.                                                                *)
(***************************************************************************)
Leaf(type, value) == [op |-> type, value |-> value]
Tree(op, l, r) == [op |-> op, left |-> l, right |-> r]

A == Leaf("IDENTIFIER", 1)
B == Leaf("IDENTIFIER", 2)
One == Leaf("NUMBER_INT", 1)
Two == Leaf("NUMBER_INT", 2)

\* The floats are 0.5, 1.5 and 2.0.
Leaves == { A, B, Two, Leaf("NUMBER_INT", 0), Leaf("NUMBER_FLOAT", 5), Leaf("NUMBER_FLOAT", 15),
            Leaf("NUMBER_FLOAT", 20), Leaf("STRING_LITERAL", 3) }

Single == { Tree(o, l, r) : o \in Operators, l \in Leaves, r \in Leaves }

Double ==
  UNION { { Tree(o, Tree(q, A, Two), x), Tree(o, x, Tree(q, Two, A)) } :
          o \in Operators, q \in Operators, x \in {Two, One, B} }
  \union { Tree(o, Tree(q, x, y), Leaf("NUMBER_FLOAT", z)) :
             o \in {"EQUALS", "LESS", "GREATER_EQ"}, q \in {"PLUS", "MINUS", "MULTIPLY", "MODULO"},
             x \in {A, B}, y \in {Two, B, Leaf("NUMBER_FLOAT", 10)}, z \in {10, 30} }
  \union { Tree("LESS", Tree("MODULO", Tree("MINUS", A, Two), Two), One) }

OnePerLevel == { "MINUS", "MULTIPLY", "LESS", "EQUALS", "AND", "OR" }
Triple ==
  UNION { { Tree(o, Tree(q, A, Two), Tree(p, One, A)),
            Tree(o, A, Tree(p, Two, Tree(q, One, A))),
            Tree(o, A, Tree(p, Tree(q, Two, One), A)),
            Tree(o, Tree(p, Tree(q, A, Two), One), A),
            Tree(o, Tree(p, A, Tree(q, Two, One)), A) } :
          o \in OnePerLevel, p \in OnePerLevel, q \in OnePerLevel }

Clauses(spaced) ==
  {<< e, Typed(e, spaced) >> : e \in IF spaced THEN Single \union Double \union Triple
                                     ELSE Leaves \union Single}

Pairs ==
  UNION { { Tree(o, Tree(q, A, Two), One), Tree(o, A, Tree(q, Two, One)) } :
          o \in OnePerLevel, q \in OnePerLevel }

\* Texts that are no expression: with a piece left out, with NOT, with a name
\* nobody knows, a name with a dot, two runs that meet, an open quote, a sign
\* before a number.
Garbled ==
  UNION { LET text == Typed(e, FALSE)
          IN  {RemoveAt(text, i) : i \in DOMAIN text} \union {Chars(<< "NOT", "space" >>) \o text} :
          e \in Pairs }
  \union { << Piece("(", 0), Piece("name", 9), Piece("<", 0), Piece("digits", 2) >>,
           << Piece("name", 1), Piece(".", 0), Piece("name", 2), Piece("=", 0), Piece("digits", 2) >>,
           << Piece("AND", 0), Piece("digits", 1), Piece(">", 0), Piece("!", 0), Piece("digits", 1) >>,
           << Piece("other", 0), Piece("<", 0), Piece("quote", 0), Piece("name", 3) >>,
           << Piece("name", 1), Piece(">", 0), Piece("-", 0), Piece("digits", 2) >> }

(***************************************************************************)
(* Queries.                                                                *)
(***************************************************************************)
Query(words, e, text) == [words |-> words, where |-> text, clause |-> e]
Words(verb, table) == << verb, "*", "FROM", table, "WHERE" >>
NoText(words) == Query(words, NoClause, << >>)

KeyIsOne(table) ==
  LET e == Tree("EQUALS", Leaf("IDENTIFIER", MCSchemas[table][1]), One)
  IN  Query(Words("SELECT", table), e, Typed(e, TRUE))

\* The queries of queries.txt take FROM for the columns and WHERE for the table.
Everywhere ==
  { KeyIsOne("customer"), KeyIsOne("orders"),
    NoText(<< "SELECT", "*", "FROM", "customer" >>) }

InOne ==
  {Query(Words("SELECT", "customer"), c[1], c[2]) : c \in Clauses(TRUE) \union Clauses(FALSE)}
  \union {Query(Words("select", "customer"), NoClause, text) : text \in Garbled}
  \union {[KeyIsOne("customer") EXCEPT !.words = w] :
             w \in { << "SELECT", "FROM", "customer", "WHERE" >>,
                     << "select", "*", "from", "customer", "where" >>,
                     << "SELECT", "*", "FROM", "lineitem", "WHERE" >>,
                     << "UPDATE", "customer", "WHERE" >>,
                     << "update", "customer", "SET", "c_name=1", "WHERE" >>,
                     << "update", "customer", "set", "c_name=1", "WHERE" >>,
                     << "ADMIN", "UPDATE", "customer", "SET", "c_name=1", "WHERE" >>,
                     << "admin", "update", "customer", "SET", "c_name=1", "WHERE" >>,
                     << "ADMIN", "SELECT", "*", "FROM", "customer", "WHERE" >>,
                     << "INSERT", "INTO", "customer" >>,
                     << "JOIN", "customer,", "orders,", "lineitem" >> }}
  \union {Query(Words("SELECT", "orders"), c[1], c[2]) :
            c \in {<< e, Typed(e, TRUE) >> :
                     e \in {Tree(o, Leaf("IDENTIFIER", 4), Leaf("STRING_LITERAL", 3)) : o \in Operators}}}

\* Rows of both tables on the first page, another behind them and one that a
\* scan does not get to.
PagesOfAll == << << "c1", "o1" >>, << "c2", "c1" >>, << "c2" >> >>

All == Everywhere \union InOne
MCQueries(database) == IF database = PagesOfAll THEN All ELSE Everywhere

\* At most MaxInserts rows are inserted.
CONSTANT MaxInserts
WithinBounds == totalRows["customer"] + totalRows["orders"] <= MaxInserts

MCNext == Next /\ WithinBounds'

MCSpec == Init /\ [][MCNext]_vars
=============================================================================
