------------------------------ MODULE Clauses ------------------------------
(***************************************************************************)
(* What a user means by a clause, what he types for it, and what a query   *)
(* with it is to find: the reference that Engine is checked against.       *)
(***************************************************************************)
EXTENDS Engine

(***************************************************************************)
(* An expression is an operand, or an operator between two expressions;    *)
(* numbers have no sign.                                                   *)
(***************************************************************************)
CONSTANT MaxDepth  \* how deep the operators of a clause may lie in each other

ASSUME DepthAssumption == MaxDepth \in Nat

Exprs[n \in Nat] ==
  LET operands == [op : Operands, value : Nat]
  IN  IF n = 0 THEN operands
      ELSE LET sides == Exprs[n - 1]
           IN  operands \union [op : Operators, left : sides, right : sides]

Expr == Exprs[MaxDepth]

\* The expressions in e, itself among them.
Parts(e) ==
  LET parts[x \in Expr] ==
        IF x.op \in Operands THEN {x} ELSE {x} \union parts[x.left] \union parts[x.right]
  IN  parts[e]

(***************************************************************************)
(* What an expression is in text: operators of one level group from the    *)
(* left, those of a later level bind tighter.                              *)
(***************************************************************************)
Levels == << {"OR"}, {"AND"}, {"EQUALS", "NOT_EQUALS"},
             {"LESS", "GREATER", "LESS_EQ", "GREATER_EQ"},
             {"PLUS", "MINUS"}, {"MULTIPLY", "MODULO"}, Operands >>
Level(e) == CHOOSE n \in DOMAIN Levels : e.op \in Levels[n]

Symbol(op) ==
  CASE op = "PLUS" -> << "+" >> [] op = "MINUS" -> << "-" >>
    [] op = "MULTIPLY" -> << "*" >> [] op = "MODULO" -> << "%" >>
    [] op = "EQUALS" -> << "=", "=" >> [] op = "NOT_EQUALS" -> << "!", "=" >>
    [] op = "LESS" -> << "<" >> [] op = "LESS_EQ" -> << "<", "=" >>
    [] op = "GREATER" -> << ">" >> [] op = "GREATER_EQ" -> << ">", "=" >>
    [] OTHER -> << op >>

Chars(s) == [i \in DOMAIN s |-> Piece(s[i], 0)]
Space == Chars(<< "space" >>)

\* Words always have spaces around them.
Sign(op, spaced) ==
  IF spaced \/ op \in {"AND", "OR"} THEN Space \o Chars(Symbol(op)) \o Space ELSE Chars(Symbol(op))

OperandText(e) ==
  CASE e.op = "IDENTIFIER"     -> << Piece("name", e.value) >>
    [] e.op = "NUMBER_INT"     -> << Piece("digits", e.value) >>
    [] e.op = "NUMBER_FLOAT"   -> << Piece("digits", e.value \div Tenths), Piece(".", 0),
                                     Piece("digits", e.value % Tenths) >>
    [] e.op = "STRING_LITERAL" -> << Piece("quote", 0), Piece("name", e.value), Piece("quote", 0) >>

\* A side of an operator, in parentheses if it needs them.
Side(text, wrapped) == IF wrapped THEN Chars(<< "(" >>) \o text \o Chars(<< ")" >>) ELSE text

\* What a user types for e, with spaces around its signs or without.
Typed(e, spaced) ==
  LET typed[x \in Expr] ==
        IF x.op \in Operands THEN OperandText(x)
        ELSE Side(typed[x.left], Level(x.left) < Level(x))
               \o Sign(x.op, spaced)
               \o Side(typed[x.right], Level(x.right) <= Level(x))
  IN  typed[e]

(***************************************************************************)
(* What it means, whatever the code computes.  A comparison is 1 or 0, and *)
(* whole numbers but 0 are true.  Null stands for what no one could agree  *)
(* on: a column the row does not have, a number against a string, a fact   *)
(* out of a fraction, a product finer than tenths, the remainder of        *)
(* fractions or by 0.                                                      *)
(***************************************************************************)
IsNumber(v) == v.type \in {"INT", "FLOAT"}

\* A number in tenths, be it an int or a float.
Amount(v) == IF v.type = "INT" THEN Tenths * v.value ELSE v.value

\* The number with that many tenths, a float if one of v and w is.
NumberLike(v, w, tenths) ==
  IF "FLOAT" \in {v.type, w.type} THEN Tok("FLOAT", tenths) ELSE Tok("INT", tenths \div Tenths)

\* How the sides of a comparison that holds may lie.
Orders == [ EQUALS |-> {"same"}, NOT_EQUALS |-> {"less", "more"},
            LESS |-> {"less"}, LESS_EQ |-> {"less", "same"},
            GREATER |-> {"more"}, GREATER_EQ |-> {"more", "same"} ]

OrderOf(x, y) == IF x < y THEN "less" ELSE IF x > y THEN "more" ELSE "same"

MeantComparison(op, v, w) ==
  IF IsNumber(v) /\ IsNumber(w) THEN Truth(OrderOf(Amount(v), Amount(w)) \in Orders[op])
  ELSE IF v.type = w.type THEN Truth(OrderOf(v.value, w.value) \in Orders[op])
  ELSE Null

\* What is left of x when y is taken from it as often as it goes: nearer to 0
\* than y, and on the side of x.
LeftOver(x, y) ==
  LET size == IF y < 0 THEN -y ELSE y
  IN  CHOOSE m \in 1 - size .. size - 1 : (x - m) % size = 0 /\ m * x >= 0

MeantArithmetic(op, v, w) ==
  LET x == Amount(v)
      y == Amount(w)
      isExact == op = "MULTIPLY" => (x * y) % Tenths = 0
      isWhole == op = "MODULO" => x % Tenths = 0 /\ y % Tenths = 0 /\ y # 0
  IN  IF IsNumber(v) /\ IsNumber(w) /\ isExact /\ isWhole
        THEN NumberLike(v, w, CASE op = "PLUS"     -> x + y
                                [] op = "MINUS"    -> x - y
                                [] op = "MULTIPLY" -> (x * y) \div Tenths
                                [] op = "MODULO"   -> LeftOver(x, y))
        ELSE Null

MeantLogic(op, v, w) ==
  IF v.type = "INT" /\ w.type = "INT"
    THEN Truth(IF op = "AND" THEN 0 \notin {v.value, w.value} ELSE {v.value, w.value} # {0})
    ELSE Null

Meant(op, v, w) ==
  IF Null \in {v, w} THEN Null
  ELSE CASE op \in DOMAIN Orders -> MeantComparison(op, v, w)
         [] op \in {"AND", "OR"} -> MeantLogic(op, v, w)
         [] OTHER                -> MeantArithmetic(op, v, w)

\* The value of e on row r of a table with these columns.
Meaning(e, names, r) ==
  LET meaning[x \in Expr] ==
        CASE x.op = "IDENTIFIER" ->
               IF Column(names, x.value) \in DOMAIN r THEN r[Column(names, x.value)] ELSE Null
          [] x.op \in Literals -> Tok(FieldType[x.op], x.value)
          [] OTHER             -> Meant(x.op, meaning[x.left], meaning[x.right])
  IN  meaning[e]

\* The code finds an int and a float never equal and neither of them less, other
\* than a user does who compares an account balance with 5000.
IsMixed(e, names, r) ==
  \E x \in Parts(e) :
    /\ x.op \in DOMAIN Orders
    /\ {Meaning(x.left, names, r).type, Meaning(x.right, names, r).type} = {"INT", "FLOAT"}

\* Whether e has a value on r that the code should find, too.
IsJudged(e, names, r) == Meaning(e, names, r) # Null /\ ~ IsMixed(e, names, r)

\* Whether a remainder by less than 1 is part of it, or by what has no agreed value.
Traps(e, names, r) ==
  \E x \in Parts(e) :
    /\ x.op = "MODULO"
    /\ IsJudged(x.right, names, r) =>
         LET v == Meaning(x.right, names, r)
         IN  IsNumber(v) /\ -Tenths < Amount(v) /\ Amount(v) < Tenths

\* Whether the row has every column that e names.
HasColumns(e, names, r) ==
  \A x \in Parts(e) : x.op = "IDENTIFIER" => Column(names, x.value) \in DOMAIN r

\* A clause the user means something by is typed as such.
ASSUME ClauseAssumption ==
  \A database \in [PageIds -> BoundedSeq(Rows, RowsPerPage)] :
    \A q \in Queries(database) :
      HasWhere(q) /\ q.clause # NoClause =>
        q.clause \in Expr /\ \E spaced \in BOOLEAN : q.where = Typed(q.clause, spaced)

(***************************************************************************)
(* Properties.                                                             *)
(***************************************************************************)
\* Whether row r is what the user asks for; without a clause every row is.
Wanted(r) == clause = NoClause \/ Meaning(clause, schema, Fields[r]).value # 0

\* Whether the clause is true or false of r; of a row of another table it may
\* be neither.
IsAskedAbout(r) ==
  \/ clause = NoClause
  \/ IsJudged(clause, schema, Fields[r]) /\ Meaning(clause, schema, Fields[r]).type = "INT"

\* A query without a clause, or with one the user means something by.
IsMeant == HasWhere(query) => query.clause # NoClause

\* The rows of a SELECT or UPDATE are exactly those, on the pages it reads, for
\* which the clause holds as the user means it: signs written without spaces,
\* operators of all levels, groups and parentheses, ints, floats and strings,
\* rows of other tables (tokenizer, conversion and evaluation together).
FoundWhatIsMeant ==
  LET read == ToSet(IF ByIndex THEN IndexPages ELSE ScanPages)
  IN  /\ \A p \in read : \A i \in DOMAIN pages[p] :
           IsAskedAbout(pages[p][i]) => (<< p, i >> \in found <=> Wanted(pages[p][i]))
      /\ \A h \in found : h[1] \in read

\* A SELECT for one key of an indexed table finds a row with it if one was
\* inserted since the process started and it was not cleared away since.
KeyIsFound ==
  LET entry == << TableAsked(query), clause.right.value >>
  IN  clause.op = "EQUALS" /\ clause.left.op = "IDENTIFIER" /\ clause.right.op = "NUMBER_INT" =>
        (ByIndex /\ LookedUp(entry) # NoPage /\ entry \notin lost =>
           \E h \in found : h[2] \in DOMAIN pages[h[1]] /\ EntryOf(pages[h[1]][h[2]]) = entry)

\* The process ends at a row with the fields asked about only if the user asked for
\* a remainder by 0 or a fraction of it: no operand got to the wrong side of a %.
TrapIsMeant == HasColumns(clause, schema, row) => Traps(clause, schema, row)

AnswerIsExact ==
  /\ phase = "answered" /\ IsRouted(query) /\ IsMeant => FoundWhatIsMeant /\ KeyIsFound
  /\ phase = "crashed" /\ IsMeant => TrapIsMeant
=============================================================================
